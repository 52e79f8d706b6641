------------------------ MODULE SolendLendingProofs ------------------------
(***************************************************************************)
(* Solend for any reserves, any number of requests on one wallet, and any  *)
(* size of a transaction: what an answer does to the wallet's positions,   *)
(* wherever it is cut and wherever it breaks off, and which requests that  *)
(* nobody disturbs go through.                                             *)
(***************************************************************************)
EXTENDS SolendLending, InstructionListsProofs, FiniteSetTheorems, TLAPS

-----------------------------------------------------------------------------
(* The reserves of a position, each listed once.                           *)
LEMMA ListingIs ==
  ASSUME NEW s
  PROVE  s \in Listings <=> s \in Seq(Reserves) /\ IsInjective(s)
<1> DEFINE n == Len(s)
           N == Cardinality(Reserves)
<1>1. N \in Nat /\ IsFiniteSet(Reserves)
  BY SolendAssumption, FS_CardinalityType
<1>2. ASSUME s \in Listings
      PROVE  s \in Seq(Reserves) /\ IsInjective(s)
  <2>1. PICK m \in 0..N : s \in [1..m -> Reserves]
    BY <1>2 DEF Listings, SeqOf
  <2>2. m \in Nat
    BY <1>1, <2>1
  <2>3. s \in Seq(Reserves)
    BY <2>1, <2>2, SeqDef
  <2>4. QED
    BY <1>2, <2>3 DEF Listings
<1>3. ASSUME s \in Seq(Reserves), IsInjective(s)
      PROVE  s \in Listings
  <2>1. n \in Nat /\ s \in [1..n -> Reserves]
    BY <1>3, LenProperties
  <2>2. s \in Injection(1..n, Reserves)
    BY <1>3, <2>1 DEF Injection
  <2>3. Cardinality(1..n) <= N
    BY <1>1, <2>2, FS_Injection
  <2>4. Cardinality(1..n) = n
    BY <2>1, FS_Interval
  <2>5. n \in 0..N
    BY <1>1, <2>1, <2>3, <2>4
  <2>6. s \in SeqOf(Reserves, N)
    BY <2>1, <2>5 DEF SeqOf
  <2>7. QED
    BY <1>3, <2>6 DEF Listings
<1>4. QED
  BY <1>2, <1>3

LEMMA Emptied ==
  /\ <<>> \in Listings /\ NewObligation \in Obligation
  /\ NewObligation # Missing /\ ToSet(<<>>) = {}
<1>1. <<>> \in Seq(Reserves) /\ IsInjective(<<>>)
  BY DEF IsInjective
<1>2. <<>> \in Listings
  BY <1>1, ListingIs
<1>3. NewObligation \in Obligation
  BY <1>2 DEF NewObligation, Obligation
<1>4. ToSet(<<>>) = {}
  BY DEF ToSet
<1>5. QED
  BY <1>2, <1>3, <1>4, SolendAssumption

(* Another reserve in a position, and one taken out of it.                 *)
LEMMA WithIs ==
  ASSUME NEW s \in Listings, NEW r \in Reserves
  PROVE  With(s, r) \in Listings /\ ToSet(With(s, r)) = ToSet(s) \cup {r}
<1> DEFINE n == Len(s)
           t == Append(s, r)
<1>1. s \in Seq(Reserves) /\ IsInjective(s) /\ n \in Nat /\ DOMAIN s = 1..n
  BY ListingIs
<1>2. CASE Contains(s, r)
  <2>1. With(s, r) = s /\ r \in ToSet(s)
    BY <1>1, <1>2 DEF With, Contains, ToSet
  <2>2. QED
    BY <2>1
<1>3. CASE ~Contains(s, r)
  <2>1. With(s, r) = t
    BY <1>3 DEF With
  <2>2. /\ t \in Seq(Reserves) /\ Len(t) = n + 1 /\ DOMAIN t = 1..n + 1
        /\ \A i \in 1..n : t[i] = s[i]
        /\ t[n + 1] = r
    BY <1>1
  <2> HIDE DEF t
  <2>3. \A i \in 1..n : s[i] # r
    BY <1>3 DEF Contains
  <2>4. IsInjective(t)
    <3> SUFFICES ASSUME NEW a \in 1..n + 1, NEW b \in 1..n + 1, t[a] = t[b]
                 PROVE  a = b
      BY <2>2 DEF IsInjective
    <3>1. \A i \in 1..n + 1 : i \in 1..n \/ i = n + 1
      BY <1>1
    <3>2. QED
      BY <1>1, <2>2, <2>3, <3>1 DEF IsInjective
  <2>5. t \in Listings
    BY <2>2, <2>4, ListingIs
  <2>6. ToSet(t) = ToSet(s) \cup {r}
    <3>1. \A i \in 1..n + 1 : i \in 1..n \/ i = n + 1
      BY <1>1
    <3>2. 1..n \subseteq 1..n + 1 /\ n + 1 \in 1..n + 1
      BY <1>1
    <3>3. QED
      BY <1>1, <2>2, <3>1, <3>2 DEF ToSet
  <2>7. QED
    BY <2>1, <2>5, <2>6
<1>4. QED
  BY <1>2, <1>3

LEMMA RemovedFrom ==
  ASSUME NEW s \in Listings, NEW r \in Reserves
  PROVE  RemoveFirst(s, r) \in Listings /\ ToSet(RemoveFirst(s, r)) = ToSet(s) \ {r}
<1> DEFINE n == Len(s)
           I == {i \in 1..n : s[i] = r}
<1>1. s \in Seq(Reserves) /\ IsInjective(s) /\ n \in Nat /\ DOMAIN s = 1..n
      /\ \A i \in 1..n : s[i] \in Reserves
  BY ListingIs
<1>2. CASE I = {}
  <2>1. RemoveFirst(s, r) = s /\ r \notin ToSet(s)
    BY <1>1, <1>2 DEF RemoveFirst, ToSet
  <2>2. QED
    BY <2>1
<1>3. CASE I # {}
  <2> DEFINE m == SelectInSeq(s, LAMBDA v : v = r)
             t == RemoveAt(s, m)
  <2>1. RemoveFirst(s, r) = t
    BY <1>3 DEF RemoveFirst
  <2>2. PICK j \in 1..n : s[j] = r
    BY <1>3
  <2>3. I = {j}
    BY <1>1, <2>2 DEF IsInjective
  <2>4. m = j
    <3>1. m = Min(I)
      BY <1>3 DEF SelectInSeq
    <3>2. Min({j}) = j
      BY <2>2 DEF Min
    <3> HIDE DEF I, m
    <3>3. QED
      BY <2>3, <3>1, <3>2
  <2> HIDE DEF m
  <2> DEFINE u == SubSeq(s, 1, j - 1)
             w == SubSeq(s, j + 1, n)
  <2>5. t = u \o w
    BY <2>4 DEF RemoveAt
  <2>6. j \in Nat /\ j >= 1 /\ j <= n /\ j - 1 \in Int /\ j + 1 \in Int /\ n \in Int
    BY <1>1, <2>2
  <2>7. /\ u \in Seq(Reserves)
        /\ Len(u) = IF 1 <= j - 1 THEN (j - 1) - 1 + 1 ELSE 0
        /\ \A i \in 1..(j - 1) - 1 + 1 : u[i] = s[1 + i - 1]
    BY <1>1, <2>6, SubSeqProperties
  <2>8. /\ w \in Seq(Reserves)
        /\ Len(w) = IF j + 1 <= n THEN n - (j + 1) + 1 ELSE 0
        /\ \A i \in 1..n - (j + 1) + 1 : w[i] = s[j + 1 + i - 1]
    BY <1>1, <2>6, SubSeqProperties
  <2> HIDE DEF u, w, t
  <2>9. Len(u) = j - 1 /\ Len(w) = n - j
    BY <2>6, <2>7, <2>8
  <2>10. \A i \in 1..j - 1 : u[i] = s[i]
    BY <2>6, <2>7
  <2>11. \A i \in 1..n - j : w[i] = s[j + i]
    BY <2>6, <2>8
  <2>12. /\ t \in Seq(Reserves) /\ Len(t) = n - 1
         /\ \A i \in 1..n - 1 : t[i] = IF i <= j - 1 THEN u[i] ELSE w[i - (j - 1)]
    <3>1. /\ t \in Seq(Reserves) /\ Len(t) = Len(u) + Len(w)
          /\ \A i \in 1..Len(u) + Len(w) : t[i] = IF i <= Len(u) THEN u[i] ELSE w[i - Len(u)]
      BY <2>5, <2>7, <2>8, ConcatProperties
    <3>2. Len(u) + Len(w) = n - 1
      BY <2>6, <2>9
    <3>3. QED
      BY <2>9, <3>1, <3>2
  <2> DEFINE at(i) == IF i <= j - 1 THEN i ELSE i + 1
  <2>13. \A i \in 1..n - 1 : at(i) \in 1..n /\ at(i) # j /\ t[i] = s[at(i)]
    <3> SUFFICES ASSUME NEW i \in 1..n - 1
                 PROVE  at(i) \in 1..n /\ at(i) # j /\ t[i] = s[at(i)]
      OBVIOUS
    <3>1. CASE i <= j - 1
      <4>1. i \in 1..j - 1 /\ i \in 1..n /\ i # j /\ at(i) = i
        BY <2>6, <3>1
      <4> HIDE DEF at
      <4>2. t[i] = s[i]
        BY <2>10, <2>12, <3>1, <4>1
      <4>3. QED
        BY <4>1, <4>2
    <3>2. CASE ~(i <= j - 1)
      <4>1. /\ i - (j - 1) \in 1..n - j /\ j + (i - (j - 1)) = i + 1
            /\ i + 1 \in 1..n /\ i + 1 # j /\ at(i) = i + 1
        BY <2>6, <3>2
      <4> HIDE DEF at
      <4>2. t[i] = w[i - (j - 1)]
        BY <2>12, <3>2
      <4>3. QED
        BY <2>11, <4>1, <4>2
    <3>3. QED
      BY <3>1, <3>2
  <2>14. DOMAIN t = 1..n - 1
    BY <2>12
  <2>15. IsInjective(t)
    <3> SUFFICES ASSUME NEW a \in 1..n - 1, NEW b \in 1..n - 1, t[a] = t[b]
                 PROVE  a = b
      BY <2>14 DEF IsInjective
    <3>1. at(a) = at(b)
      BY <1>1, <2>13 DEF IsInjective
    <3>2. QED
      BY <2>6, <3>1
  <2>16. ToSet(t) \subseteq ToSet(s) \ {r}
    <3> SUFFICES ASSUME NEW i \in 1..n - 1
                 PROVE  t[i] \in ToSet(s) \ {r}
      BY <2>14 DEF ToSet
    <3>1. at(i) \in 1..n /\ at(i) # j /\ t[i] = s[at(i)]
      BY <2>13
    <3> HIDE DEF at
    <3>2. s[at(i)] # s[j]
      BY <1>1, <3>1 DEF IsInjective
    <3>3. QED
      BY <1>1, <2>2, <3>1, <3>2 DEF ToSet
  <2>17. ASSUME NEW x \in ToSet(s) \ {r}
         PROVE  x \in ToSet(t)
    <3>1. PICK i \in 1..n : s[i] = x
      BY <1>1 DEF ToSet
    <3>2. i # j
      BY <2>2, <3>1
    <3> DEFINE b == IF i < j THEN i ELSE i - 1
    <3>3. b \in 1..n - 1 /\ at(b) = i
      BY <2>6, <3>2
    <3> HIDE DEF b
    <3>4. t[b] = x
      BY <2>13, <3>1, <3>3
    <3>5. QED
      BY <2>14, <3>3, <3>4 DEF ToSet
  <2>18. QED
    BY <2>1, <2>12, <2>15, <2>16, <2>17, ListingIs
<1>4. QED
  BY <1>2, <1>3

LEMMA WithoutIs ==
  ASSUME NEW s \in Listings, NEW r \in Reserves, NEW all \in BOOLEAN
  PROVE  /\ Without(s, r, all) \in Listings
         /\ ToSet(Without(s, r, all)) = IF all THEN ToSet(s) \ {r} ELSE ToSet(s)
BY RemovedFrom DEF Without

-----------------------------------------------------------------------------
(* The instructions of an answer: the steps that prepare, and one          *)
(* operation.                                                              *)
Steps ==
  [type : {"createAccount"}, account : Accounts]
    \cup {CreateObligation, InitObligation}
    \cup [type : {"refreshReserve"}, reserve : Reserves]
    \cup [type : {"refreshObligation"}, deposits : Listings, borrows : Listings]

Instr == Steps \cup {Operation(k) : k \in Kind}

StepTypes == {"createAccount", "createObligation", "initObligation",
              "refreshReserve", "refreshObligation"}

LEMMA StepsAre ==
  ASSUME NEW i \in Steps
  PROVE  /\ i.type \in StepTypes
         /\ i.type = "createAccount" => i.account \in Accounts /\ i = CreateAccount(i.account)
         /\ i.type = "refreshReserve" => i.reserve \in Reserves
         /\ i.type = "refreshObligation" => i.deposits \in Listings /\ i.borrows \in Listings
<1>1. CASE i \in [type : {"createAccount"}, account : Accounts]
  BY <1>1 DEF StepTypes, CreateAccount
<1>2. CASE i \in {CreateObligation, InitObligation}
  BY <1>2 DEF StepTypes, CreateObligation, InitObligation
<1>3. CASE i \in [type : {"refreshReserve"}, reserve : Reserves]
  BY <1>3 DEF StepTypes
<1>4. CASE i \in [type : {"refreshObligation"}, deposits : Listings, borrows : Listings]
  BY <1>4 DEF StepTypes
<1>5. QED
  BY <1>1, <1>2, <1>3, <1>4 DEF Steps

LEMMA StepsMade ==
  /\ \A a \in Accounts : CreateAccount(a) \in Steps /\ CreateAccount(a).type = "createAccount"
                         /\ CreateAccount(a).account = a
  /\ CreateObligation \in Steps /\ CreateObligation.type = "createObligation"
  /\ InitObligation \in Steps /\ InitObligation.type = "initObligation"
  /\ \A r \in Reserves : RefreshReserve(r) \in Steps /\ RefreshReserve(r).type = "refreshReserve"
                         /\ RefreshReserve(r).reserve = r
  /\ \A D, B \in Listings :
       /\ RefreshObligation(D, B) \in Steps /\ RefreshObligation(D, B).type = "refreshObligation"
       /\ RefreshObligation(D, B).deposits = D /\ RefreshObligation(D, B).borrows = B
BY DEF Steps, CreateAccount, CreateObligation, InitObligation, RefreshReserve, RefreshObligation

LEMMA OperationIs ==
  ASSUME NEW k \in Kind
  PROVE  /\ k.op \in Ops /\ k.reserve \in Reserves /\ k.all \in BOOLEAN
         /\ Operation(k).type = k.op /\ Operation(k).reserve = k.reserve
         /\ Operation(k).all = k.all
         /\ Operation(k) \in Instr /\ Operation(k).type \notin StepTypes
BY DEF Kind, Operation, Instr, Ops, StepTypes

LEMMA ChainParts ==
  ASSUME NEW c \in Chain
  PROVE  /\ c.accounts \subseteq Accounts /\ c.obligation \in Obligation \cup {Missing}
         /\ c.fresh \subseteq Reserves /\ c.current \in BOOLEAN
         /\ c.obligation # Missing =>
              /\ c.obligation \in Obligation
              /\ c.obligation.deposits \in Listings /\ c.obligation.borrows \in Listings
BY DEF Chain, Obligation

(* What a step that was accepted changes.                                  *)
Prepares(c, i, d) ==
  /\ d \in Chain
  /\ d.accounts = IF i.type = "createAccount" THEN c.accounts \cup {i.account} ELSE c.accounts
  /\ d.obligation = IF i.type = "createObligation" THEN NewObligation ELSE c.obligation
  /\ d.fresh = IF i.type = "refreshReserve" THEN c.fresh \cup {i.reserve} ELSE c.fresh
  /\ d.current = IF i.type = "refreshObligation" THEN TRUE ELSE c.current

LEMMA StepEffects ==
  ASSUME NEW c \in Chain, NEW i \in Steps
  PROVE  Prepares(c, i, Effect(c, i))
<1> DEFINE d == Effect(c, i)
<1>1. CASE i.type = "createAccount"
  <2>1. d = [c EXCEPT !.accounts = @ \cup {i.account}] /\ i.account \in Accounts
    BY <1>1, StepsAre DEF Effect
  <2>2. QED
    BY <1>1, <2>1 DEF Prepares, Chain
<1>2. CASE i.type = "createObligation"
  <2>1. d = [c EXCEPT !.obligation = NewObligation]
    BY <1>2 DEF Effect
  <2>2. QED
    BY <1>2, <2>1, Emptied DEF Prepares, Chain
<1>3. CASE i.type = "initObligation"
  <2>1. d = c
    BY <1>3 DEF Effect
  <2>2. QED
    BY <1>3, <2>1 DEF Prepares
<1>4. CASE i.type = "refreshReserve"
  <2>1. d = [c EXCEPT !.fresh = @ \cup {i.reserve}] /\ i.reserve \in Reserves
    BY <1>4, StepsAre DEF Effect
  <2>2. QED
    BY <1>4, <2>1 DEF Prepares, Chain
<1>5. CASE i.type = "refreshObligation"
  <2>1. d = [c EXCEPT !.current = TRUE]
    BY <1>5 DEF Effect
  <2>2. QED
    BY <1>5, <2>1 DEF Prepares, Chain
<1>6. QED
  BY <1>1, <1>2, <1>3, <1>4, <1>5, StepsAre DEF StepTypes

(* What an operation that was accepted changes: of the two positions the   *)
(* one it is about, by its own reserve.                                    *)
Operates(c, k, d) ==
  /\ d \in Chain /\ c.obligation # Missing /\ d.obligation # Missing
  /\ LET o == c.obligation
         p == d.obligation
     IN
     /\ ToSet(p.deposits) =
          CASE k.op = "deposit"            -> ToSet(o.deposits) \cup {k.reserve}
            [] k.op = "withdraw" /\ k.all  -> ToSet(o.deposits) \ {k.reserve}
            [] OTHER                       -> ToSet(o.deposits)
     /\ ToSet(p.borrows) =
          CASE k.op = "borrow"             -> ToSet(o.borrows) \cup {k.reserve}
            [] k.op = "repay" /\ k.all     -> ToSet(o.borrows) \ {k.reserve}
            [] OTHER                       -> ToSet(o.borrows)

LEMMA OperatedIs ==
  ASSUME NEW c \in Chain, NEW i, NEW D \in Listings, NEW B \in Listings
  PROVE  LET d == Operated(c, i, D, B) IN
         /\ d \in Chain /\ d.obligation # Missing
         /\ d.obligation.deposits = D /\ d.obligation.borrows = B
<1> DEFINE o == [deposits |-> D, borrows |-> B]
<1>1. o \in Obligation /\ o.deposits = D /\ o.borrows = B
  BY DEF Obligation
<1> HIDE DEF o
<1>2. Operated(c, i, D, B) = [c EXCEPT !.obligation = o, !.fresh = @ \ {i.reserve}, !.current = FALSE]
  BY DEF Operated, o
<1>3. QED
  BY <1>1, <1>2, SolendAssumption DEF Chain

LEMMA OperationEffects ==
  ASSUME NEW c \in Chain, NEW k \in Kind, Accepts(c, Operation(k))
  PROVE  Operates(c, k, Effect(c, Operation(k)))
<1> DEFINE i == Operation(k)
           o == c.obligation
           d == Effect(c, i)
<1>1. i.type = k.op /\ i.reserve = k.reserve /\ i.all = k.all /\ k.op \in Ops
      /\ k.reserve \in Reserves /\ k.all \in BOOLEAN
  BY OperationIs
<1> HIDE DEF i
<1>2. o # Missing
  BY <1>1 DEF Accepts, Ops, i
<1>3. o.deposits \in Listings /\ o.borrows \in Listings
  BY <1>2, ChainParts
<1>4. CASE k.op = "deposit"
  <2> DEFINE D == With(o.deposits, k.reserve)
  <2>1. d = Operated(c, i, D, o.borrows)
    BY <1>1, <1>4 DEF Effect
  <2>2. D \in Listings /\ ToSet(D) = ToSet(o.deposits) \cup {k.reserve}
    BY <1>1, <1>3, WithIs
  <2> HIDE DEF D
  <2>3. d \in Chain /\ d.obligation # Missing /\ d.obligation.deposits = D /\ d.obligation.borrows = o.borrows
    BY <1>3, <2>1, <2>2, OperatedIs
  <2> HIDE DEF d
  <2>4. QED
    BY <1>2, <1>4, <2>2, <2>3 DEF Operates, i, d
<1>5. CASE k.op = "withdraw"
  <2> DEFINE D == Without(o.deposits, k.reserve, k.all)
  <2>1. d = Operated(c, i, D, o.borrows)
    BY <1>1, <1>5 DEF Effect
  <2>2. D \in Listings /\ ToSet(D) = IF k.all THEN ToSet(o.deposits) \ {k.reserve} ELSE ToSet(o.deposits)
    BY <1>1, <1>3, WithoutIs
  <2> HIDE DEF D
  <2>3. d \in Chain /\ d.obligation # Missing /\ d.obligation.deposits = D /\ d.obligation.borrows = o.borrows
    BY <1>3, <2>1, <2>2, OperatedIs
  <2> HIDE DEF d
  <2>4. QED
    BY <1>1, <1>2, <1>5, <2>2, <2>3 DEF Operates, i, d
<1>6. CASE k.op = "borrow"
  <2> DEFINE B == With(o.borrows, k.reserve)
  <2>1. d = Operated(c, i, o.deposits, B)
    BY <1>1, <1>6 DEF Effect
  <2>2. B \in Listings /\ ToSet(B) = ToSet(o.borrows) \cup {k.reserve}
    BY <1>1, <1>3, WithIs
  <2> HIDE DEF B
  <2>3. d \in Chain /\ d.obligation # Missing /\ d.obligation.deposits = o.deposits /\ d.obligation.borrows = B
    BY <1>3, <2>1, <2>2, OperatedIs
  <2> HIDE DEF d
  <2>4. QED
    BY <1>2, <1>6, <2>2, <2>3 DEF Operates, i, d
<1>7. CASE k.op = "repay"
  <2> DEFINE B == Without(o.borrows, k.reserve, k.all)
  <2>1. d = Operated(c, i, o.deposits, B)
    BY <1>1, <1>7 DEF Effect
  <2>2. B \in Listings /\ ToSet(B) = IF k.all THEN ToSet(o.borrows) \ {k.reserve} ELSE ToSet(o.borrows)
    BY <1>1, <1>3, WithoutIs
  <2> HIDE DEF B
  <2>3. d \in Chain /\ d.obligation # Missing /\ d.obligation.deposits = o.deposits /\ d.obligation.borrows = B
    BY <1>3, <2>1, <2>2, OperatedIs
  <2> HIDE DEF d
  <2>4. QED
    BY <1>1, <1>2, <1>7, <2>2, <2>3 DEF Operates, i, d
<1>8. QED
  BY <1>1, <1>4, <1>5, <1>6, <1>7 DEF Ops

-----------------------------------------------------------------------------
(* An answer as one list.  What its first i instructions leave behind: the *)
(* accounts they create, whether they open the obligation, the reserves    *)
(* they refresh, and whether they refresh the obligation.                  *)
Created(L, i) == {L[j].account : j \in {j \in 1..i : L[j].type = "createAccount"}}
Opened(L, i) == \E j \in 1..i : L[j].type = "createObligation"
Refreshed(L, i) == {L[j].reserve : j \in {j \in 1..i : L[j].type = "refreshReserve"}}
Renewed(L, i) == \E j \in 1..i : L[j].type = "refreshObligation"

(* It prepares, and then operates.                                         *)
Ordered(k, L) ==
  /\ L \in Seq(Instr) /\ Len(L) >= 1 /\ L[Len(L)] = Operation(k)
  /\ \A i \in 1..Len(L) - 1 : L[i] \in Steps

(* The transactions are the list cut after the elements s[2], s[3], ...    *)
Cut(txs, L, s) ==
  /\ s \in [1..Len(txs) + 1 -> 0..Len(L)]
  /\ s[1] = 0 /\ s[Len(txs) + 1] = Len(L)
  /\ \A n \in 1..Len(txs) :
       /\ s[n] < Len(L) /\ s[n] <= s[n + 1]
       /\ txs[n] = SubSeq(L, s[n] + 1, s[n + 1])

(* Every step works on the chain the request found, with the steps before  *)
(* it done ...                                                             *)
Sound(b, L) ==
  \A i \in 1..Len(L) - 1 :
    /\ L[i].type = "createAccount" => L[i].account \notin b.accounts \cup Created(L, i - 1)
    /\ L[i].type = "createObligation" => b.obligation = Missing /\ ~Opened(L, i - 1)
    /\ L[i].type = "initObligation" => Opened(L, i - 1)
    /\ L[i].type = "refreshObligation" =>
         /\ b.obligation # Missing /\ ~Opened(L, i - 1)
         /\ L[i].deposits = b.obligation.deposits /\ L[i].borrows = b.obligation.borrows
         /\ ToSet(L[i].deposits) \cup ToSet(L[i].borrows) \subseteq Refreshed(L, i - 1)

(* ... and together they do all that the operation may need.               *)
Covers(k, b, L) ==
  LET n == Len(L) - 1 IN
  /\ Parses(k) /\ k.reserve \in Refreshed(L, n)
  /\ LP(k.reserve) \in b.accounts \cup Created(L, n)
  /\ k.op = "deposit" =>
       /\ b.obligation # Missing \/ Opened(L, n)
       /\ k.reserve \notin Native => Liq(k.reserve) \in b.accounts
  /\ k.op # "deposit" =>
       /\ b.obligation # Missing /\ ~Opened(L, n) /\ Renewed(L, n)
       /\ ToSet(b.obligation.deposits) \cup ToSet(b.obligation.borrows) \subseteq Listed
       /\ k.reserve \notin Native => Liq(k.reserve) \in b.accounts \cup Created(L, n)

(* The chain a request found, after the first i instructions.              *)
Followed(b, L, i, c) ==
  /\ c.accounts = b.accounts \cup Created(L, i)
  /\ c.obligation = IF Opened(L, i) THEN NewObligation ELSE b.obligation
  /\ Refreshed(L, i) \subseteq c.fresh
  /\ Renewed(L, i) => c.current

LEMMA OneMoreInstruction ==
  ASSUME NEW L, NEW i \in Nat \ {0}
  PROVE  /\ Created(L, i) = IF L[i].type = "createAccount"
                              THEN Created(L, i - 1) \cup {L[i].account} ELSE Created(L, i - 1)
         /\ Opened(L, i) <=> Opened(L, i - 1) \/ L[i].type = "createObligation"
         /\ Refreshed(L, i) = IF L[i].type = "refreshReserve"
                                THEN Refreshed(L, i - 1) \cup {L[i].reserve} ELSE Refreshed(L, i - 1)
         /\ Renewed(L, i) <=> Renewed(L, i - 1) \/ L[i].type = "refreshObligation"
<1>1. 1..i = 1..i - 1 \cup {i}
  OBVIOUS
<1> DEFINE I == 1..i
           J == 1..i - 1
<1>2. I = J \cup {i}
  BY <1>1
<1> HIDE DEF I, J
<1>3. Created(L, i) = IF L[i].type = "createAccount"
                        THEN Created(L, i - 1) \cup {L[i].account} ELSE Created(L, i - 1)
  <2>1. /\ Created(L, i) = {L[j].account : j \in {j \in I : L[j].type = "createAccount"}}
        /\ Created(L, i - 1) = {L[j].account : j \in {j \in J : L[j].type = "createAccount"}}
    BY DEF Created, I, J
  <2>2. QED
    BY <1>2, <2>1
<1>4. Opened(L, i) <=> Opened(L, i - 1) \/ L[i].type = "createObligation"
  BY <1>1 DEF Opened
<1>5. Refreshed(L, i) = IF L[i].type = "refreshReserve"
                          THEN Refreshed(L, i - 1) \cup {L[i].reserve} ELSE Refreshed(L, i - 1)
  <2>1. /\ Refreshed(L, i) = {L[j].reserve : j \in {j \in I : L[j].type = "refreshReserve"}}
        /\ Refreshed(L, i - 1) = {L[j].reserve : j \in {j \in J : L[j].type = "refreshReserve"}}
    BY DEF Refreshed, I, J
  <2>2. QED
    BY <1>2, <2>1
<1>6. Renewed(L, i) <=> Renewed(L, i - 1) \/ L[i].type = "refreshObligation"
  BY <1>1 DEF Renewed
<1>7. QED
  BY <1>3, <1>4, <1>5, <1>6

(* So a sound step is accepted, and leaves the chain of one more.          *)
LEMMA StepFollows ==
  ASSUME NEW b \in Chain, NEW L, NEW i \in 1..Len(L) - 1, Sound(b, L), L[i] \in Steps,
         NEW c \in Chain, Followed(b, L, i - 1, c)
  PROVE  Accepts(c, L[i]) /\ Followed(b, L, i, Effect(c, L[i]))
<1> DEFINE x == L[i]
           d == Effect(c, x)
<1>1. i \in Nat \ {0} /\ x \in Steps /\ x.type \in StepTypes
  BY StepsAre
<1>2. Prepares(c, x, d)
  BY StepEffects
<1>3. Accepts(c, x)
  <2>1. CASE x.type = "createAccount"
    <3>1. x.account \notin c.accounts
      BY <2>1 DEF Followed, Sound
    <3>2. QED
      BY <2>1, <3>1 DEF Accepts
  <2>2. CASE x.type = "createObligation"
    <3>1. c.obligation = Missing
      BY <2>2 DEF Followed, Sound
    <3>2. QED
      BY <2>2, <3>1 DEF Accepts
  <2>3. CASE x.type = "initObligation"
    <3>1. c.obligation = NewObligation
      BY <2>3 DEF Followed, Sound
    <3>2. QED
      BY <2>3, <3>1 DEF Accepts
  <2>4. CASE x.type = "refreshReserve"
    BY <2>4 DEF Accepts
  <2>5. CASE x.type = "refreshObligation"
    <3>1. /\ c.obligation # Missing /\ c.obligation.deposits = x.deposits
          /\ c.obligation.borrows = x.borrows
          /\ ToSet(x.deposits) \cup ToSet(x.borrows) \subseteq c.fresh
      BY <2>5 DEF Followed, Sound
    <3> HIDE DEF x
    <3>2. QED
      BY <2>5, <3>1 DEF Accepts
  <2>6. QED
    BY <1>1, <2>1, <2>2, <2>3, <2>4, <2>5 DEF StepTypes
<1> HIDE DEF d
<1>4. /\ Created(L, i) = IF x.type = "createAccount"
                           THEN Created(L, i - 1) \cup {x.account} ELSE Created(L, i - 1)
      /\ Opened(L, i) <=> Opened(L, i - 1) \/ x.type = "createObligation"
      /\ Refreshed(L, i) = IF x.type = "refreshReserve"
                             THEN Refreshed(L, i - 1) \cup {x.reserve} ELSE Refreshed(L, i - 1)
      /\ Renewed(L, i) <=> Renewed(L, i - 1) \/ x.type = "refreshObligation"
  BY <1>1, OneMoreInstruction
<1> HIDE DEF x
<1>5. d.accounts = b.accounts \cup Created(L, i)
  BY <1>2, <1>4 DEF Prepares, Followed
<1>6. d.obligation = IF Opened(L, i) THEN NewObligation ELSE b.obligation
  BY <1>2, <1>4 DEF Prepares, Followed
<1>7. Refreshed(L, i) \subseteq d.fresh
  BY <1>2, <1>4 DEF Prepares, Followed
<1>8. Renewed(L, i) => d.current
  BY <1>2, <1>4 DEF Prepares, Followed
<1>9. Followed(b, L, i, d)
  BY <1>5, <1>6, <1>7, <1>8 DEF Followed
<1>10. QED
  BY <1>3, <1>9 DEF x, d

LEMMA AccountsDiffer ==
  ASSUME NEW r \in Reserves
  PROVE  /\ LP(r) \in Accounts
         /\ Liq(r) \in Accounts <=> r \notin Native
BY DEF LP, Liq, Accounts

(* And then the operation goes through exactly when the wallet, as the     *)
(* request found it, could ask for it.                                     *)
LEMMA OperationFollows ==
  ASSUME NEW b \in Chain, NEW k \in Kind, NEW L, Covers(k, b, L),
         NEW c \in Chain, Followed(b, L, Len(L) - 1, c)
  PROVE  Accepts(c, Operation(k)) <=> Serviceable(k, b)
<1> DEFINE n == Len(L) - 1
           r == k.reserve
           i == Operation(k)
           o == c.obligation
<1>1. /\ i.type = k.op /\ i.reserve = r /\ i.all = k.all /\ k.op \in Ops /\ r \in Reserves
      /\ k.all \in BOOLEAN
  BY OperationIs
<1>2. r \in c.fresh /\ LP(r) \in c.accounts /\ Parses(k)
  BY DEF Covers, Followed
<1>3. c.accounts \subseteq Accounts /\ b.accounts \subseteq Accounts
  BY ChainParts
<1>4. r \in Native => Liq(r) \notin c.accounts /\ Liq(r) \notin b.accounts
  BY <1>1, <1>3, AccountsDiffer
<1> HIDE DEF i
<1>5. CASE k.op = "deposit"
  <2>1. o # Missing
    BY <1>5, Emptied DEF Covers, Followed
  <2>2. r \notin Native => Liq(r) \in c.accounts /\ Liq(r) \in b.accounts
    BY <1>5 DEF Covers, Followed
  <2>3. Accepts(c, i) <=> r \notin Native
    BY <1>1, <1>2, <1>4, <1>5, <2>1, <2>2 DEF Accepts
  <2>4. Serviceable(k, b) <=> r \notin Native
    BY <1>2, <1>4, <1>5, <2>2 DEF Serviceable
  <2>5. QED
    BY <2>3, <2>4 DEF i
<1>6. CASE k.op # "deposit"
  <2>1. /\ o = b.obligation /\ o # Missing /\ c.current
        /\ ToSet(o.deposits) \cup ToSet(o.borrows) \subseteq Listed
    BY <1>6 DEF Covers, Followed
  <2>2. r \notin Native => Liq(r) \in c.accounts
    BY <1>6 DEF Covers, Followed
  <2>3. CASE k.op = "withdraw"
    BY <1>1, <1>2, <1>4, <2>1, <2>2, <2>3 DEF Accepts, Serviceable, i
  <2>4. CASE k.op = "borrow"
    BY <1>1, <1>2, <1>4, <2>1, <2>2, <2>4 DEF Accepts, Serviceable, i
  <2>5. CASE k.op = "repay"
    BY <1>1, <1>2, <1>4, <2>1, <2>2, <2>5 DEF Accepts, Serviceable, i
  <2>6. QED
    BY <1>1, <1>6, <2>3, <2>4, <2>5 DEF Ops
<1>7. QED
  BY <1>5, <1>6

-----------------------------------------------------------------------------
(* Running a transaction whose first instruction comes after x.from        *)
(* others in the list: until the operation the wallet's positions stay as  *)
(* they are, and the operation changes the one it is about.  When the      *)
(* chain is what the list was made for, only the operation can fail.       *)
SamePositions(c, d) ==
  Position(d, "deposits") = Position(c, "deposits") /\ Position(d, "borrows") = Position(c, "borrows")

RunStep(x, st, i) ==
  IF st.ok /\ Accepts(st.chain, i) THEN [st EXCEPT !.chain = Effect(@, i)]
                                   ELSE [st EXCEPT !.ok = FALSE]

Ran(x, st, j) ==
  LET i == x.from + j IN
  /\ st \in [ok : BOOLEAN, chain : Chain]
  /\ i < Len(x.list) =>
       /\ st.ok => SamePositions(x.chain, st.chain)
       /\ x.fits => st.ok /\ Followed(x.begun, x.list, i, st.chain)
  /\ i = Len(x.list) =>
       /\ st.ok => \E c \in Chain : SamePositions(x.chain, c) /\ Operates(c, x.kind, st.chain)
       /\ x.fits => (st.ok <=> Serviceable(x.kind, x.begun))

Runs == INSTANCE FoldTheorems WITH Step <- RunStep, Keeps <- Ran

LEMMA StepKeepsPositions ==
  ASSUME NEW c \in Chain, NEW i \in Steps, Accepts(c, i)
  PROVE  SamePositions(c, Effect(c, i))
<1> DEFINE d == Effect(c, i)
<1>1. Prepares(c, i, d)
  BY StepEffects
<1> HIDE DEF d
<1>2. CASE i.type = "createObligation"
  <2>1. c.obligation = Missing /\ d.obligation = NewObligation
    BY <1>1, <1>2 DEF Accepts, Prepares
  <2>2. NewObligation.deposits = <<>> /\ NewObligation.borrows = <<>> /\ NewObligation # Missing
        /\ ToSet(<<>>) = {}
    BY Emptied DEF NewObligation
  <2>3. QED
    BY <2>1, <2>2 DEF SamePositions, Position, d
<1>3. CASE i.type # "createObligation"
  <2>1. d.obligation = c.obligation
    BY <1>1, <1>3 DEF Prepares
  <2>2. QED
    BY <2>1 DEF SamePositions, Position, d
<1>4. QED
  BY <1>2, <1>3

LEMMA RunIsFold ==
  ASSUME NEW tx, NEW c, NEW x
  PROVE  Run(tx, c) = Runs!Over(x, [ok |-> TRUE, chain |-> c], tx)
BY DEF Run, FoldLeft, MapThenFoldSet, Max, Runs!Over, Runs!Largest, RunStep

LEMMA RanStep ==
  ASSUME NEW x, NEW j \in Nat \ {0}, NEW st, Ran(x, st, j - 1),
         x.from \in Nat, x.begun \in Chain, x.kind \in Kind, Ordered(x.kind, x.list),
         x.from + j <= Len(x.list),
         x.fits => Sound(x.begun, x.list) /\ Covers(x.kind, x.begun, x.list)
  PROVE  Ran(x, RunStep(x, st, x.list[x.from + j]), j)
<1> DEFINE L == x.list
           n == x.from + j
           i == L[n]
           c == st.chain
           d == Effect(c, i)
           next == RunStep(x, st, i)
<1>1. /\ st \in [ok : BOOLEAN, chain : Chain] /\ c \in Chain
      /\ st.ok => SamePositions(x.chain, c)
      /\ x.fits => st.ok /\ Followed(x.begun, L, n - 1, c)
      /\ n - 1 < Len(L) /\ n \in 1..Len(L) /\ Len(L) \in Nat
  <2>1. x.from + (j - 1) = n - 1 /\ Len(L) \in Nat
    BY DEF Ordered
  <2>2. n - 1 < Len(L) /\ n \in 1..Len(L)
    BY <2>1
  <2>3. QED
    BY <2>1, <2>2 DEF Ran
<1>2. /\ st.ok /\ Accepts(c, i) => next = [st EXCEPT !.chain = d]
      /\ ~(st.ok /\ Accepts(c, i)) => next = [st EXCEPT !.ok = FALSE]
  BY DEF RunStep
<1> HIDE DEF next, L, n
<1>3. CASE n < Len(L)
  <2>1. i \in Steps /\ n \in 1..Len(L) - 1
    BY <1>1, <1>3 DEF Ordered, L
  <2> HIDE DEF i, c
  <2>2. d \in Chain
    BY <1>1, <2>1, StepEffects DEF Prepares
  <2>3. Accepts(c, i) => SamePositions(c, d)
    BY <1>1, <2>1, StepKeepsPositions
  <2>4. x.fits => Accepts(c, i) /\ Followed(x.begun, L, n, d)
    BY <1>1, <2>1, StepFollows DEF i, L
  <2> HIDE DEF d
  <2>5. /\ next \in [ok : BOOLEAN, chain : Chain]
        /\ next.ok <=> st.ok /\ Accepts(c, i)
        /\ next.ok => next.chain = d
    <3>1. CASE st.ok /\ Accepts(c, i)
      BY <1>1, <1>2, <2>2, <3>1
    <3>2. CASE ~(st.ok /\ Accepts(c, i))
      BY <1>1, <1>2, <3>2
    <3>3. QED
      BY <3>1, <3>2
  <2>6. next.ok => SamePositions(x.chain, next.chain)
    BY <1>1, <2>3, <2>5 DEF SamePositions
  <2>7. x.fits => next.ok /\ Followed(x.begun, L, n, next.chain)
    BY <1>1, <2>4, <2>5
  <2>8. Ran(x, next, j)
    BY <1>1, <1>3, <2>5, <2>6, <2>7 DEF Ran, L, n
  <2>9. QED
    BY <2>8 DEF next, i, n, L
<1>4. CASE n = Len(L)
  <2>1. i = Operation(x.kind)
    BY <1>4 DEF Ordered, L
  <2>2. Accepts(c, i) => Operates(c, x.kind, d)
    BY <1>1, <2>1, OperationEffects
  <2>3. x.fits => (Accepts(c, i) <=> Serviceable(x.kind, x.begun))
    <3>1. x.fits => Followed(x.begun, L, Len(L) - 1, c)
      BY <1>1, <1>4
    <3>2. QED
      BY <1>1, <2>1, <3>1, OperationFollows DEF L
  <2>4. Accepts(c, i) => d \in Chain
    BY <2>2 DEF Operates
  <2> HIDE DEF i, c, d
  <2>5. /\ next \in [ok : BOOLEAN, chain : Chain]
        /\ next.ok <=> st.ok /\ Accepts(c, i)
        /\ next.ok => next.chain = d
    <3>1. CASE st.ok /\ Accepts(c, i)
      BY <1>1, <1>2, <2>4, <3>1
    <3>2. CASE ~(st.ok /\ Accepts(c, i))
      BY <1>1, <1>2, <3>2
    <3>3. QED
      BY <3>1, <3>2
  <2>6. next.ok => \E e \in Chain : SamePositions(x.chain, e) /\ Operates(e, x.kind, next.chain)
    BY <1>1, <2>2, <2>5
  <2>7. x.fits => (next.ok <=> Serviceable(x.kind, x.begun))
    BY <1>1, <2>3, <2>5
  <2>8. Ran(x, next, j)
    BY <1>1, <1>4, <2>5, <2>6, <2>7 DEF Ran, L, n
  <2>9. QED
    BY <2>8 DEF next, i, n, L
<1>5. QED
  BY <1>1, <1>3, <1>4

(* The n-th transaction of an answer.                                      *)
LEMMA TransactionRan ==
  ASSUME NEW k \in Kind, NEW L, Ordered(k, L), NEW txs \in Seq(Seq(Instr)), NEW s, Cut(txs, L, s),
         NEW n \in 1..Len(txs), NEW b \in Chain, NEW c \in Chain, NEW fits \in BOOLEAN,
         fits => Sound(b, L) /\ Covers(k, b, L) /\ Followed(b, L, s[n], c)
  PROVE  LET run == Run(txs[n], c) IN
         /\ run \in [ok : BOOLEAN, chain : Chain]
         /\ s[n + 1] < Len(L) =>
              /\ run.ok => SamePositions(c, run.chain)
              /\ fits => run.ok /\ Followed(b, L, s[n + 1], run.chain)
         /\ s[n + 1] = Len(L) =>
              /\ run.ok => \E e \in Chain : SamePositions(c, e) /\ Operates(e, k, run.chain)
              /\ fits => (run.ok <=> Serviceable(k, b))
<1> DEFINE tx == txs[n]
           x == [chain |-> c, list |-> L, from |-> s[n], kind |-> k, begun |-> b, fits |-> fits]
           base == [ok |-> TRUE, chain |-> c]
<1>1. /\ x.chain = c /\ x.list = L /\ x.from = s[n] /\ x.kind = k /\ x.begun = b /\ x.fits = fits
      /\ base.ok = TRUE /\ base.chain = c /\ base \in [ok : BOOLEAN, chain : Chain]
  OBVIOUS
<1> HIDE DEF x, base
<1>2. /\ L \in Seq(Instr) /\ Len(L) \in Nat /\ s[n] \in Nat /\ s[n + 1] \in Nat
      /\ s[n] < Len(L) /\ s[n] <= s[n + 1] /\ s[n + 1] <= Len(L) /\ tx = SubSeq(L, s[n] + 1, s[n + 1])
  <2>1. L \in Seq(Instr) /\ Len(L) \in Nat
    BY DEF Ordered
  <2>2. n \in 1..Len(txs) + 1 /\ n + 1 \in 1..Len(txs) + 1
    OBVIOUS
  <2>3. s[n] \in 0..Len(L) /\ s[n + 1] \in 0..Len(L)
    BY <2>2 DEF Cut
  <2>4. QED
    BY <2>1, <2>3 DEF Cut
<1> HIDE DEF tx
<1>3. /\ DOMAIN tx = 1..Len(tx) /\ Len(tx) = s[n + 1] - s[n]
      /\ \A j \in 1..Len(tx) : tx[j] = L[s[n] + j]
  <2> DEFINE m == s[n]
             e == s[n + 1]
  <2>1. /\ L \in Seq(Instr) /\ m \in Nat /\ e \in Nat /\ m <= e /\ e <= Len(L)
        /\ tx = SubSeq(L, m + 1, e)
    BY <1>2
  <2> HIDE DEF m, e
  <2>2. \A j \in m + 1 .. e : L[j] \in Instr
    BY <2>1
  <2>3. /\ tx \in Seq(Instr)
        /\ Len(tx) = IF m + 1 <= e THEN e - (m + 1) + 1 ELSE 0
        /\ \A j \in 1 .. e - (m + 1) + 1 : tx[j] = L[m + 1 + j - 1]
    BY <2>1, <2>2, SubSeqProperties
  <2>4. Len(tx) = e - m
    BY <2>1, <2>3
  <2>5. ASSUME NEW j \in 1..Len(tx)
        PROVE  tx[j] = L[m + j]
    <3>1. j \in 1 .. e - (m + 1) + 1 /\ m + 1 + j - 1 = m + j
      BY <2>1, <2>4
    <3>2. QED
      BY <2>3, <3>1
  <2>6. QED
    BY <2>3, <2>4, <2>5 DEF m, e
<1>4. Ran(x, base, 0)
  <2>1. SamePositions(c, c)
    BY DEF SamePositions
  <2>2. QED
    BY <1>1, <1>2, <2>1 DEF Ran
<1>5. ASSUME NEW j \in 1..Len(tx), NEW st, Ran(x, st, j - 1)
      PROVE  Ran(x, RunStep(x, st, tx[j]), j)
  <2>1. /\ j \in Nat \ {0} /\ x.from + j <= Len(x.list) /\ tx[j] = x.list[x.from + j]
        /\ x.from \in Nat
    <3> DEFINE m == s[n]
               e == s[n + 1]
               l == Len(L)
    <3>1. m \in Nat /\ e \in Nat /\ l \in Nat /\ e <= l /\ Len(tx) = e - m /\ tx[j] = L[m + j]
      BY <1>2, <1>3
    <3>2. x.from = m /\ x.list = L
      BY <1>1
    <3> HIDE DEF m, e, l
    <3>3. j \in Nat \ {0} /\ m + j <= l /\ m \in Nat
      BY <3>1
    <3>4. QED
      BY <3>1, <3>2, <3>3 DEF l
  <2>2. QED
    BY <1>1, <1>5, <2>1, RanStep
<1>6. Ran(x, Run(tx, c), Len(tx))
  <2>1. Len(tx) \in Nat
    BY SMTT(30), <1>2, <1>3
  <2>2. Run(tx, c) = Runs!Over(x, base, tx)
    BY RunIsFold DEF base
  <2>3. QED
    BY <1>3, <1>4, <1>5, <2>1, <2>2, Runs!FoldKeeps
<1>7. x.from + Len(tx) = s[n + 1]
  BY <1>1, <1>2, <1>3
<1>8. QED
  BY <1>1, <1>6, <1>7 DEF Ran, tx

-----------------------------------------------------------------------------
(* The invariant.  A request r that found the chain b, now that the chain  *)
(* is c; d says whether it was disturbed.                                  *)
Insts == [instructions : Seq(Steps), signers : {<<>>}]

ReqType == [pc : PCs, kind : Kind, lp : Insts, liq : Insts,
            obligationDeposits : Listings, obligationBorrows : Listings,
            txs : Seq(Seq(Instr)), next : Nat]

Typed ==
  /\ chain \in Chain
  /\ Sent \subseteq Requests /\ req \in [Sent -> ReqType]
  /\ begun \in [Sent -> Chain] /\ disturbed \in [Sent -> BOOLEAN]

Reading == {"source", "lp", "obligation", "parse", "liq"}

Creation(a, b) ==
  IF a \in Accounts \ b.accounts THEN Instructions(<<CreateAccount(a)>>) ELSE NoInstructions

(* What an undisturbed handler knows of the wallet, read by read.          *)
Knows(r, b, c) ==
  LET k == r.kind IN
  /\ c.accounts = b.accounts /\ c.obligation = b.obligation
  /\ Parses(k)
  /\ r.pc = "source" => k.op = "deposit"
  /\ r.pc \in {"parse", "liq"} => k.op # "deposit"
  /\ k.op = "deposit" /\ r.pc # "source" => k.reserve \in Native \/ Liq(k.reserve) \in b.accounts
  /\ k.op # "deposit" /\ r.pc \in {"lp", "liq"} =>
       /\ b.obligation # Missing
       /\ r.obligationDeposits = b.obligation.deposits
       /\ r.obligationBorrows = b.obligation.borrows
  /\ r.pc = "liq" => r.lp = Creation(LP(k.reserve), b)
  /\ k.op = "deposit" /\ r.pc = "obligation" => r.lp = Creation(LP(k.reserve), b)

(* What its answer is made of, and how far the chain has followed.  The    *)
(* slot may change as long as only token accounts were created.            *)
Planned(r, b, c, L, s) ==
  /\ Sound(b, L) /\ Covers(r.kind, b, L) /\ Followed(b, L, s[r.next], c)
  /\ Len(r.txs) = 1 \/ ( /\ r.kind.op # "deposit"
                         /\ \A j \in 1..s[2] : L[j].type = "createAccount" )

Submitting(r, b, d, c) ==
  /\ r.next \in 1..Len(r.txs)
  /\ \E L, s : /\ Ordered(r.kind, L) /\ Cut(r.txs, L, s)
               /\ ~d => Planned(r, b, c, L, s)

Outcome(r, b) ==
  /\ r.pc = "executed" => Serviceable(r.kind, b)
  /\ r.pc \in {"aborted", "error500", "unanswered"} => ~Serviceable(r.kind, b)

Answered(r, b, d, c) ==
  /\ r.pc # "submitting" => r.txs = <<>> /\ r.next = 1
  /\ r.pc = "submitting" => Submitting(r, b, d, c)
  /\ ~d => /\ r.pc \in Reading => Knows(r, b, c)
           /\ Outcome(r, b)

SolendInv == Typed /\ \A q \in Sent : Answered(req[q], begun[q], disturbed[q], chain)

-----------------------------------------------------------------------------
(* What the chain may do under a request.                                  *)
LEMMA DisturbedAnswered ==
  ASSUME NEW r, NEW b, NEW d, NEW c, NEW e, Answered(r, b, d, c)
  PROVE  Answered(r, b, TRUE, e)
BY DEF Answered, Submitting

(* Only what runs or is answered depends on the chain.                     *)
LEMMA SettledAnswered ==
  ASSUME NEW r, NEW b, NEW d, NEW c, NEW e, NEW a, Answered(r, b, d, c),
         r.pc \notin Reading, r.pc # "submitting",
         b = a \/ r.pc = "idle"
  PROVE  Answered(r, a, d, e)
BY DEF Answered, Reading, Outcome

Touched(c, e) ==
  /\ e.accounts = c.accounts /\ e.obligation = c.obligation
  /\ c.fresh \subseteq e.fresh /\ (c.current => e.current)

LEMMA UntouchedAnswered ==
  ASSUME NEW r, NEW b, NEW d, NEW c, NEW e, Answered(r, b, d, c), Touched(c, e)
  PROVE  Answered(r, b, d, e)
<1>1. Knows(r, b, c) => Knows(r, b, e)
  BY DEF Knows, Touched
<1>2. \A L, s : Planned(r, b, c, L, s) => Planned(r, b, e, L, s)
  BY DEF Planned, Followed, Touched
<1>3. Submitting(r, b, d, c) => Submitting(r, b, d, e)
  BY <1>2 DEF Submitting
<1>4. QED
  BY <1>1, <1>3 DEF Answered

(* A new slot between the answer and its first refresh does not matter.    *)
NextSlotOf(c) == [c EXCEPT !.fresh = {}, !.current = FALSE]

LEMMA NextSlotAnswered ==
  ASSUME NEW r \in ReqType, NEW b \in Chain, NEW d \in BOOLEAN, NEW c \in Chain,
         Answered(r, b, d, c)
  PROVE  Answered(r, b, d \/ (r.pc = "submitting" /\ r.kind.op # "deposit" /\ r.next > 2), NextSlotOf(c))
<1> DEFINE e == NextSlotOf(c)
           g == d \/ (r.pc = "submitting" /\ r.kind.op # "deposit" /\ r.next > 2)
<1>1. e.accounts = c.accounts /\ e.obligation = c.obligation
  BY DEF NextSlotOf, Chain
<1> HIDE DEF e
<1>2. CASE g
  BY <1>2, DisturbedAnswered
<1>3. CASE ~g
  <2>1. ~d /\ (r.pc = "submitting" => r.kind.op = "deposit" \/ ~(r.next > 2))
    BY <1>3
  <2>2. Knows(r, b, c) => Knows(r, b, e)
    BY <1>1 DEF Knows
  <2>3. r.pc = "submitting" => Submitting(r, b, d, e)
    <3> SUFFICES ASSUME r.pc = "submitting"
                 PROVE  Submitting(r, b, d, e)
      OBVIOUS
    <3>1. Submitting(r, b, d, c)
      BY DEF Answered
    <3>2. PICK L, s : Ordered(r.kind, L) /\ Cut(r.txs, L, s) /\ Planned(r, b, c, L, s)
      BY <2>1, <3>1 DEF Submitting
    <3>3. r.next \in 1..Len(r.txs) /\ Len(r.txs) \in Nat
      BY <3>1 DEF Submitting, ReqType
    <3>4. s[1] = 0
      BY <3>2 DEF Cut
    <3>5. r.next = 1 \/ r.next = 2
      <4>1. ~(r.next > 2)
        <5>1. CASE r.kind.op = "deposit"
          <6>1. Len(r.txs) = 1
            BY <3>2, <5>1 DEF Planned
          <6>2. QED
            BY <3>3, <6>1
        <5>2. CASE r.kind.op # "deposit"
          BY <2>1, <5>2
        <5>3. QED
          BY <5>1, <5>2
      <4>2. QED
        BY <3>3, <4>1
    <3>6. \A j \in 1..s[r.next] : L[j].type = "createAccount"
      <4>1. CASE r.next = 1
        BY <3>4, <4>1
      <4>2. CASE r.next = 2
        <5>1. Len(r.txs) # 1
          <6> DEFINE n == Len(r.txs)
          <6>1. 2 \in 1..n /\ n \in Nat
            BY <3>3, <4>2
          <6> HIDE DEF n
          <6>2. n # 1
            BY <6>1
          <6>3. QED
            BY <6>2 DEF n
        <5>2. QED
          BY <3>2, <4>2, <5>1 DEF Planned
      <4>3. QED
        BY <3>5, <4>1, <4>2
    <3>7. Refreshed(L, s[r.next]) = {} /\ ~Renewed(L, s[r.next])
      BY <3>6 DEF Refreshed, Renewed
    <3>8. Planned(r, b, e, L, s)
      BY <1>1, <3>2, <3>7 DEF Planned, Followed
    <3>9. QED
      BY <3>1, <3>2, <3>8 DEF Submitting
  <2>4. Answered(r, b, FALSE, e)
    BY <2>1, <2>2, <2>3 DEF Answered
  <2>5. g = FALSE
    BY <1>3
  <2>6. QED
    BY <2>4, <2>5 DEF e
<1>4. QED
  BY <1>2, <1>3 DEF e

-----------------------------------------------------------------------------
(* The records of the requests.                                            *)
LEMMA NothingIs ==
  /\ NoInstructions \in Insts /\ NoInstructions.instructions = <<>>
  /\ \A s \in Seq(Steps) : Instructions(s) \in Insts /\ Instructions(s).instructions = s
BY DEF Insts, NoInstructions, Instructions

LEMMA IdleIs ==
  ASSUME NEW k \in Kind
  PROVE  /\ Idle(k) \in ReqType /\ Idle(k).pc = "idle" /\ Idle(k).kind = k
         /\ Idle(k).txs = <<>> /\ Idle(k).next = 1
BY NothingIs, Emptied DEF Idle, ReqType, PCs

LEMMA FinishedIs ==
  ASSUME NEW k \in Kind, NEW end \in PCs
  PROVE  LET r == [Idle(k) EXCEPT !.pc = end] IN
         /\ r \in ReqType /\ r.pc = end /\ r.kind = k /\ r.txs = <<>> /\ r.next = 1
<1> DEFINE i == Idle(k)
<1>1. i \in ReqType /\ i.kind = k /\ i.txs = <<>> /\ i.next = 1
  BY IdleIs
<1> HIDE DEF i
<1>2. QED
  BY <1>1 DEF ReqType, i

LEMMA AnswerIs ==
  ASSUME NEW k \in Kind, NEW txs \in Seq(Seq(Instr))
  PROVE  LET r == [Idle(k) EXCEPT !.pc = "submitting", !.txs = txs] IN
         /\ r \in ReqType /\ r.pc = "submitting" /\ r.kind = k /\ r.txs = txs /\ r.next = 1
<1> DEFINE i == Idle(k)
           T == Seq(Seq(Instr))
<1>1. i \in ReqType /\ i.kind = k /\ i.next = 1
  BY IdleIs
<1>2. i \in [pc : PCs, kind : Kind, lp : Insts, liq : Insts, obligationDeposits : Listings,
             obligationBorrows : Listings, txs : T, next : Nat] /\ txs \in T /\ "submitting" \in PCs
  BY <1>1 DEF ReqType, PCs
<1> DEFINE r == [i EXCEPT !.pc = "submitting", !.txs = txs]
<1> HIDE DEF i, T
<1>3. r \in [pc : PCs, kind : Kind, lp : Insts, liq : Insts, obligationDeposits : Listings,
             obligationBorrows : Listings, txs : T, next : Nat]
      /\ r.pc = "submitting" /\ r.kind = k /\ r.txs = txs /\ r.next = 1
  BY <1>1, <1>2
<1>4. QED
  BY <1>3 DEF ReqType, i, T

LEMMA RequestParts ==
  ASSUME NEW r \in ReqType
  PROVE  /\ r.pc \in PCs /\ r.kind \in Kind /\ r.lp \in Insts /\ r.liq \in Insts
         /\ r.obligationDeposits \in Listings /\ r.obligationBorrows \in Listings
         /\ r.txs \in Seq(Seq(Instr)) /\ r.next \in Nat
BY DEF ReqType

(* One request moves on, and each of the others is answered as it was.     *)
LEMMA OneMoves ==
  ASSUME SolendInv, NEW q \in Sent, NEW r \in ReqType, req' = [req EXCEPT ![q] = r],
         chain' \in Chain, begun' \in [Sent -> Chain], disturbed' \in [Sent -> BOOLEAN],
         Answered(r, begun'[q], disturbed'[q], chain'),
         \A p \in Sent \ {q} : Answered(req[p], begun'[p], disturbed'[p], chain')
  PROVE  SolendInv'
<1>1. req \in [Sent -> ReqType] /\ Sent \subseteq Requests
  BY DEF SolendInv, Typed
<1>2. req' \in [Sent -> ReqType] /\ Sent' = Sent /\ DOMAIN req' = Sent
  BY <1>1 DEF Sent
<1>3. req'[q] = r /\ \A p \in Sent \ {q} : req'[p] = req[p]
  BY <1>1
<1>4. Typed'
  BY <1>1, <1>2 DEF Typed
<1>5. ASSUME NEW p \in Sent
      PROVE  Answered(req'[p], begun'[p], disturbed'[p], chain')
  <2>1. CASE p = q
    BY <1>3, <2>1
  <2>2. CASE p # q
    BY <1>3, <2>2
  <2>3. QED
    BY <2>1, <2>2
<1>6. QED
  BY <1>2, <1>4, <1>5 DEF SolendInv

(* A step of its handler leaves the chain and the other requests alone.    *)
LEMMA HandlerMoves ==
  ASSUME SolendInv, NEW q \in Sent, NEW r \in ReqType, req' = [req EXCEPT ![q] = r],
         chain' = chain, NEW d \in BOOLEAN, disturbed' = [disturbed EXCEPT ![q] = d],
         NEW b \in Chain, begun' = [begun EXCEPT ![q] = b],
         Answered(r, b, d, chain)
  PROVE  SolendInv'
<1>1. /\ chain \in Chain /\ begun \in [Sent -> Chain] /\ disturbed \in [Sent -> BOOLEAN]
      /\ \A p \in Sent : Answered(req[p], begun[p], disturbed[p], chain)
  BY DEF SolendInv, Typed
<1>2. /\ begun' \in [Sent -> Chain] /\ begun'[q] = b
      /\ disturbed' \in [Sent -> BOOLEAN] /\ disturbed'[q] = d
      /\ \A p \in Sent \ {q} : begun'[p] = begun[p] /\ disturbed'[p] = disturbed[p]
  BY <1>1
<1>3. \A p \in Sent \ {q} : Answered(req[p], begun'[p], disturbed'[p], chain')
  BY <1>1, <1>2
<1>4. QED
  BY <1>1, <1>2, <1>3, OneMoves

LEMMA HandlerReads ==
  ASSUME SolendInv, NEW q \in Sent, NEW r \in ReqType, req' = [req EXCEPT ![q] = r],
         chain' = chain, UNCHANGED begun, NEW d \in BOOLEAN,
         disturbed' = [disturbed EXCEPT ![q] = d],
         Answered(r, begun[q], d, chain)
  PROVE  SolendInv'
<1>1. /\ chain \in Chain /\ begun \in [Sent -> Chain] /\ disturbed \in [Sent -> BOOLEAN]
      /\ \A p \in Sent : Answered(req[p], begun[p], disturbed[p], chain)
  BY DEF SolendInv, Typed
<1>2. /\ disturbed' \in [Sent -> BOOLEAN] /\ disturbed'[q] = d
      /\ \A p \in Sent \ {q} : disturbed'[p] = disturbed[p]
  BY <1>1
<1>3. \A p \in Sent \ {q} : Answered(req[p], begun'[p], disturbed'[p], chain')
  BY <1>1, <1>2
<1>4. QED
  BY <1>1, <1>2, <1>3, OneMoves

LEMMA RequestInv ==
  ASSUME SolendInv, NEW q \in Sent
  PROVE  /\ req[q] \in ReqType /\ begun[q] \in Chain /\ disturbed[q] \in BOOLEAN
         /\ chain \in Chain /\ Answered(req[q], begun[q], disturbed[q], chain)
BY DEF SolendInv, Typed

LEMMA NothingElse ==
  ASSUME SolendInv, NEW q \in Sent, UNCHANGED disturbed
  PROVE  disturbed' = [disturbed EXCEPT ![q] = disturbed[q]]
BY DEF SolendInv, Typed

LEMMA InitInv == Init => SolendInv
<1> SUFFICES ASSUME Init
             PROVE  SolendInv
  OBVIOUS
<1>1. PICK s \in Situations :
        /\ chain = [accounts |-> s.accounts, obligation |-> s.obligation,
                    fresh |-> {}, current |-> FALSE]
        /\ req = [q \in DOMAIN s.kinds |-> Idle(s.kinds[q])]
        /\ begun = [q \in DOMAIN s.kinds |-> chain]
        /\ disturbed = [q \in DOMAIN s.kinds |-> FALSE]
  BY DEF Init
<1>2. /\ s.accounts \subseteq Accounts /\ s.obligation \in Obligation \cup {Missing}
      /\ Sent = DOMAIN s.kinds /\ Sent \subseteq Requests
      /\ \A q \in Sent : s.kinds[q] \in Kind
  BY <1>1, SolendAssumption DEF InitialObligations, Sent, Range
<1>3. chain \in Chain
  BY <1>1, <1>2 DEF Chain
<1>4. \A q \in Sent : req[q] = Idle(s.kinds[q]) /\ req[q] \in ReqType /\ req[q].pc = "idle"
                      /\ req[q].txs = <<>> /\ req[q].next = 1
  BY <1>1, <1>2, IdleIs
<1>5. Typed
  BY <1>1, <1>2, <1>3, <1>4 DEF Typed
<1>6. \A q \in Sent : Answered(req[q], begun[q], disturbed[q], chain)
  BY <1>4 DEF Answered, Reading, Outcome
<1>7. QED
  BY <1>5, <1>6 DEF SolendInv

-----------------------------------------------------------------------------
(* The handler.                                                            *)
(* It ends without an answer.                                              *)
LEMMA Ends ==
  ASSUME SolendInv, NEW q \in Sent, NEW end \in {"error500", "aborted", "unanswered", "executed"},
         Finish(q, end), chain' = chain, UNCHANGED begun,
         NEW d \in BOOLEAN, disturbed' = [disturbed EXCEPT ![q] = d],
         ~d => (end = "executed" <=> Serviceable(req[q].kind, begun[q]))
  PROVE  SolendInv'
<1> DEFINE r == [Idle(req[q].kind) EXCEPT !.pc = end]
<1>1. req[q] \in ReqType /\ begun[q] \in Chain /\ req[q].kind \in Kind
  BY RequestInv, RequestParts
<1>2. r \in ReqType /\ r.pc = end /\ r.kind = req[q].kind /\ r.txs = <<>> /\ r.next = 1
  <2>1. end \in PCs
    BY DEF PCs
  <2>2. QED
    BY <1>1, <2>1, FinishedIs
<1>3. req' = [req EXCEPT ![q] = r]
  BY DEF Finish
<1> HIDE DEF r
<1>4. Answered(r, begun[q], d, chain)
  BY <1>2 DEF Answered, Reading, Outcome
<1>5. QED
  BY <1>2, <1>3, <1>4, HandlerReads

LEMMA BeginKeeps ==
  ASSUME SolendInv, NEW q \in Sent, Begin(q)
  PROVE  SolendInv'
<1> DEFINE r == req[q]
           next == IF IsDeposit(q) THEN "source" ELSE "obligation"
           s == [r EXCEPT !.pc = next]
<1>1. /\ r \in ReqType /\ begun[q] \in Chain /\ disturbed[q] \in BOOLEAN /\ chain \in Chain
      /\ Answered(r, begun[q], disturbed[q], chain) /\ r.pc = "idle" /\ Parses(r.kind)
  BY RequestInv DEF Begin
<1>2. req' = [req EXCEPT ![q] = s] /\ begun' = [begun EXCEPT ![q] = chain]
      /\ chain' = chain /\ UNCHANGED disturbed
  BY DEF Begin
<1>3. /\ next \in PCs /\ next \in Reading /\ next # "submitting"
      /\ next = IF r.kind.op = "deposit" THEN "source" ELSE "obligation"
  BY DEF PCs, Reading, IsDeposit
<1> HIDE DEF r, next
<1>4. s \in ReqType /\ s.pc = next /\ s.kind = r.kind /\ s.txs = r.txs /\ s.next = r.next
  BY <1>1, <1>3 DEF ReqType
<1> HIDE DEF s
<1>5. Knows(s, chain, chain)
  BY <1>1, <1>3, <1>4 DEF Knows
<1>6. Answered(s, chain, disturbed[q], chain)
  BY <1>1, <1>3, <1>4, <1>5 DEF Answered, Outcome, Reading
<1>7. disturbed' = [disturbed EXCEPT ![q] = disturbed[q]]
  BY <1>2, NothingElse
<1>8. QED
  BY <1>1, <1>2, <1>4, <1>6, <1>7, HandlerMoves

LEMMA ReadSourceKeeps ==
  ASSUME SolendInv, NEW q \in Sent, ReadSource(q)
  PROVE  SolendInv'
<1> DEFINE r == req[q]
           b == begun[q]
           v == r.kind.reserve
           s == [r EXCEPT !.pc = "lp"]
<1>1. /\ r \in ReqType /\ b \in Chain /\ disturbed[q] \in BOOLEAN /\ chain \in Chain
      /\ Answered(r, b, disturbed[q], chain) /\ r.pc = "source"
  BY RequestInv DEF ReadSource
<1>2. /\ chain' = chain /\ UNCHANGED begun
      /\ disturbed' = [disturbed EXCEPT ![q] = disturbed[q]]
  BY NothingElse DEF ReadSource
<1>3. ~disturbed[q] => Knows(r, b, chain)
  BY <1>1 DEF Answered, Reading
<1>4. CASE v \in Native \/ Liq(v) \in chain.accounts
  <2>1. req' = [req EXCEPT ![q] = s]
    BY <1>4 DEF ReadSource
  <2> HIDE DEF r, b, v
  <2>2. s \in ReqType /\ s.pc = "lp" /\ s.kind = r.kind /\ s.txs = r.txs /\ s.next = r.next
    BY <1>1 DEF ReqType, PCs
  <2> HIDE DEF s
  <2>3. ~disturbed[q] => Knows(s, b, chain)
    BY <1>1, <1>3, <1>4, <2>2 DEF Knows, v
  <2>4. Answered(s, b, disturbed[q], chain)
    BY <1>1, <2>2, <2>3 DEF Answered, Outcome
  <2>5. QED
    BY <1>1, <1>2, <2>1, <2>2, <2>4, HandlerReads DEF b
<1>5. CASE ~(v \in Native \/ Liq(v) \in chain.accounts)
  <2>1. Finish(q, "error500")
    BY <1>5 DEF ReadSource
  <2>2. ~disturbed[q] => ~Serviceable(r.kind, b)
    BY <1>1, <1>3, <1>5 DEF Knows, Serviceable
  <2>3. QED
    BY <1>1, <1>2, <2>1, <2>2, Ends
<1>6. QED
  BY <1>4, <1>5

LEMMA ReadRejectedKeeps ==
  ASSUME SolendInv, NEW q \in Sent, ReadRejected(q)
  PROVE  SolendInv'
<1>1. /\ Finish(q, "error500") /\ chain' = chain /\ UNCHANGED begun
      /\ disturbed' = [disturbed EXCEPT ![q] = TRUE]
  <2>1. disturbed' = [disturbed EXCEPT ![q] = @ \/ TRUE]
    BY DEF ReadRejected, Disturb
  <2>2. QED
    BY <2>1 DEF ReadRejected
<1>2. QED
  BY <1>1, Ends

LEMMA ParseObligationKeeps ==
  ASSUME SolendInv, NEW q \in Sent, ParseObligation(q)
  PROVE  SolendInv'
<1> DEFINE r == req[q]
           b == begun[q]
           o == chain.obligation
           s == [r EXCEPT !.obligationDeposits = o.deposits, !.obligationBorrows = o.borrows,
                          !.pc = "lp"]
<1>1. /\ r \in ReqType /\ b \in Chain /\ disturbed[q] \in BOOLEAN /\ chain \in Chain
      /\ Answered(r, b, disturbed[q], chain) /\ r.pc = "parse" /\ r.kind \in Kind
  BY RequestInv, RequestParts DEF ParseObligation
<1>2. /\ chain' = chain /\ UNCHANGED begun
      /\ disturbed' = [disturbed EXCEPT ![q] = disturbed[q]]
  BY NothingElse DEF ParseObligation
<1>3. ~disturbed[q] => Knows(r, b, chain)
  BY <1>1 DEF Answered, Reading
<1>4. CASE o # Missing
  <2>1. req' = [req EXCEPT ![q] = s]
    BY <1>4 DEF ParseObligation
  <2>2. o.deposits \in Listings /\ o.borrows \in Listings
    BY <1>1, <1>4, ChainParts
  <2> HIDE DEF r, b
  <2>3. /\ s \in ReqType /\ s.pc = "lp" /\ s.kind = r.kind /\ s.txs = r.txs /\ s.next = r.next
        /\ s.obligationDeposits = o.deposits /\ s.obligationBorrows = o.borrows
    <3> HIDE DEF o
    <3>1. QED
      BY <1>1, <2>2 DEF ReqType, PCs
  <2> HIDE DEF s
  <2>4. ~disturbed[q] => Knows(s, b, chain)
    BY <1>1, <1>3, <1>4, <2>3 DEF Knows
  <2>5. Answered(s, b, disturbed[q], chain)
    BY <1>1, <2>3, <2>4 DEF Answered, Outcome
  <2>6. QED
    BY <1>1, <1>2, <2>1, <2>3, <2>5, HandlerReads DEF b
<1>5. CASE o = Missing
  <2>1. Finish(q, "error500")
    BY <1>5 DEF ParseObligation
  <2>2. ~disturbed[q] => ~Serviceable(r.kind, b)
    BY <1>1, <1>3, <1>5 DEF Knows, Serviceable
  <2>3. QED
    BY <1>1, <1>2, <2>1, <2>2, Ends
<1>6. QED
  BY <1>4, <1>5

(* A look-up that is not disturbed finds out whether the account exists.   *)
LEMMA LookedUp ==
  ASSUME NEW a, NEW answers \in BOOLEAN, NEW b,
         chain.accounts = b.accounts, chain.accounts \subseteq Accounts
  PROVE  ~(~answers /\ a \in chain.accounts) => LookupAccount(a, answers) = Creation(a, b)
BY DEF LookupAccount, Creation

LEMMA LookupIs ==
  ASSUME NEW a, NEW answers \in BOOLEAN
  PROVE  LookupAccount(a, answers) \in Insts
<1>1. CASE a \in Accounts
  <2>1. <<CreateAccount(a)>> \in Seq(Steps)
    BY <1>1, StepsMade
  <2>2. QED
    BY <2>1, NothingIs DEF LookupAccount
<1>2. CASE a \notin Accounts
  BY <1>2, NothingIs DEF LookupAccount
<1>3. QED
  BY <1>1, <1>2

LEMMA LookupLPKeeps ==
  ASSUME SolendInv, NEW q \in Sent, LookupLP(q)
  PROVE  SolendInv'
<1> DEFINE r == req[q]
           b == begun[q]
           v == r.kind.reserve
           next == IF IsDeposit(q) THEN "obligation" ELSE "liq"
<1>1. /\ r \in ReqType /\ b \in Chain /\ disturbed[q] \in BOOLEAN /\ chain \in Chain
      /\ Answered(r, b, disturbed[q], chain) /\ r.pc = "lp" /\ r.kind \in Kind
      /\ chain.accounts \subseteq Accounts
  BY RequestInv, RequestParts, ChainParts DEF LookupLP
<1>2. chain' = chain /\ UNCHANGED begun
  BY DEF LookupLP
<1>3. ~disturbed[q] => Knows(r, b, chain)
  BY <1>1 DEF Answered, Reading
<1>4. PICK answers \in BOOLEAN :
        /\ req' = [req EXCEPT ![q].lp = LookupAccount(LP(v), answers), ![q].pc = next]
        /\ Disturb(q, ~answers /\ LP(v) \in chain.accounts)
  BY DEF LookupLP
<1> DEFINE x == LookupAccount(LP(v), answers)
           d == disturbed[q] \/ (~answers /\ LP(v) \in chain.accounts)
           s == [r EXCEPT !.lp = x, !.pc = next]
<1>5. req' = [req EXCEPT ![q] = s] /\ disturbed' = [disturbed EXCEPT ![q] = d] /\ d \in BOOLEAN
  BY <1>4 DEF Disturb
<1>6. x \in Insts
  BY LookupIs
<1>7. next \in PCs /\ next # "submitting" /\ next = IF r.kind.op = "deposit" THEN "obligation" ELSE "liq"
  BY DEF PCs, IsDeposit
<1>8. ~d => ~disturbed[q] /\ Knows(r, b, chain) /\ x = Creation(LP(v), b)
  <2>1. Knows(r, b, chain) => chain.accounts = b.accounts
    BY DEF Knows
  <2>2. ~d => ~disturbed[q] /\ ~(~answers /\ LP(v) \in chain.accounts)
    OBVIOUS
  <2>3. QED
    BY <1>1, <1>3, <2>1, <2>2, LookedUp
<1> HIDE DEF r, b, x, d, next
<1>9. /\ s \in ReqType /\ s.pc = next /\ s.kind = r.kind /\ s.txs = r.txs /\ s.next = r.next
      /\ s.lp = x /\ s.obligationDeposits = r.obligationDeposits
      /\ s.obligationBorrows = r.obligationBorrows
  BY <1>1, <1>6, <1>7 DEF ReqType
<1> HIDE DEF s
<1>10. ~d => Knows(s, b, chain)
  BY <1>1, <1>7, <1>8, <1>9 DEF Knows
<1>11. Answered(s, b, d, chain)
  BY <1>1, <1>7, <1>9, <1>10 DEF Answered, Outcome
<1>12. QED
  BY <1>1, <1>2, <1>5, <1>9, <1>11, HandlerReads DEF b

(* A mint without a listing ends the process, and every handler with it.   *)
LEMMA ParseThrowsKeeps ==
  ASSUME SolendInv, NEW q \in Sent, ParseThrows(q)
  PROVE  SolendInv'
<1> DEFINE Ended(p) == [Idle(req[p].kind) EXCEPT !.pc = "unanswered"]
<1>1. /\ chain' = chain /\ chain \in Chain /\ Sent \subseteq Requests
      /\ begun \in [Sent -> Chain] /\ disturbed \in [Sent -> BOOLEAN]
      /\ begun' = [begun EXCEPT ![q] = chain]
      /\ disturbed' = [p \in Sent |-> disturbed[p] \/ Handling(p)]
      /\ req' = [p \in Sent |-> IF p = q \/ Handling(p) THEN Ended(p) ELSE req[p]]
      /\ req[q].pc = "idle" /\ ~Parses(req[q].kind)
  BY DEF ParseThrows, SolendInv, Typed
<1>2. ASSUME NEW p \in Sent
      PROVE  /\ Ended(p) \in ReqType /\ Ended(p).pc = "unanswered" /\ Ended(p).kind = req[p].kind
             /\ Ended(p).txs = <<>> /\ Ended(p).next = 1
             /\ req[p] \in ReqType /\ Answered(req[p], begun[p], disturbed[p], chain)
             /\ disturbed[p] \in BOOLEAN /\ Handling(p) \in BOOLEAN
  <2>1. "unanswered" \in PCs
    BY DEF PCs
  <2>2. req[p] \in ReqType /\ req[p].kind \in Kind
    BY RequestInv, RequestParts
  <2>3. QED
    BY <2>1, <2>2, FinishedIs, RequestInv DEF Handling
<1> HIDE DEF Ended
<1>3. /\ Sent' = Sent /\ req' \in [Sent -> ReqType] /\ begun' \in [Sent -> Chain]
      /\ disturbed' \in [Sent -> BOOLEAN]
  BY <1>1, <1>2 DEF Sent
<1>4. Typed'
  BY <1>1, <1>3 DEF Typed
<1>5. ASSUME NEW p \in Sent
      PROVE  Answered(req'[p], begun'[p], disturbed'[p], chain')
  <2>1. CASE p = q
    <3>1. req'[p] = Ended(p) /\ begun'[p] = chain
      BY <1>1, <2>1
    <3>2. ~Serviceable(req[p].kind, chain)
      BY <1>1, <2>1 DEF Serviceable
    <3>3. Answered(Ended(p), chain, disturbed'[p], chain)
      BY <1>2, <3>2 DEF Answered, Reading, Outcome
    <3>4. QED
      BY <1>1, <3>1, <3>3
  <2>2. CASE p # q /\ Handling(p)
    <3>1. req'[p] = Ended(p) /\ begun'[p] = begun[p] /\ disturbed'[p] = TRUE
      BY <1>1, <2>2
    <3>2. Answered(Ended(p), begun[p], TRUE, chain)
      BY <1>2 DEF Answered
    <3>3. QED
      BY <1>1, <3>1, <3>2
  <2>3. CASE p # q /\ ~Handling(p)
    <3>1. req'[p] = req[p] /\ begun'[p] = begun[p] /\ disturbed'[p] = disturbed[p]
      BY <1>1, <1>2, <2>3
    <3>2. QED
      BY <1>1, <1>2, <3>1
  <2>4. QED
    BY <2>1, <2>2, <2>3
<1>6. QED
  BY <1>3, <1>4, <1>5 DEF SolendInv

-----------------------------------------------------------------------------
(* The client.                                                             *)
LEMMA NextSlotKeeps ==
  ASSUME SolendInv, NextSlot
  PROVE  SolendInv'
<1>1. /\ chain' = NextSlotOf(chain) /\ req' = req /\ begun' = begun /\ Sent' = Sent
      /\ disturbed' = [q \in Sent |-> disturbed[q] \/ BetweenPieces(q)]
      /\ chain \in Chain /\ Typed
  BY DEF NextSlot, NextSlotOf, SolendInv, Typed, Sent
<1>2. chain' \in Chain
  BY <1>1 DEF NextSlotOf, Chain
<1>3. disturbed' \in [Sent -> BOOLEAN]
  BY <1>1 DEF Typed, BetweenPieces
<1>4. ASSUME NEW q \in Sent
      PROVE  Answered(req[q], begun[q], disturbed'[q], chain')
  <2> DEFINE r == req[q]
             b == begun[q]
             d == disturbed[q]
             g == d \/ (r.pc = "submitting" /\ r.kind.op # "deposit" /\ r.next > 2)
  <2>1. r \in ReqType /\ b \in Chain /\ d \in BOOLEAN /\ chain \in Chain /\ Answered(r, b, d, chain)
    BY RequestInv
  <2>2. Answered(r, b, g, NextSlotOf(chain))
    BY <2>1, NextSlotAnswered
  <2>3. disturbed'[q] = g
    BY <1>1 DEF BetweenPieces, IsDeposit
  <2>4. QED
    BY <1>1, <2>2, <2>3
<1>5. Typed'
  BY <1>1, <1>2, <1>3 DEF Typed
<1>6. QED
  BY <1>1, <1>4, <1>5 DEF SolendInv

(* The transaction that is submitted next: unless it is the last, it       *)
(* leaves the positions alone and brings the chain to the next.            *)
LEMMA NextTransaction ==
  ASSUME SolendInv, NEW q \in Sent, req[q].pc = "submitting"
  PROVE  LET r == req[q]
             n == r.next
             run == Run(r.txs[n], chain)
         IN
         /\ r.txs \in Seq(Seq(Instr)) /\ n \in 1..Len(r.txs) /\ n \in Nat /\ Len(r.txs) \in Nat
         /\ run \in [ok : BOOLEAN, chain : Chain]
         /\ n # Len(r.txs) => /\ run.ok => SamePositions(chain, run.chain)
                              /\ ~disturbed[q] => run.ok
         /\ n = Len(r.txs) =>
              /\ run.ok => \E e \in Chain : SamePositions(chain, e) /\ Operates(e, r.kind, run.chain)
              /\ ~disturbed[q] => (run.ok <=> Serviceable(r.kind, begun[q]))
         /\ \E L, s : /\ Ordered(r.kind, L) /\ Cut(r.txs, L, s)
                      /\ ~disturbed[q] => Planned(r, begun[q], chain, L, s)
                      /\ ~disturbed[q] /\ n # Len(r.txs) => Followed(begun[q], L, s[n + 1], run.chain)
<1> DEFINE r == req[q]
           n == r.next
           b == begun[q]
           d == disturbed[q]
           run == Run(r.txs[n], chain)
<1>1. /\ r \in ReqType /\ b \in Chain /\ d \in BOOLEAN /\ chain \in Chain /\ r.kind \in Kind
      /\ r.txs \in Seq(Seq(Instr)) /\ Len(r.txs) \in Nat /\ Answered(r, b, d, chain)
  BY RequestInv, RequestParts
<1>2. Submitting(r, b, d, chain)
  BY <1>1 DEF Answered
<1>3. n \in 1..Len(r.txs)
  BY <1>2 DEF Submitting
<1>4. PICK L, s : /\ Ordered(r.kind, L) /\ Cut(r.txs, L, s)
                  /\ ~d => Planned(r, b, chain, L, s)
  BY <1>2 DEF Submitting
<1> DEFINE fits == ~d
<1>5. fits \in BOOLEAN /\ (fits => Sound(b, L) /\ Covers(r.kind, b, L) /\ Followed(b, L, s[n], chain))
  BY <1>1, <1>4 DEF Planned
<1> HIDE DEF r, b, d, n, run
<1>6. /\ run \in [ok : BOOLEAN, chain : Chain]
      /\ s[n + 1] < Len(L) =>
           /\ run.ok => SamePositions(chain, run.chain)
           /\ ~d => run.ok /\ Followed(b, L, s[n + 1], run.chain)
      /\ s[n + 1] = Len(L) =>
           /\ run.ok => \E e \in Chain : SamePositions(chain, e) /\ Operates(e, r.kind, run.chain)
           /\ ~d => (run.ok <=> Serviceable(r.kind, b))
  <2> HIDE DEF fits
  <2>1. /\ run \in [ok : BOOLEAN, chain : Chain]
        /\ s[n + 1] < Len(L) =>
             /\ run.ok => SamePositions(chain, run.chain)
             /\ fits => run.ok /\ Followed(b, L, s[n + 1], run.chain)
        /\ s[n + 1] = Len(L) =>
             /\ run.ok => \E e \in Chain : SamePositions(chain, e) /\ Operates(e, r.kind, run.chain)
             /\ fits => (run.ok <=> Serviceable(r.kind, b))
    BY SMTT(30), <1>1, <1>3, <1>4, <1>5, TransactionRan DEF run
  <2>2. QED
    BY <2>1 DEF fits
<1>7. n # Len(r.txs) => s[n + 1] < Len(L)
  <2>1. n # Len(r.txs) => n + 1 \in 1..Len(r.txs)
    BY <1>1, <1>3
  <2>2. QED
    BY <1>4, <2>1 DEF Cut
<1>8. n = Len(r.txs) => s[n + 1] = Len(L)
  BY <1>4 DEF Cut
<1>9. n \in Nat
  BY <1>1, <1>3
<1>10. \E K, t : /\ Ordered(r.kind, K) /\ Cut(r.txs, K, t)
                 /\ ~d => Planned(r, b, chain, K, t)
                 /\ ~d /\ n # Len(r.txs) => Followed(b, K, t[n + 1], run.chain)
  BY <1>4, <1>6, <1>7
<1>11. /\ n # Len(r.txs) => (run.ok => SamePositions(chain, run.chain)) /\ (~d => run.ok)
       /\ n = Len(r.txs) =>
            /\ run.ok => \E e \in Chain : SamePositions(chain, e) /\ Operates(e, r.kind, run.chain)
            /\ ~d => (run.ok <=> Serviceable(r.kind, b))
  BY <1>6, <1>7, <1>8
<1>12. QED
  BY <1>1, <1>3, <1>6, <1>9, <1>10, <1>11 DEF r, b, d, n, run

LEMMA SubmitFailsKeeps ==
  ASSUME SolendInv, NEW q \in Sent, SubmitFails(q)
  PROVE  SolendInv'
<1>1. /\ req[q].pc = "submitting" /\ ~Run(req[q].txs[req[q].next], chain).ok
      /\ Finish(q, "aborted") /\ chain' = chain /\ UNCHANGED begun
      /\ disturbed' = [disturbed EXCEPT ![q] = disturbed[q]] /\ disturbed[q] \in BOOLEAN
  BY NothingElse, RequestInv DEF SubmitFails
<1>2. ~disturbed[q] => ~Serviceable(req[q].kind, begun[q])
  BY <1>1, NextTransaction
<1>3. QED
  BY <1>1, <1>2, Ends

LEMMA SubmitKeeps ==
  ASSUME SolendInv, NEW q \in Sent, Submit(q)
  PROVE  SolendInv'
<1> DEFINE r == req[q]
           n == r.next
           b == begun[q]
           d == disturbed[q]
           run == Run(r.txs[n], chain)
<1>1. /\ r.pc = "submitting" /\ run.ok /\ chain' = run.chain /\ begun' = begun
      /\ disturbed' = [p \in Sent |-> \/ disturbed[p]
                                      \/ p # q /\ InFlight(p) /\ Hurts(chain, run.chain)]
      /\ n = Len(r.txs) => Finish(q, "executed")
      /\ n # Len(r.txs) => req' = [req EXCEPT ![q].next = @ + 1]
  BY DEF Submit
<1>2. /\ r \in ReqType /\ b \in Chain /\ d \in BOOLEAN /\ chain \in Chain /\ Answered(r, b, d, chain)
      /\ r.kind \in Kind /\ begun \in [Sent -> Chain] /\ disturbed \in [Sent -> BOOLEAN]
  BY RequestInv, RequestParts DEF SolendInv, Typed
<1>3. /\ n \in 1..Len(r.txs) /\ n \in Nat /\ Len(r.txs) \in Nat /\ run \in [ok : BOOLEAN, chain : Chain]
      /\ n = Len(r.txs) /\ ~d => Serviceable(r.kind, b)
      /\ \E L, s : /\ Ordered(r.kind, L) /\ Cut(r.txs, L, s)
                   /\ ~d => Planned(r, b, chain, L, s)
                   /\ ~d /\ n # Len(r.txs) => Followed(b, L, s[n + 1], run.chain)
  BY <1>1, NextTransaction
<1>4. chain' \in Chain
  BY <1>1, <1>3
<1>5. disturbed' \in [Sent -> BOOLEAN] /\ disturbed'[q] = d
  BY <1>1, <1>2 DEF InFlight, Handling, Hurts
<1>6. ASSUME NEW p \in Sent \ {q}
      PROVE  Answered(req[p], begun[p], disturbed'[p], chain')
  <2>1. /\ Answered(req[p], begun[p], disturbed[p], chain) /\ disturbed[p] \in BOOLEAN
        /\ req[p].pc \in PCs
    BY RequestInv, RequestParts
  <2>2. disturbed'[p] = (disturbed[p] \/ (InFlight(p) /\ Hurts(chain, chain')))
    BY <1>1
  <2>3. CASE InFlight(p) /\ Hurts(chain, chain')
    <3>1. disturbed'[p] = TRUE
      BY <2>2, <2>3
    <3>2. QED
      BY <2>1, <3>1, DisturbedAnswered
  <2>4. CASE ~InFlight(p)
    <3>1. disturbed'[p] = disturbed[p]
      BY <2>1, <2>2, <2>4
    <3>2. req[p].pc \notin Reading /\ req[p].pc # "submitting"
      BY <2>4 DEF InFlight, Handling, Reading
    <3>3. QED
      BY <2>1, <3>1, <3>2, SettledAnswered
  <2>5. CASE ~Hurts(chain, chain')
    <3>1. disturbed'[p] = disturbed[p]
      BY <2>1, <2>2, <2>5
    <3>2. Touched(chain, chain')
      BY <2>5 DEF Hurts, Touched
    <3>3. QED
      BY <2>1, <3>1, <3>2, UntouchedAnswered
  <2>6. QED
    BY <2>3, <2>4, <2>5
<1>7. CASE n = Len(r.txs)
  <2> DEFINE s == [Idle(r.kind) EXCEPT !.pc = "executed"]
  <2>1. req' = [req EXCEPT ![q] = s]
    BY <1>1, <1>7 DEF Finish
  <2>2. s \in ReqType /\ s.pc = "executed" /\ s.kind = r.kind /\ s.txs = <<>> /\ s.next = 1
    <3>1. "executed" \in PCs
      BY DEF PCs
    <3>2. QED
      BY <1>2, <3>1, FinishedIs
  <2> HIDE DEF s, r, b, d, n, run
  <2>3. Answered(s, b, d, chain')
    BY <1>3, <1>7, <2>2 DEF Answered, Reading, Outcome
  <2>4. QED
    BY <1>1, <1>2, <1>4, <1>5, <1>6, <2>1, <2>2, <2>3, OneMoves DEF b
<1>8. CASE n # Len(r.txs)
  <2> DEFINE s == [r EXCEPT !.next = n + 1]
  <2>1. req' = [req EXCEPT ![q] = s]
    BY <1>1, <1>8
  <2> HIDE DEF r, b, d, n, run
  <2>2. /\ s \in ReqType /\ s.pc = "submitting" /\ s.kind = r.kind /\ s.txs = r.txs /\ s.next = n + 1
        /\ n + 1 \in 1..Len(r.txs)
    <3>1. n + 1 \in 1..Len(r.txs) /\ n + 1 \in Nat
      BY <1>3, <1>8
    <3> DEFINE m == n + 1
    <3>2. m \in Nat
      BY <3>1
    <3> HIDE DEF m
    <3>3. [r EXCEPT !.next = m] \in ReqType
      BY <1>2, <3>2 DEF ReqType
    <3>4. /\ [r EXCEPT !.next = m].pc = r.pc /\ [r EXCEPT !.next = m].kind = r.kind
          /\ [r EXCEPT !.next = m].txs = r.txs /\ [r EXCEPT !.next = m].next = m
      BY <1>2 DEF ReqType
    <3>5. QED
      BY <1>1, <3>1, <3>3, <3>4 DEF m
  <2> HIDE DEF s
  <2>3. PICK L, t : /\ Ordered(r.kind, L) /\ Cut(r.txs, L, t)
                    /\ ~d => Planned(r, b, chain, L, t)
                    /\ ~d => Followed(b, L, t[n + 1], chain')
    BY <1>1, <1>3, <1>8
  <2>4. ~d => Planned(s, b, chain', L, t)
    BY <2>2, <2>3 DEF Planned
  <2>5. Submitting(s, b, d, chain')
    BY <2>2, <2>3, <2>4 DEF Submitting
  <2>6. Answered(s, b, d, chain')
    BY <2>2, <2>5 DEF Answered, Reading, Outcome
  <2>7. QED
    BY <1>1, <1>2, <1>4, <1>5, <1>6, <2>1, <2>2, <2>6, OneMoves DEF b
<1>9. QED
  BY <1>7, <1>8

-----------------------------------------------------------------------------
(* The answers.  A list that prepares, with two more instructions; two     *)
(* lists, one after the other.                                             *)
LEMMA Joined ==
  ASSUME NEW S, NEW s \in Seq(S), NEW t \in Seq(S)
  PROVE  LET u == s \o t IN
         /\ u \in Seq(S) /\ Len(s) \in Nat /\ Len(t) \in Nat /\ Len(u) = Len(s) + Len(t)
         /\ \A i \in 1..Len(s) : u[i] = s[i]
         /\ \A i \in 1..Len(t) : u[Len(s) + i] = t[i]
         /\ \A i \in 1..Len(u) : i \in 1..Len(s) \/ (i - Len(s) \in 1..Len(t) /\ u[i] = t[i - Len(s)])
<1> DEFINE u == s \o t
           m == Len(s)
           n == Len(t)
<1>1. /\ m \in Nat /\ n \in Nat /\ u \in Seq(S) /\ Len(u) = m + n
      /\ \A i \in 1..m + n : u[i] = IF i <= m THEN s[i] ELSE t[i - m]
  BY ConcatProperties
<1> HIDE DEF u, m, n
<1>2. \A i \in 1..m : u[i] = s[i]
  BY <1>1
<1>3. ASSUME NEW i \in 1..n
      PROVE  u[m + i] = t[i]
  <2>1. m + i \in 1..m + n /\ ~(m + i <= m) /\ m + i - m = i
    BY <1>1
  <2>2. QED
    BY <1>1, <2>1
<1>4. \A i \in 1..Len(u) : i \in 1..m \/ (i - m \in 1..n /\ u[i] = t[i - m])
  BY <1>1
<1>5. QED
  BY <1>1, <1>2, <1>3, <1>4 DEF u, m, n

JoinedIs(s, t, u) ==
  /\ Len(s) \in Nat /\ Len(t) \in Nat /\ Len(u) = Len(s) + Len(t)
  /\ \A i \in 1..Len(s) : u[i] = s[i]
  /\ \A i \in 1..Len(t) : u[Len(s) + i] = t[i]
  /\ \A i \in 1..Len(u) : i \in 1..Len(s) \/ (i - Len(s) \in 1..Len(t) /\ u[i] = t[i - Len(s)])

LEMMA JoinedSteps ==
  ASSUME NEW s \in Seq(Steps), NEW t \in Seq(Steps)
  PROVE  s \o t \in Seq(Steps) /\ JoinedIs(s, t, s \o t)
<1> DEFINE S == Steps
<1>1. s \in Seq(S) /\ t \in Seq(S)
  OBVIOUS
<1> HIDE DEF S
<1>2. /\ s \o t \in Seq(S) /\ Len(s) \in Nat /\ Len(t) \in Nat /\ Len(s \o t) = Len(s) + Len(t)
      /\ \A i \in 1..Len(s) : (s \o t)[i] = s[i]
      /\ \A i \in 1..Len(t) : (s \o t)[Len(s) + i] = t[i]
      /\ \A i \in 1..Len(s \o t) :
           i \in 1..Len(s) \/ (i - Len(s) \in 1..Len(t) /\ (s \o t)[i] = t[i - Len(s)])
  BY <1>1, Joined
<1>3. QED
  BY <1>2 DEF S, JoinedIs

LEMMA TwoMore ==
  ASSUME NEW S, NEW s \in Seq(S), NEW x \in S, NEW y \in S
  PROVE  LET u == s \o <<x, y>> IN
         /\ u \in Seq(S) /\ Len(s) \in Nat /\ Len(u) = Len(s) + 2
         /\ \A i \in 1..Len(s) : u[i] = s[i]
         /\ u[Len(s) + 1] = x /\ u[Len(s) + 2] = y
<1> DEFINE t == <<x, y>>
<1>1. t \in Seq(S) /\ Len(t) = 2 /\ t[1] = x /\ t[2] = y /\ 1 \in 1..2 /\ 2 \in 1..2
  OBVIOUS
<1> HIDE DEF t
<1>2. QED
  BY <1>1, Joined DEF t

LEMMA ExtendsSteps ==
  ASSUME NEW s \in Seq(Steps)
  PROVE  s \in Seq(Instr) /\ Len(s) \in Nat /\ \A i \in 1..Len(s) : s[i] \in Steps
BY DEF Instr

LEMMA FollowedStart ==
  ASSUME NEW b, NEW L, NEW c, c.accounts = b.accounts, c.obligation = b.obligation
  PROVE  Followed(b, L, 0, c)
BY DEF Followed, Created, Opened, Refreshed, Renewed

(* What getOrCreateAssociatedTokenAccountByMint may prepare.               *)
LEMMA CreationIs ==
  ASSUME NEW a, NEW b
  PROVE  LET s == Creation(a, b).instructions IN
         /\ s \in Seq(Steps) /\ Len(s) \in Nat
         /\ Len(s) = IF a \in Accounts \ b.accounts THEN 1 ELSE 0
         /\ \A i \in 1..Len(s) : i = 1 /\ s[i].type = "createAccount" /\ s[i].account = a
                                 /\ a \in Accounts /\ a \notin b.accounts
<1>1. CASE a \in Accounts \ b.accounts
  <2> DEFINE x == CreateAccount(a)
             s == <<x>>
  <2>1. x \in Steps /\ x.type = "createAccount" /\ x.account = a
    BY <1>1, StepsMade
  <2> HIDE DEF x
  <2>2. s \in Seq(Steps) /\ Len(s) = 1 /\ s[1] = x
    BY <2>1
  <2>3. Creation(a, b).instructions = s
    BY <1>1, <2>2, NothingIs DEF Creation, x
  <2> HIDE DEF s
  <2>4. \A i \in 1..Len(s) : i = 1
    BY <2>2
  <2> DEFINE u == Creation(a, b).instructions
  <2>5. u = s
    BY <2>3
  <2> HIDE DEF u
  <2>6. u \in Seq(Steps) /\ Len(u) = 1
    BY <2>2, <2>5
  <2>7. \A i \in 1..Len(u) : i = 1 /\ u[i] = x
    BY <2>2, <2>4, <2>5
  <2>8. QED
    BY <1>1, <2>1, <2>6, <2>7 DEF u
<1>2. CASE a \notin Accounts \ b.accounts
  <2>1. Creation(a, b).instructions = <<>>
    BY <1>2, NothingIs DEF Creation
  <2>2. QED
    BY <1>2, <2>1
<1>3. QED
  BY <1>1, <1>2

Opens(c, y) ==
  /\ y \in Seq(Steps) /\ Len(y) \in Nat
  /\ c.obligation # Missing => Len(y) = 0
  /\ c.obligation = Missing => Len(y) = 2 /\ y[1] = CreateObligation /\ y[2] = InitObligation

LEMMA ObligationInstructionsAre ==
  ObligationInstructions \in Insts /\ Opens(chain, ObligationInstructions.instructions)
<1>1. CASE chain.obligation = Missing
  <2> DEFINE s == <<CreateObligation, InitObligation>>
  <2>1. s \in Seq(Steps) /\ Len(s) = 2 /\ s[1] = CreateObligation /\ s[2] = InitObligation
    BY StepsMade
  <2>2. ObligationInstructions = Instructions(s)
    BY <1>1 DEF ObligationInstructions
  <2> HIDE DEF s
  <2>3. ObligationInstructions \in Insts /\ ObligationInstructions.instructions = s
    BY <2>1, <2>2, NothingIs
  <2> DEFINE u == ObligationInstructions.instructions
  <2>4. u = s
    BY <2>3
  <2> HIDE DEF u
  <2>5. u \in Seq(Steps) /\ Len(u) = 2 /\ u[1] = CreateObligation /\ u[2] = InitObligation
    BY <2>1, <2>4
  <2>6. QED
    BY <1>1, <2>3, <2>5 DEF u, Opens
<1>2. CASE chain.obligation # Missing
  <2>1. ObligationInstructions = NoInstructions
    BY <1>2 DEF ObligationInstructions
  <2>2. ObligationInstructions \in Insts /\ ObligationInstructions.instructions = <<>>
    BY <2>1, NothingIs
  <2>3. QED
    BY <1>2, <2>2 DEF Opens
<1>3. QED
  BY <1>1, <1>2

(* The answer to a deposit.                                                *)
DepositList(k, x, y) == (x \o y) \o <<RefreshReserve(k.reserve), Operation(k)>>

DepositParts(k, x, y, L) ==
  /\ Len(x) \in Nat /\ Len(y) \in Nat /\ Len(L) = Len(x) + Len(y) + 2
  /\ \A i \in 1..Len(x) : L[i] = x[i]
  /\ \A i \in 1..Len(y) : L[Len(x) + i] = y[i]
  /\ L[Len(x) + Len(y) + 1] = RefreshReserve(k.reserve)

OnePiece(L) == [i \in 1..2 |-> IF i = 1 THEN 0 ELSE Len(L)]

LEMMA DepositIs ==
  ASSUME NEW k \in Kind, NEW lp \in Insts, NEW oblig \in Insts,
         NEW L, L = DepositList(k, lp.instructions, oblig.instructions)
  PROVE  /\ DepositTransactions(k, lp, oblig) = <<L>>
         /\ <<L>> \in Seq(Seq(Instr)) /\ Len(<<L>>) = 1
         /\ Ordered(k, L) /\ DepositParts(k, lp.instructions, oblig.instructions, L)
         /\ Cut(<<L>>, L, OnePiece(L)) /\ OnePiece(L)[1] = 0
<1> DEFINE x == lp.instructions
           y == oblig.instructions
           m == Len(x)
           n == Len(y)
           p == x \o y
           u == RefreshReserve(k.reserve)
           o == Operation(k)
           s == OnePiece(L)
<1>0. L = p \o <<u, o>>
  BY DEF DepositList
<1>1. DepositTransactions(k, lp, oblig) = <<L>>
  BY <1>0 DEF DepositTransactions, Merge
<1>2. x \in Seq(Steps) /\ y \in Seq(Steps)
  BY DEF Insts
<1>3. u \in Steps /\ o \in Instr /\ u \in Instr
  BY OperationIs, StepsMade DEF Instr
<1> HIDE DEF x, y, u, o
<1>4. /\ p \in Seq(Steps) /\ m \in Nat /\ n \in Nat /\ Len(p) = m + n
      /\ \A i \in 1..m : p[i] = x[i]
      /\ \A i \in 1..n : p[m + i] = y[i]
  BY <1>2, Joined
<1> HIDE DEF p, m, n
<1>5. /\ L \in Seq(Instr) /\ Len(L) = m + n + 2
      /\ \A i \in 1..m + n : L[i] = p[i]
      /\ L[m + n + 1] = u /\ L[m + n + 2] = o
  <2>1. p \in Seq(Instr)
    BY <1>4, ExtendsSteps
  <2> DEFINE t == p \o <<u, o>>
  <2>2. /\ t \in Seq(Instr) /\ Len(t) = Len(p) + 2
        /\ \A i \in 1..Len(p) : t[i] = p[i]
        /\ t[Len(p) + 1] = u /\ t[Len(p) + 2] = o
    BY <1>3, <2>1, TwoMore
  <2>3. L = t
    BY <1>0
  <2> HIDE DEF t
  <2>4. QED
    BY <1>4, <2>2, <2>3
<1>6. /\ \A i \in 1..m : L[i] = x[i]
      /\ \A i \in 1..n : L[m + i] = y[i]
  BY <1>4, <1>5
<1>7. Ordered(k, L)
  <2>1. Len(L) >= 1 /\ L[Len(L)] = o
    BY <1>4, <1>5
  <2>2. ASSUME NEW i \in 1..Len(L) - 1
        PROVE  L[i] \in Steps
    <3>1. i \in 1..m + n \/ i = m + n + 1
      BY <1>4, <1>5
    <3>2. i \in 1..m + n => p[i] \in Steps
      BY <1>4
    <3>3. QED
      BY <1>3, <1>5, <3>1, <3>2
  <2>3. QED
    BY <1>5, <2>1, <2>2 DEF Ordered, o
<1>8. <<L>> \in Seq(Seq(Instr)) /\ Len(<<L>>) = 1 /\ <<L>>[1] = L
  <2> DEFINE T == Seq(Instr)
  <2>1. L \in T
    BY <1>5
  <2> HIDE DEF T
  <2>2. <<L>> \in Seq(T)
    BY <2>1
  <2>3. QED
    BY <2>2 DEF T
<1>9. Cut(<<L>>, L, s)
  <2>1. Len(L) \in Nat /\ Len(L) > 0
    BY <1>4, <1>5
  <2>2. s \in [1..1 + 1 -> 0..Len(L)] /\ s[1] = 0 /\ s[1 + 1] = Len(L)
    BY <2>1 DEF OnePiece
  <2>3. SubSeq(L, 0 + 1, Len(L)) = L
    BY <1>5, SubSeqFull
  <2> HIDE DEF s
  <2>4. QED
    BY <1>8, <2>1, <2>2, <2>3 DEF Cut
<1>10. DepositParts(k, x, y, L)
  BY <1>4, <1>5, <1>6 DEF DepositParts, m, n, u
<1>11. s[1] = 0
  BY DEF OnePiece
<1>12. QED
  BY <1>1, <1>7, <1>8, <1>9, <1>10, <1>11 DEF x, y

LEMMA DepositSound ==
  ASSUME NEW k \in Kind, k.op = "deposit", Parses(k), NEW b \in Chain,
         k.reserve \in Native \/ Liq(k.reserve) \in b.accounts,
         NEW x, x = Creation(LP(k.reserve), b).instructions,
         NEW y, Opens(b, y), NEW L, DepositParts(k, x, y, L)
  PROVE  Sound(b, L) /\ Covers(k, b, L)
<1> DEFINE m == Len(x)
           n == Len(y)
           lp == LP(k.reserve)
           e == Len(L) - 1
<1>1. /\ k.reserve \in Reserves /\ lp \in Accounts
  BY OperationIs, AccountsDiffer
<1>2. /\ m \in Nat /\ n \in Nat /\ e = m + n + 1 /\ m <= 1 /\ (n = 0 \/ n = 2)
      /\ \A i \in 1..m : i = 1 /\ L[i].type = "createAccount" /\ L[i].account = lp /\ lp \notin b.accounts
      /\ lp \notin b.accounts => m = 1
  <2>1. /\ m \in Nat /\ m = IF lp \in Accounts \ b.accounts THEN 1 ELSE 0
        /\ \A i \in 1..m : i = 1 /\ x[i].type = "createAccount" /\ x[i].account = lp
                           /\ lp \notin b.accounts
    BY CreationIs
  <2>2. e = m + n + 1 /\ n \in Nat /\ (n = 0 \/ n = 2) /\ \A i \in 1..m : L[i] = x[i]
    BY <2>1 DEF DepositParts, Opens
  <2>3. QED
    BY <1>1, <2>1, <2>2
<1>3. n = 2 => /\ b.obligation = Missing
               /\ L[m + 1] = CreateObligation /\ L[m + 1].type = "createObligation"
               /\ L[m + 2] = InitObligation /\ L[m + 2].type = "initObligation"
  <2>1. n = 2 => b.obligation = Missing /\ 1 \in 1..n /\ 2 \in 1..n
    BY <1>2 DEF Opens
  <2>2. QED
    BY <2>1, StepsMade DEF DepositParts, Opens
<1>4. L[m + n + 1].type = "refreshReserve" /\ L[m + n + 1].reserve = k.reserve
  BY <1>1, StepsMade DEF DepositParts
<1>5. b.obligation = Missing => n = 2
  BY DEF Opens
<1> HIDE DEF m, n, lp, e
<1>6. \A i \in 1..e : i \in 1..m \/ (n = 2 /\ i = m + 1) \/ (n = 2 /\ i = m + 2) \/ i = m + n + 1
  BY <1>2
<1>7. Sound(b, L)
  <2> SUFFICES ASSUME NEW i \in 1..e
               PROVE  /\ L[i].type = "createAccount" =>
                           L[i].account \notin b.accounts \cup Created(L, i - 1)
                      /\ L[i].type = "createObligation" =>
                           b.obligation = Missing /\ ~Opened(L, i - 1)
                      /\ L[i].type = "initObligation" => Opened(L, i - 1)
                      /\ L[i].type # "refreshObligation"
    BY DEF Sound, e
  <2>1. CASE i \in 1..m
    <3>1. Created(L, 0) = {} /\ i - 1 = 0
      BY <1>2, <2>1 DEF Created
    <3>2. QED
      BY <1>2, <2>1, <3>1
  <2>2. CASE n = 2 /\ i = m + 1
    <3>1. i - 1 = m
      BY <1>2, <2>2
    <3>2. ~Opened(L, m)
      BY <1>2 DEF Opened
    <3>3. QED
      BY <1>3, <2>2, <3>1, <3>2
  <2>3. CASE n = 2 /\ i = m + 2
    <3>1. m + 1 \in 1..i - 1
      BY <1>2, <2>3
    <3>2. Opened(L, i - 1)
      BY <1>3, <2>3, <3>1 DEF Opened
    <3>3. QED
      BY <1>3, <2>3, <3>2
  <2>4. CASE i = m + n + 1
    BY <1>4, <2>4
  <2>5. QED
    BY <1>6, <2>1, <2>2, <2>3, <2>4
<1>8. k.reserve \in Refreshed(L, e)
  <2>1. m + n + 1 \in 1..e
    BY <1>2
  <2>2. QED
    BY <1>4, <2>1 DEF Refreshed
<1>9. lp \in b.accounts \cup Created(L, e)
  <2> SUFFICES ASSUME lp \notin b.accounts
               PROVE  lp \in Created(L, e)
    OBVIOUS
  <2>1. 1 \in 1..m /\ 1 \in 1..e
    BY <1>2
  <2>2. QED
    BY <1>2, <2>1 DEF Created
<1>10. b.obligation = Missing => Opened(L, e)
  <2> SUFFICES ASSUME b.obligation = Missing
               PROVE  Opened(L, e)
    OBVIOUS
  <2>1. n = 2 /\ m + 1 \in 1..e
    BY <1>2, <1>5
  <2>2. QED
    BY <1>3, <2>1 DEF Opened
<1>11. Covers(k, b, L)
  BY <1>8, <1>9, <1>10 DEF Covers, e, lp
<1>12. QED
  BY <1>7, <1>11

LEMMA ReadObligationKeeps ==
  ASSUME SolendInv, NEW q \in Sent, ReadObligation(q)
  PROVE  SolendInv'
<1> DEFINE r == req[q]
           b == begun[q]
           k == r.kind
<1>1. /\ r \in ReqType /\ b \in Chain /\ disturbed[q] \in BOOLEAN /\ chain \in Chain
      /\ Answered(r, b, disturbed[q], chain) /\ r.pc = "obligation" /\ k \in Kind
      /\ r.lp \in Insts
  BY RequestInv, RequestParts DEF ReadObligation
<1>2. /\ chain' = chain /\ UNCHANGED begun
      /\ disturbed' = [disturbed EXCEPT ![q] = disturbed[q]]
  BY NothingElse DEF ReadObligation
<1>3. ~disturbed[q] => Knows(r, b, chain)
  BY <1>1 DEF Answered, Reading
<1>4. CASE k.op # "deposit"
  <2> DEFINE s == [r EXCEPT !.pc = "parse"]
  <2>1. req' = [req EXCEPT ![q] = s]
    BY <1>4 DEF ReadObligation, IsDeposit
  <2> HIDE DEF r, b
  <2>2. s \in ReqType /\ s.pc = "parse" /\ s.kind = r.kind /\ s.txs = r.txs /\ s.next = r.next
    BY <1>1 DEF ReqType, PCs
  <2> HIDE DEF s
  <2>3. ~disturbed[q] => Knows(s, b, chain)
    BY <1>1, <1>3, <1>4, <2>2 DEF Knows
  <2>4. Answered(s, b, disturbed[q], chain)
    BY <1>1, <2>2, <2>3 DEF Answered, Outcome
  <2>5. QED
    BY <1>1, <1>2, <2>1, <2>2, <2>4, HandlerReads DEF b
<1>5. CASE k.op = "deposit"
  <2> DEFINE x == r.lp.instructions
             o == ObligationInstructions
             y == o.instructions
             L == DepositList(k, x, y)
             c == OnePiece(L)
             s == [Idle(k) EXCEPT !.pc = "submitting", !.txs = <<L>>]
  <2>1. o \in Insts /\ Opens(chain, y)
    BY ObligationInstructionsAre
  <2> HIDE DEF o
  <2>2. /\ DepositTransactions(k, r.lp, o) = <<L>>
        /\ <<L>> \in Seq(Seq(Instr)) /\ Len(<<L>>) = 1
        /\ Ordered(k, L) /\ DepositParts(k, x, y, L)
        /\ Cut(<<L>>, L, c) /\ c[1] = 0
    BY <1>1, <2>1, DepositIs
  <2>3. req' = [req EXCEPT ![q] = s]
    BY <1>5, <2>2 DEF ReadObligation, IsDeposit, AnswerWith, o
  <2> HIDE DEF L, y, r, b
  <2>4. /\ s \in ReqType /\ s.pc = "submitting" /\ s.kind = k /\ s.txs = <<L>> /\ s.next = 1
    BY <1>1, <2>2, AnswerIs
  <2>5. ASSUME ~disturbed[q]
        PROVE  Sound(b, L) /\ Covers(k, b, L) /\ Followed(b, L, 0, chain)
    <3>1. /\ Parses(k) /\ chain.obligation = b.obligation /\ chain.accounts = b.accounts
          /\ k.reserve \in Native \/ Liq(k.reserve) \in b.accounts
          /\ x = Creation(LP(k.reserve), b).instructions
      BY <1>1, <1>3, <1>5, <2>5 DEF Knows
    <3> HIDE DEF x, k
    <3>2. Opens(b, y)
      BY <2>1, <3>1 DEF Opens
    <3>3. Sound(b, L) /\ Covers(k, b, L)
      BY <1>1, <1>5, <2>2, <3>1, <3>2, DepositSound
    <3>4. QED
      BY <3>1, <3>3, FollowedStart
  <2> HIDE DEF c, s
  <2>6. ~disturbed[q] => Planned(s, b, chain, L, c)
    BY <2>2, <2>4, <2>5 DEF Planned
  <2>7. Submitting(s, b, disturbed[q], chain)
    <3>1. 1 \in 1..Len(s.txs)
      BY <2>2, <2>4
    <3>2. QED
      BY <2>2, <2>4, <2>6, <3>1 DEF Submitting
  <2>8. Answered(s, b, disturbed[q], chain)
    BY <2>4, <2>7 DEF Answered, Reading, Outcome
  <2>9. QED
    BY <1>1, <1>2, <2>3, <2>4, <2>8, HandlerReads DEF b
<1>6. QED
  BY <1>4, <1>5

(* The refreshes: of each reserve of the obligation, of the target, and    *)
(* then of the obligation.                                                 *)
Refreshes(D, B, v, A) ==
  /\ A \in Seq(Steps) /\ Len(A) \in Nat /\ Len(A) >= 2 /\ A[Len(A)] = RefreshObligation(D, B)
  /\ \A i \in 1..Len(A) - 1 : A[i].type = "refreshReserve"
  /\ \A w \in ToSet(D) \cup ToSet(B) \cup {v} :
       \E i \in 1..Len(A) - 1 : A[i].type = "refreshReserve" /\ A[i].reserve = w

LEMMA ListOfRefreshes ==
  ASSUME NEW D \in Listings
  PROVE  LET s == [i \in 1..Len(D) |-> RefreshReserve(D[i])] IN
         /\ s \in Seq(Steps) /\ Len(s) = Len(D)
         /\ \A i \in 1..Len(s) : s[i].type = "refreshReserve" /\ s[i].reserve = D[i]
         /\ \A w \in ToSet(D) : \E i \in 1..Len(s) : s[i].reserve = w
<1> DEFINE n == Len(D)
           s == [i \in 1..n |-> RefreshReserve(D[i])]
<1>1. D \in Seq(Reserves) /\ n \in Nat /\ \A i \in 1..n : D[i] \in Reserves
  BY ListingIs
<1>2. DOMAIN D = 1..n
  BY <1>1
<1> HIDE DEF n
<1>3. \A i \in 1..n : s[i] \in Steps /\ s[i].type = "refreshReserve" /\ s[i].reserve = D[i]
  BY <1>1, StepsMade
<1>4. s \in [1..n -> Steps]
  BY <1>3
<1>5. s \in Seq(Steps) /\ Len(s) = n
  <2> HIDE DEF s
  <2>1. QED
    BY <1>1, <1>4
<1> HIDE DEF s
<1>6. \A w \in ToSet(D) : \E i \in 1..n : s[i].reserve = w
  BY <1>2, <1>3 DEF ToSet
<1>7. QED
  BY <1>3, <1>5, <1>6 DEF s, n

LEMMA RefreshesAre ==
  ASSUME NEW D \in Listings, NEW B \in Listings, NEW v \in Reserves
  PROVE  Refreshes(D, B, v, AllRefreshInstructions(D, B, v))
<1> DEFINE s == [i \in 1..Len(D) |-> RefreshReserve(D[i])]
           t == [i \in 1..Len(B) |-> RefreshReserve(B[i])]
           p == s \o t
           x == RefreshReserve(v)
           y == RefreshObligation(D, B)
           A == p \o <<x, y>>
<1>1. /\ s \in Seq(Steps)
      /\ \A i \in 1..Len(s) : s[i].type = "refreshReserve"
      /\ \A w \in ToSet(D) : \E i \in 1..Len(s) : s[i].reserve = w
  BY ListOfRefreshes
<1>2. /\ t \in Seq(Steps)
      /\ \A i \in 1..Len(t) : t[i].type = "refreshReserve"
      /\ \A w \in ToSet(B) : \E i \in 1..Len(t) : t[i].reserve = w
  BY ListOfRefreshes
<1>3. x \in Steps /\ y \in Steps /\ x.type = "refreshReserve" /\ x.reserve = v
  BY StepsMade
<1>4. AllRefreshInstructions(D, B, v) = A
  BY DEF AllRefreshInstructions
<1> HIDE DEF s, t
<1>5. /\ p \in Seq(Steps) /\ Len(s) \in Nat /\ Len(t) \in Nat /\ Len(p) = Len(s) + Len(t)
      /\ \A i \in 1..Len(s) : p[i] = s[i]
      /\ \A i \in 1..Len(t) : p[Len(s) + i] = t[i]
      /\ \A i \in 1..Len(p) : i \in 1..Len(s) \/ (i - Len(s) \in 1..Len(t) /\ p[i] = t[i - Len(s)])
  BY <1>1, <1>2, Joined
<1> HIDE DEF p, x
<1>6. ASSUME NEW i \in 1..Len(p)
      PROVE  p[i].type = "refreshReserve"
  <2>1. CASE i \in 1..Len(s)
    BY <1>1, <1>5, <2>1
  <2>2. CASE i - Len(s) \in 1..Len(t) /\ p[i] = t[i - Len(s)]
    BY <1>2, <2>2
  <2>3. QED
    BY <1>5, <2>1, <2>2
<1>7. \A w \in ToSet(D) \cup ToSet(B) : \E i \in 1..Len(p) : p[i].reserve = w
  <2> SUFFICES ASSUME NEW w \in ToSet(D) \cup ToSet(B)
               PROVE  \E i \in 1..Len(p) : p[i].reserve = w
    OBVIOUS
  <2>1. CASE w \in ToSet(D)
    <3>1. PICK i \in 1..Len(s) : s[i].reserve = w
      BY <1>1, <2>1
    <3>2. i \in 1..Len(p)
      BY <1>5
    <3>3. QED
      BY <1>5, <3>1, <3>2
  <2>2. CASE w \in ToSet(B)
    <3>1. PICK i \in 1..Len(t) : t[i].reserve = w
      BY <1>2, <2>2
    <3>2. Len(s) + i \in 1..Len(p)
      BY <1>5
    <3>3. QED
      BY <1>5, <3>1, <3>2
  <2>3. QED
    BY <2>1, <2>2
<1> HIDE DEF y
<1>8. /\ A \in Seq(Steps) /\ Len(A) = Len(p) + 2 /\ Len(p) \in Nat
      /\ \A i \in 1..Len(p) : A[i] = p[i]
      /\ A[Len(p) + 1] = x /\ A[Len(p) + 2] = y
  BY <1>3, <1>5, TwoMore
<1> DEFINE n == Len(p)
<1> HIDE DEF A
<1>9. n \in Nat /\ Len(A) = n + 2 /\ Len(A) - 1 = n + 1 /\ Len(A) \in Nat /\ Len(A) >= 2
  BY <1>8
<1> HIDE DEF n
<1>10. \A i \in 1..n + 1 : i \in 1..n \/ i = n + 1
  BY <1>9
<1>11. \A i \in 1..n + 1 : A[i].type = "refreshReserve"
  BY <1>3, <1>6, <1>8, <1>10 DEF n
<1>12. \A w \in ToSet(D) \cup ToSet(B) \cup {v} :
         \E i \in 1..n + 1 : A[i].type = "refreshReserve" /\ A[i].reserve = w
  <2> SUFFICES ASSUME NEW w \in ToSet(D) \cup ToSet(B) \cup {v}
               PROVE  \E i \in 1..n + 1 : A[i].type = "refreshReserve" /\ A[i].reserve = w
    OBVIOUS
  <2>1. 1..n \subseteq 1..n + 1 /\ n + 1 \in 1..n + 1
    BY <1>9
  <2>2. CASE w = v
    BY <1>3, <1>8, <2>1, <2>2 DEF n
  <2>3. CASE w # v
    <3>1. PICK i \in 1..n : p[i].reserve = w
      BY <1>7, <2>3 DEF n
    <3>2. i \in 1..n + 1 /\ A[i] = p[i]
      BY <1>8, <2>1 DEF n
    <3>3. QED
      BY <1>11, <3>1, <3>2
  <2>4. QED
    BY <2>2, <2>3
<1>13. A[Len(A)] = y
  BY <1>8
<1>14. Refreshes(D, B, v, A)
  BY <1>8, <1>9, <1>11, <1>12, <1>13 DEF Refreshes, y
<1>15. QED
  BY <1>4, <1>14 DEF A

(* The token accounts that are created first.                              *)
Tokens(v, b, T) ==
  /\ \A i \in 1..Len(T) : T[i].type = "createAccount" /\ T[i].account \notin b.accounts
  /\ \A i, j \in 1..Len(T) : T[i].account = T[j].account => i = j
  /\ \A a \in {LP(v), Liq(v)} : a \in Accounts \ b.accounts => \E i \in 1..Len(T) : T[i].account = a

LEMMA TokensAre ==
  ASSUME NEW v \in Reserves, NEW b,
         NEW x, x = Creation(LP(v), b).instructions,
         NEW y, y = Creation(Liq(v), b).instructions
  PROVE  Tokens(v, b, x \o y)
<1> DEFINE T == x \o y
           m == Len(x)
           n == Len(y)
<1>1. /\ x \in Seq(Steps) /\ m \in Nat /\ m = IF LP(v) \in Accounts \ b.accounts THEN 1 ELSE 0
      /\ \A i \in 1..m : i = 1 /\ x[i].type = "createAccount" /\ x[i].account = LP(v)
                         /\ LP(v) \notin b.accounts
  BY CreationIs
<1>2. /\ y \in Seq(Steps) /\ n \in Nat /\ n = IF Liq(v) \in Accounts \ b.accounts THEN 1 ELSE 0
      /\ \A i \in 1..n : i = 1 /\ y[i].type = "createAccount" /\ y[i].account = Liq(v)
                         /\ Liq(v) \notin b.accounts
  BY CreationIs
<1>3. LP(v) # Liq(v)
  <2>1. LP(v)[1] = "lp" /\ Liq(v)[1] = "liq"
    BY DEF LP, Liq
  <2>2. QED
    BY <2>1
<1>4. /\ Len(T) = m + n
      /\ \A i \in 1..m : T[i] = x[i]
      /\ \A i \in 1..n : T[m + i] = y[i]
      /\ \A i \in 1..Len(T) : i \in 1..m \/ (i - m \in 1..n /\ T[i] = y[i - m])
  <2>1. JoinedIs(x, y, T)
    BY <1>1, <1>2, JoinedSteps
  <2>2. QED
    BY <2>1 DEF JoinedIs
<1> HIDE DEF T, m, n
<1>5. \A i \in 1..Len(T) :
        /\ T[i].type = "createAccount" /\ T[i].account \notin b.accounts
        /\ \/ i = 1 /\ m = 1 /\ T[i].account = LP(v)
           \/ i = m + 1 /\ T[i].account = Liq(v)
  <2> SUFFICES ASSUME NEW i \in 1..Len(T)
               PROVE  /\ T[i].type = "createAccount" /\ T[i].account \notin b.accounts
                      /\ \/ i = 1 /\ m = 1 /\ T[i].account = LP(v)
                         \/ i = m + 1 /\ T[i].account = Liq(v)
    OBVIOUS
  <2>1. CASE i \in 1..m
    <3>1. i = 1 /\ m = 1
      BY <1>1, <2>1
    <3>2. QED
      BY <1>1, <1>4, <2>1, <3>1
  <2>2. CASE i - m \in 1..n /\ T[i] = y[i - m]
    <3>1. i - m = 1
      BY <1>2, <2>2
    <3>2. i = m + 1
      BY <1>1, <3>1
    <3>3. QED
      BY <1>2, <2>2, <3>1, <3>2
  <2>3. QED
    BY <1>4, <2>1, <2>2
<1>6. \A i, j \in 1..Len(T) : T[i].account = T[j].account => i = j
  BY <1>3, <1>5
<1>7. LP(v) \in Accounts \ b.accounts => \E i \in 1..Len(T) : T[i].account = LP(v)
  <2> SUFFICES ASSUME LP(v) \in Accounts \ b.accounts
               PROVE  \E i \in 1..Len(T) : T[i].account = LP(v)
    OBVIOUS
  <2>1. 1 \in 1..m /\ 1 \in 1..Len(T)
    BY <1>1, <1>2, <1>4
  <2>2. QED
    BY <1>1, <1>4, <2>1
<1>8. Liq(v) \in Accounts \ b.accounts => \E i \in 1..Len(T) : T[i].account = Liq(v)
  <2> SUFFICES ASSUME Liq(v) \in Accounts \ b.accounts
               PROVE  \E i \in 1..Len(T) : T[i].account = Liq(v)
    OBVIOUS
  <2>1. 1 \in 1..n /\ m + 1 \in 1..Len(T)
    BY <1>1, <1>2, <1>4
  <2>2. QED
    BY <1>2, <1>4, <2>1
<1>9. QED
  BY ZenonT(30), <1>5, <1>6, <1>7, <1>8 DEF Tokens, T

(* The answer of the others: a list T and the pieces of a second list u    *)
(* are a cut of both together.                                             *)
PiecesOf(T, u, cap) ==
  [n \in 1..Pieces(u, cap) + 2 |-> IF n = 1 THEN 0 ELSE Len(T) + End(u, cap, n - 2)]

LEMMA FirstPart ==
  ASSUME NEW S, NEW T \in Seq(S), NEW u \in Seq(S)
  PROVE  SubSeq(T \o u, 1, Len(T)) = T
<1> DEFINE n == Len(T)
<1>1. n \in Nat
  OBVIOUS
<1>2. CASE n = 0
  <2>1. T = <<>>
    BY <1>2
  <2>2. SubSeq(T \o u, 1, n) = <<>>
    <3> HIDE DEF n
    <3>1. QED
      BY <1>2, SubSeqEmpty
  <2>3. QED
    BY <2>1, <2>2
<1>3. CASE n # 0
  <2>1. SubSeq(T, 1, n) = T
    BY SubSeqFull
  <2>2. 1 \in 1..n /\ n \in 1..n
    <3> HIDE DEF n
    <3>1. QED
      BY <1>1, <1>3
  <2>3. SubSeq(T \o u, 1, n) = SubSeq(T, 1, n)
    BY <2>2, SubSeqOfConcat1
  <2>4. QED
    BY <2>1, <2>3
<1>4. QED
  BY <1>2, <1>3

LEMMA LaterPart ==
  ASSUME NEW S, NEW T \in Seq(S), NEW u \in Seq(S), NEW a \in Nat, NEW e \in Nat,
         a < e, e <= Len(u)
  PROVE  SubSeq(T \o u, Len(T) + a + 1, Len(T) + e) = SubSeq(u, a + 1, e)
<1> DEFINE n == Len(T)
           m == Len(u)
           x == n + a + 1
           y == n + e
<1>1. n \in Nat /\ m \in Nat /\ e <= m
  OBVIOUS
<1>2. x \in n + 1 .. n + m /\ y \in n + 1 .. n + m /\ x - n = a + 1 /\ y - n = e
  <2> HIDE DEF n, m
  <2>1. QED
    BY <1>1
<1> HIDE DEF x, y
<1>3. SubSeq(T \o u, x, y) = SubSeq(u, x - n, y - n)
  BY <1>2, SubSeqOfConcat2
<1>4. QED
  BY <1>2, <1>3 DEF x, y

LEMMA OneBefore ==
  ASSUME NEW S, NEW x \in S, NEW t \in Seq(S)
  PROVE  LET u == <<x>> \o t IN
         /\ u \in Seq(S) /\ Len(u) = Len(t) + 1 /\ u[1] = x
         /\ \A i \in 1..Len(t) : u[i + 1] = t[i]
<1> DEFINE h == <<x>>
           u == h \o t
           n == Len(t)
<1>1. h \in Seq(S) /\ Len(h) = 1 /\ h[1] = x /\ n \in Nat
  OBVIOUS
<1> HIDE DEF h
<1>2. /\ u \in Seq(S) /\ Len(u) = Len(h) + n
      /\ \A i \in 1..Len(h) + n : u[i] = IF i <= Len(h) THEN h[i] ELSE t[i - Len(h)]
  BY <1>1, ConcatProperties
<1> HIDE DEF u, n
<1>3. Len(u) = 1 + n /\ \A i \in 1..1 + n : u[i] = IF i <= 1 THEN h[i] ELSE t[i - 1]
  BY <1>1, <1>2
<1>4. u[1] = x
  BY <1>1, <1>3
<1>5. ASSUME NEW i \in 1..n
      PROVE  u[i + 1] = t[i]
  <2>1. i + 1 \in 1..1 + n /\ ~(i + 1 <= 1) /\ i + 1 - 1 = i
    BY <1>1
  <2>2. QED
    BY <1>3, <2>1
<1>6. Len(u) = n + 1
  BY <1>1, <1>3
<1>7. QED
  BY <1>2, <1>4, <1>5, <1>6 DEF u, n, h

ToCut(T, u, cap, L, txs, s) ==
  /\ T \in Seq(Instr) /\ u \in Seq(Instr) /\ Len(u) >= 1 /\ cap \in Nat \ {0}
  /\ L = T \o u /\ txs = <<T>> \o Chunks(u, cap) /\ s = PiecesOf(T, u, cap)

IsCut(T, L, txs, s) ==
  /\ txs \in Seq(Seq(Instr)) /\ Len(txs) \in Nat /\ Len(txs) >= 1
  /\ Cut(txs, L, s) /\ s[1] = 0 /\ s[2] = Len(T)

LEMMA CutInPieces ==
  ASSUME NEW T, NEW u, NEW cap, NEW L, NEW txs, NEW s, ToCut(T, u, cap, L, txs, s)
  PROVE  IsCut(T, L, txs, s)
<1>0. /\ T \in Seq(Instr) /\ u \in Seq(Instr) /\ Len(u) >= 1 /\ cap \in Nat \ {0}
      /\ L = T \o u /\ txs = <<T>> \o Chunks(u, cap) /\ s = PiecesOf(T, u, cap)
  BY DEF ToCut
<1> USE <1>0
<1> DEFINE Z == Seq(Instr)
           c == Pieces(u, cap)
           t == Chunks(u, cap)
           n == Len(T)
           m == Len(u)
           E(k) == End(u, cap, k)
<1>1. n \in Nat /\ m \in Nat /\ m >= 1 /\ T \in Z
  OBVIOUS
<1>2. /\ t \in Seq(Z) /\ Len(t) = c
      /\ \A k \in 1..c : t[k] = SubSeq(u, Start(cap, k) + 1, E(k))
  BY Chunking
<1>3. /\ c \in Nat /\ c # 0
      /\ E(0) = 0 /\ E(c) = m
      /\ \A k \in 1..c : /\ Start(cap, k) \in Nat /\ E(k) \in Nat
                         /\ Start(cap, k) < E(k) /\ E(k) <= m
                         /\ Start(cap, k) = E(k - 1)
  BY <1>1, Bounds
<1>4. \A k \in 1..c : t[k] = SubSeq(u, E(k - 1) + 1, E(k)) /\ E(k - 1) \in Nat /\ E(k - 1) < E(k)
  BY <1>2, <1>3
<1>5. L \in Seq(Instr) /\ Len(L) = n + m
  BY ConcatProperties
<1>6. SubSeq(L, 1, n) = T
  BY FirstPart
<1>7. \A k \in 1..c : SubSeq(L, n + E(k - 1) + 1, n + E(k)) = t[k]
  <2> SUFFICES ASSUME NEW k \in 1..c
               PROVE  SubSeq(L, n + E(k - 1) + 1, n + E(k)) = t[k]
    OBVIOUS
  <2> DEFINE a == E(k - 1)
             e == E(k)
  <2>1. a \in Nat /\ e \in Nat /\ a < e /\ e <= m /\ t[k] = SubSeq(u, a + 1, e)
    BY <1>3, <1>4
  <2> HIDE DEF a, e
  <2>2. SubSeq(T \o u, n + a + 1, n + e) = SubSeq(u, a + 1, e)
    BY <2>1, LaterPart
  <2>3. QED
    BY <2>1, <2>2 DEF a, e
<1>8. s = [i \in 1..c + 2 |-> IF i = 1 THEN 0 ELSE n + E(i - 2)]
  BY DEF PiecesOf
<1> HIDE DEF Z, t, c, n, m, E
<1>9. /\ txs \in Seq(Z) /\ Len(txs) = c + 1 /\ txs[1] = T
      /\ \A i \in 1..c : txs[i + 1] = t[i]
  <2> DEFINE w == <<T>> \o t
  <2>1. txs = w
    BY DEF t
  <2>2. T \in Z /\ t \in Seq(Z)
    BY <1>1, <1>2
  <2>3. /\ w \in Seq(Z) /\ Len(w) = Len(t) + 1 /\ w[1] = T
        /\ \A i \in 1..Len(t) : w[i + 1] = t[i]
    BY ONLY <2>2, OneBefore
  <2> HIDE DEF w
  <2>4. QED
    BY <1>2, <2>1, <2>3
<1>10. /\ s[1] = 0 /\ s[2] = n + E(0) /\ s[2] = n
       /\ \A i \in 1..c : s[i + 1] = n + E(i - 1) /\ s[i + 2] = n + E(i)
  <2>1. 1 \in 1..c + 2 /\ 2 \in 1..c + 2 /\ 2 - 2 = 0
    BY <1>3
  <2>2. \A i \in 1..c : /\ i + 1 \in 1..c + 2 /\ i + 2 \in 1..c + 2 /\ i + 1 # 1 /\ i + 2 # 1
                        /\ i + 1 - 2 = i - 1 /\ i + 2 - 2 = i
    BY <1>3
  <2>3. ASSUME NEW i \in 1..c
        PROVE  s[i + 1] = n + E(i - 1) /\ s[i + 2] = n + E(i)
    <3>1. s[i + 1] = n + E(i + 1 - 2) /\ s[i + 2] = n + E(i + 2 - 2)
      BY <1>8, <2>2
    <3>2. QED
      BY <2>2, <3>1
  <2>4. s[1] = 0 /\ s[2] = n + E(0)
    BY <1>8, <2>1
  <2>5. QED
    BY <1>1, <1>3, <2>3, <2>4
<1>11. Cut(txs, L, s)
  <2>1. s \in [1..c + 2 -> 0..n + m]
    <3>1. \A i \in 1..c + 2 : s[i] \in 0..n + m
      <4>0. c \in Nat
        BY <1>3
      <4>1. \A i \in 1..c + 2 : i = 1 \/ i = 2 \/ i - 2 \in 1..c
        BY <4>0
      <4>2. ASSUME NEW i \in 1..c
            PROVE  s[i + 2] \in 0..n + m
        <5> DEFINE e == E(i)
        <5>1. e \in Nat /\ e <= m /\ s[i + 2] = n + e
          BY <1>3, <1>10
        <5> HIDE DEF e
        <5>2. n + e \in 0..n + m
          BY <1>1, <5>1
        <5>3. QED
          BY <5>1, <5>2
      <4>3. \A i \in 1..c + 2 : i - 2 + 2 = i
        BY <1>3
      <4>4. \A i \in 1..c + 2 : i - 2 \in 1..c => s[i] \in 0..n + m
        <5> SUFFICES ASSUME NEW i \in 1..c + 2, i - 2 \in 1..c
                     PROVE  s[i] \in 0..n + m
          OBVIOUS
        <5> DEFINE j == i - 2
        <5>1. j \in 1..c /\ j + 2 = i
          BY <4>3
        <5> HIDE DEF j
        <5>2. QED
          BY <4>2, <5>1
      <4>5. QED
        BY <1>1, <1>10, <4>1, <4>4
    <3>2. QED
      BY <1>8, <3>1
  <2>2. s[c + 2] = n + m
    BY <1>3, <1>10
  <2>3. /\ s[1] < n + m /\ s[1] <= s[2] /\ txs[1] = SubSeq(L, s[1] + 1, s[2])
    <3>1. 0 < n + m /\ 0 <= n /\ 0 + 1 = 1
      BY <1>1
    <3>2. QED
      BY <1>6, <1>9, <1>10, <3>1
  <2>4. ASSUME NEW i \in 1..c
        PROVE  /\ s[i + 1] < n + m /\ s[i + 1] <= s[i + 2]
               /\ txs[i + 1] = SubSeq(L, s[i + 1] + 1, s[i + 2])
    <3>1. SubSeq(L, n + E(i - 1) + 1, n + E(i)) = txs[i + 1]
      BY <1>7, <1>9
    <3> DEFINE a == E(i - 1)
               e == E(i)
    <3>2. a \in Nat /\ e \in Nat /\ a < e /\ e <= m /\ s[i + 1] = n + a /\ s[i + 2] = n + e
      BY <1>3, <1>4, <1>10
    <3>3. SubSeq(L, n + a + 1, n + e) = txs[i + 1]
      BY <3>1
    <3> HIDE DEF a, e
    <3>4. s[i + 1] < n + m /\ s[i + 1] <= s[i + 2]
      BY <1>1, <3>2
    <3>5. txs[i + 1] = SubSeq(L, s[i + 1] + 1, s[i + 2])
      BY <3>2, <3>3
    <3>6. QED
      BY <3>4, <3>5
  <2>5. \A j \in 1..c + 1 : /\ s[j] < n + m /\ s[j] <= s[j + 1]
                            /\ txs[j] = SubSeq(L, s[j] + 1, s[j + 1])
    <3> SUFFICES ASSUME NEW j \in 1..c + 1
                 PROVE  /\ s[j] < n + m /\ s[j] <= s[j + 1]
                        /\ txs[j] = SubSeq(L, s[j] + 1, s[j + 1])
      OBVIOUS
    <3>1. CASE j = 1
      <4>1. j + 1 = 2
        BY <3>1
      <4>2. QED
        BY <2>3, <3>1, <4>1
    <3>2. CASE j # 1
      <4> DEFINE i == j - 1
      <4>1. i \in 1..c /\ i + 1 = j /\ i + 2 = j + 1
        BY <1>3, <3>2
      <4> HIDE DEF i
      <4>2. QED
        BY <2>4, <4>1
    <3>3. QED
      BY <3>1, <3>2
  <2>6. Len(txs) + 1 = c + 2
    BY <1>3, <1>9
  <2>7. QED
    BY <1>5, <1>9, <1>10, <2>1, <2>2, <2>5, <2>6 DEF Cut
<1>12. Len(txs) \in Nat /\ Len(txs) >= 1
  BY <1>3, <1>9
<1>13. txs \in Seq(Seq(Instr))
  BY <1>9 DEF Z
<1>14. QED
  BY <1>10, <1>11, <1>12, <1>13 DEF n, IsCut

SplitParts(T, A, L) ==
  /\ Len(T) \in Nat /\ Len(A) \in Nat /\ Len(L) = Len(T) + Len(A) + 1
  /\ \A i \in 1..Len(T) : L[i] = T[i]
  /\ \A i \in 1..Len(A) : L[Len(T) + i] = A[i]

LEMMA AppendedSteps ==
  ASSUME NEW A \in Seq(Steps), NEW o \in Instr
  PROVE  /\ Append(A, o) \in Seq(Instr) /\ Len(A) \in Nat /\ Len(Append(A, o)) = Len(A) + 1
         /\ \A i \in 1..Len(A) : Append(A, o)[i] = A[i]
         /\ Append(A, o)[Len(A) + 1] = o
<1>1. A \in Seq(Instr) /\ Len(A) \in Nat
  BY ExtendsSteps
<1>2. QED
  BY <1>1, AppendProperties

TokenList(lp, liq) == lp.instructions \o liq.instructions
SolendList(k, A) == Append(A, Operation(k))
WholeList(T, u) == T \o u
InPieces(T, u, cap) == <<T>> \o Chunks(u, cap)

SplitAnswer(k, T, A, L, txs, s) ==
  /\ txs \in Seq(Seq(Instr)) /\ Len(txs) \in Nat /\ Len(txs) >= 1
  /\ Ordered(k, L) /\ SplitParts(T, A, L)
  /\ Cut(txs, L, s) /\ s[1] = 0 /\ s[2] = Len(T)

LEMMA SplitIs ==
  ASSUME NEW k \in Kind, NEW T \in Seq(Steps), NEW A \in Seq(Steps), NEW cap \in Nat \ {0}
  PROVE  SplitAnswer(k, T, A, WholeList(T, SolendList(k, A)),
                     InPieces(T, SolendList(k, A), cap), PiecesOf(T, SolendList(k, A), cap))
<1> DEFINE o == Operation(k)
           m == Len(T)
           n == Len(A)
           u == SolendList(k, A)
           L == WholeList(T, u)
           txs == InPieces(T, u, cap)
           s == PiecesOf(T, u, cap)
<1>0. u = Append(A, o) /\ L = T \o u /\ txs = <<T>> \o Chunks(u, cap) /\ s = PiecesOf(T, u, cap)
  BY DEF SolendList, WholeList, InPieces
<1> HIDE DEF u, L, txs, s
<1>1. T \in Seq(Instr) /\ m \in Nat /\ \A i \in 1..m : T[i] \in Steps
  BY ExtendsSteps
<1>2. A \in Seq(Steps) /\ o \in Instr
  BY OperationIs
<1>3. /\ u \in Seq(Instr) /\ n \in Nat /\ Len(u) = n + 1
      /\ \A i \in 1..n : u[i] = A[i] /\ A[i] \in Steps
      /\ u[n + 1] = o
  BY <1>0, <1>2, AppendedSteps, ExtendsSteps
<1>4. Len(u) >= 1
  BY <1>3
<1>5. /\ txs \in Seq(Seq(Instr)) /\ Len(txs) \in Nat /\ Len(txs) >= 1
      /\ Cut(txs, L, s) /\ s[1] = 0 /\ s[2] = m
  <2>1. ToCut(T, u, cap, L, txs, s)
    BY <1>0, <1>1, <1>3, <1>4 DEF ToCut
  <2>2. IsCut(T, L, txs, s)
    BY ONLY <2>1, CutInPieces
  <2>3. QED
    BY <2>2 DEF IsCut
<1> DEFINE w == T \o u
<1>6. w = L
  BY <1>0
<1>7. /\ w \in Seq(Instr) /\ Len(w) = m + Len(u)
      /\ \A i \in 1..m : w[i] = T[i]
      /\ \A i \in 1..Len(u) : w[m + i] = u[i]
  <2>1. T \in Seq(Instr) /\ u \in Seq(Instr)
    BY <1>1, <1>3
  <2>2. QED
    BY ONLY <2>1, Joined
<1> HIDE DEF w, m, n, o
<1>8. /\ L \in Seq(Instr) /\ Len(L) = m + n + 1
      /\ \A i \in 1..m : L[i] = T[i]
      /\ \A i \in 1..n + 1 : L[m + i] = u[i]
  <2>1. /\ L \in Seq(Instr) /\ Len(L) = m + Len(u)
        /\ \A i \in 1..m : L[i] = T[i]
        /\ \A i \in 1..Len(u) : L[m + i] = u[i]
    BY ONLY <1>6, <1>7
  <2>2. m + (n + 1) = m + n + 1
    BY <1>1, <1>3
  <2>3. Len(u) = n + 1
    BY <1>3
  <2>4. QED
    BY ONLY <2>1, <2>2, <2>3
<1>9. \A i \in 1..n : L[m + i] = A[i]
  <2> SUFFICES ASSUME NEW i \in 1..n
               PROVE  L[m + i] = A[i]
    OBVIOUS
  <2>1. i \in 1..n + 1
    BY <1>3
  <2>2. QED
    BY <1>3, <1>8, <2>1
<1>10. Ordered(k, L)
  <2>1. n + 1 \in 1..n + 1 /\ m + (n + 1) = m + n + 1 /\ m + n + 1 >= 1
    BY SMTT(30), <1>1, <1>3
  <2>2. L[m + n + 1] = o
    BY <1>3, <1>8, <2>1
  <2>3. ASSUME NEW i \in 1..Len(L) - 1
        PROVE  L[i] \in Steps
    <3>1. i \in 1..m \/ i - m \in 1..n
      BY <1>1, <1>3, <1>8
    <3>2. CASE i \in 1..m
      BY <1>1, <1>8, <3>2
    <3>3. CASE i - m \in 1..n
      <4> DEFINE j == i - m
      <4>1. j \in 1..n /\ m + j = i
        BY <1>1, <3>3
      <4> HIDE DEF j
      <4>2. QED
        BY <1>3, <1>9, <4>1
    <3>4. QED
      BY <3>1, <3>2, <3>3
  <2>4. QED
    BY <1>8, <2>1, <2>2, <2>3 DEF Ordered, o
<1>11. SplitParts(T, A, L)
  BY <1>1, <1>3, <1>8, <1>9 DEF SplitParts, m, n
<1>12. QED
  BY <1>5, <1>10, <1>11 DEF SplitAnswer, u, L, txs, s, m

LEMMA SplitTransactionsAre ==
  ASSUME NEW k \in Kind, NEW lp, NEW liq, NEW D, NEW B, NEW cap \in Nat \ {0}
  PROVE  SplitTransactions(k, lp, liq, D, B, cap) =
           InPieces(TokenList(lp, liq), SolendList(k, AllRefreshInstructions(D, B, k.reserve)), cap)
<1> DEFINE u == Append(AllRefreshInstructions(D, B, k.reserve), Operation(k))
           pieces == Split(Instructions(u), cap)
           t == Chunks(u, cap)
<1>1. pieces = [i \in DOMAIN t |-> [instructions |-> t[i], signers |-> <<>>]]
  BY DEF Split, Instructions
<1>2. t = [i \in DOMAIN t |-> t[i]]
  BY DEF Chunks
<1>3. Merge(lp, liq).instructions = lp.instructions \o liq.instructions
  BY DEF Merge
<1>4. SplitTransactions(k, lp, liq, D, B, cap) =
        <<Merge(lp, liq).instructions>> \o [i \in DOMAIN pieces |-> pieces[i].instructions]
  BY DEF SplitTransactions
<1> HIDE DEF pieces, t
<1>5. DOMAIN pieces = DOMAIN t /\ \A i \in DOMAIN t : pieces[i].instructions = t[i]
  BY <1>1
<1>6. [i \in DOMAIN pieces |-> pieces[i].instructions] = [i \in DOMAIN t |-> t[i]]
  BY <1>5
<1>7. [i \in DOMAIN pieces |-> pieces[i].instructions] = t
  BY <1>2, <1>6
<1>8. QED
  BY <1>3, <1>4, <1>7 DEF InPieces, TokenList, SolendList, t

Asked(k, b, D, B) ==
  /\ k \in Kind /\ k.op # "deposit" /\ Parses(k)
  /\ b \in Chain /\ b.obligation # Missing
  /\ D \in Listings /\ D = b.obligation.deposits
  /\ B \in Listings /\ B = b.obligation.borrows
  /\ ToSet(D) \cup ToSet(B) \subseteq Listed

LEMMA SplitSound ==
  ASSUME NEW k, NEW b, NEW D, NEW B, Asked(k, b, D, B),
         NEW A, Refreshes(D, B, k.reserve, A), NEW T, Tokens(k.reserve, b, T),
         NEW L, SplitParts(T, A, L)
  PROVE  /\ Sound(b, L) /\ Covers(k, b, L)
         /\ \A j \in 1..Len(T) : L[j].type = "createAccount"
<1> DEFINE m == Len(T)
           n == Len(A)
           v == k.reserve
           e == Len(L) - 1
           P == ToSet(D) \cup ToSet(B)
<1>0. /\ k \in Kind /\ k.op # "deposit" /\ Parses(k)
      /\ b \in Chain /\ b.obligation # Missing
      /\ D \in Listings /\ D = b.obligation.deposits
      /\ B \in Listings /\ B = b.obligation.borrows
      /\ P \subseteq Listed
  BY DEF Asked
<1>1. v \in Reserves /\ LP(v) \in Accounts /\ (v \notin Native => Liq(v) \in Accounts)
  BY <1>0, OperationIs, AccountsDiffer
<1>2. m \in Nat /\ n \in Nat /\ n >= 2 /\ Len(L) = m + n + 1
  BY DEF SplitParts, Refreshes
<1>3. e = m + n
  <2> HIDE DEF m, n
  <2>1. QED
    BY <1>2
<1>4. /\ \A i \in 1..m : L[i] = T[i]
      /\ \A i \in 1..n : L[m + i] = A[i]
  BY DEF SplitParts
<1>5. /\ \A i \in 1..m : L[i].type = "createAccount" /\ L[i].account \notin b.accounts
      /\ \A i, j \in 1..m : L[i].account = L[j].account => i = j
      /\ \A a \in {LP(v), Liq(v)} : a \in Accounts \ b.accounts => \E i \in 1..m : L[i].account = a
  BY <1>4 DEF Tokens
<1>6. A[n].type = "refreshObligation" /\ A[n].deposits = D /\ A[n].borrows = B
  BY <1>0, StepsMade DEF Refreshes
<1>7. /\ \A i \in 1..n - 1 : A[i].type = "refreshReserve"
      /\ \A w \in P \cup {v} : \E i \in 1..n - 1 : A[i].type = "refreshReserve" /\ A[i].reserve = w
  BY DEF Refreshes
<1> HIDE DEF m, n, v, e, P
<1>8. /\ \A i \in 1..n - 1 : L[m + i] = A[i]
      /\ L[m + n] = A[n]
  <2>1. n \in 1..n /\ \A i \in 1..n - 1 : i \in 1..n
    BY <1>2
  <2>2. QED
    BY <1>4, <2>1
<1>9. \A i \in 1..m + n - 1 : L[i].type \in {"createAccount", "refreshReserve"}
  <2> SUFFICES ASSUME NEW i \in 1..m + n - 1
               PROVE  L[i].type \in {"createAccount", "refreshReserve"}
    OBVIOUS
  <2>1. CASE i \in 1..m
    BY <1>5, <2>1
  <2>2. CASE i \notin 1..m
    <3> DEFINE j == i - m
    <3>1. j \in 1..n - 1 /\ m + j = i
      BY <1>2, <2>2
    <3> HIDE DEF j
    <3>2. QED
      BY <1>7, <1>8, <3>1
  <2>3. QED
    BY <2>1, <2>2
<1>10. \A i \in 1..m + n : ~Opened(L, i)
  <2> SUFFICES ASSUME NEW i \in 1..m + n, NEW j \in 1..i
               PROVE  L[j].type # "createObligation"
    BY DEF Opened
  <2>1. j \in 1..m + n - 1 \/ j = m + n
    BY <1>2
  <2>2. QED
    BY <1>6, <1>8, <1>9, <2>1
<1>11. P \cup {v} \subseteq Refreshed(L, m + n - 1)
  <2> SUFFICES ASSUME NEW w \in P \cup {v}
               PROVE  w \in Refreshed(L, m + n - 1)
    OBVIOUS
  <2>1. PICK i \in 1..n - 1 : A[i].type = "refreshReserve" /\ A[i].reserve = w
    BY <1>7
  <2>2. m + i \in 1..m + n - 1
    BY <1>2
  <2>3. L[m + i].type = "refreshReserve" /\ L[m + i].reserve = w
    BY <1>8, <2>1
  <2>4. QED
    BY <2>2, <2>3 DEF Refreshed
<1>12. Refreshed(L, m + n - 1) \subseteq Refreshed(L, m + n)
  <2>1. 1..m + n - 1 \subseteq 1..m + n
    BY <1>2
  <2>2. QED
    BY <2>1 DEF Refreshed
<1>13. Sound(b, L)
  <2> SUFFICES ASSUME NEW i \in 1..m + n
               PROVE  /\ L[i].type = "createAccount" =>
                           L[i].account \notin b.accounts \cup Created(L, i - 1)
                      /\ L[i].type # "createObligation" /\ L[i].type # "initObligation"
                      /\ L[i].type = "refreshObligation" =>
                           /\ ~Opened(L, i - 1)
                           /\ L[i].deposits = D /\ L[i].borrows = B
                           /\ P \subseteq Refreshed(L, i - 1)
    BY <1>0, <1>3 DEF Sound, e, P
  <2>1. CASE i = m + n
    <3>1. i - 1 \in 1..m + n /\ i - 1 = m + n - 1
      BY <1>2, <2>1
    <3>2. QED
      BY <1>6, <1>8, <1>10, <1>11, <2>1, <3>1
  <2>2. CASE i # m + n
    <3>1. i \in 1..m + n - 1
      BY <1>2, <2>2
    <3>2. L[i].type \in {"createAccount", "refreshReserve"}
      BY <1>9, <3>1
    <3>3. ASSUME L[i].type = "createAccount"
          PROVE  L[i].account \notin b.accounts \cup Created(L, i - 1)
      <4>1. i \in 1..m
        <5> SUFFICES ASSUME i \notin 1..m
                     PROVE  FALSE
          OBVIOUS
        <5> DEFINE j == i - m
        <5>1. j \in 1..n - 1 /\ m + j = i
          BY <1>2, <3>1
        <5> HIDE DEF j
        <5>2. L[i].type = "refreshReserve"
          BY <1>7, <1>8, <5>1
        <5>3. QED
          BY <3>3, <5>2
      <4>2. \A j \in 1..i - 1 : j \in 1..m /\ j # i
        BY <1>2, <4>1
      <4>3. L[i].account \notin Created(L, i - 1)
        BY <1>5, <4>1, <4>2 DEF Created
      <4>4. QED
        BY <1>5, <4>1, <4>3
    <3>4. QED
      BY <3>2, <3>3
  <2>3. QED
    BY <2>1, <2>2
<1>14. ASSUME NEW a \in {LP(v), Liq(v)}, a \in Accounts
       PROVE  a \in b.accounts \cup Created(L, m + n)
  <2> SUFFICES ASSUME a \notin b.accounts
               PROVE  a \in Created(L, m + n)
    OBVIOUS
  <2>1. PICK i \in 1..m : L[i].account = a
    BY <1>5, <1>14
  <2>2. i \in 1..m + n /\ L[i].type = "createAccount"
    BY <1>2, <1>5
  <2>3. QED
    BY <2>1, <2>2 DEF Created
<1>15. Renewed(L, m + n)
  <2>1. m + n \in 1..m + n
    BY <1>2
  <2>2. QED
    BY <1>6, <1>8, <2>1 DEF Renewed
<1>16. Covers(k, b, L)
  <2>1. m + n \in 1..m + n
    BY <1>2
  <2>2. ~Opened(L, m + n)
    BY <1>10, <2>1
  <2>3. v \in Refreshed(L, m + n)
    BY <1>11, <1>12
  <2>4. LP(v) \in b.accounts \cup Created(L, m + n)
    BY <1>1, <1>14
  <2>5. v \notin Native => Liq(v) \in b.accounts \cup Created(L, m + n)
    BY <1>1, <1>14
  <2>6. QED
    BY <1>0, <1>3, <1>15, <2>2, <2>3, <2>4, <2>5 DEF Covers, e, v, P
<1>17. QED
  BY <1>5, <1>13, <1>16 DEF m

(* The answer of withdraw, borrow and repay.                               *)
LEMMA LookupLiqKeeps ==
  ASSUME SolendInv, NEW q \in Sent, LookupLiq(q)
  PROVE  SolendInv'
<1> DEFINE r == req[q]
           b == begun[q]
           k == r.kind
           v == k.reserve
           D == r.obligationDeposits
           B == r.obligationBorrows
<1>1. /\ r \in ReqType /\ b \in Chain /\ disturbed[q] \in BOOLEAN /\ chain \in Chain
      /\ Answered(r, b, disturbed[q], chain) /\ r.pc = "liq" /\ k \in Kind
      /\ r.lp \in Insts /\ D \in Listings /\ B \in Listings
      /\ chain.accounts \subseteq Accounts
  BY RequestInv, RequestParts, ChainParts DEF LookupLiq
<1>2. chain' = chain /\ UNCHANGED begun
  BY DEF LookupLiq
<1>3. ~disturbed[q] => Knows(r, b, chain)
  BY <1>1 DEF Answered, Reading
<1>4. PICK answers \in BOOLEAN, cap \in Caps :
        /\ IF ToSet(D) \cup ToSet(B) \subseteq Listed
           THEN AnswerWith(q, SplitTransactions(k, r.lp, LookupAccount(Liq(v), answers), D, B, cap))
           ELSE Finish(q, "error500")
        /\ Disturb(q, ~answers /\ Liq(v) \in chain.accounts)
  BY DEF LookupLiq
<1> DEFINE x == LookupAccount(Liq(v), answers)
           d == disturbed[q] \/ (~answers /\ Liq(v) \in chain.accounts)
<1>5. disturbed' = [disturbed EXCEPT ![q] = d] /\ d \in BOOLEAN
  BY <1>4 DEF Disturb
<1>6. x \in Insts
  BY LookupIs
<1>7. cap \in Nat \ {0}
  BY SolendAssumption
<1>8. v \in Reserves
  BY <1>1, OperationIs
<1>9. ~d => /\ ~disturbed[q] /\ chain.accounts = b.accounts /\ chain.obligation = b.obligation
            /\ Parses(k) /\ k.op # "deposit" /\ b.obligation # Missing
            /\ D = b.obligation.deposits /\ B = b.obligation.borrows
            /\ r.lp = Creation(LP(v), b) /\ x = Creation(Liq(v), b)
  <2> SUFFICES ASSUME ~d
               PROVE  /\ ~disturbed[q] /\ chain.accounts = b.accounts
                      /\ chain.obligation = b.obligation
                      /\ Parses(k) /\ k.op # "deposit" /\ b.obligation # Missing
                      /\ D = b.obligation.deposits /\ B = b.obligation.borrows
                      /\ r.lp = Creation(LP(v), b) /\ x = Creation(Liq(v), b)
    OBVIOUS
  <2>1. ~disturbed[q] /\ ~(~answers /\ Liq(v) \in chain.accounts)
    OBVIOUS
  <2>2. /\ chain.accounts = b.accounts /\ chain.obligation = b.obligation
        /\ Parses(k) /\ k.op # "deposit" /\ b.obligation # Missing
        /\ D = b.obligation.deposits /\ B = b.obligation.borrows
        /\ r.lp = Creation(LP(v), b)
    BY <1>1, <1>3, <2>1 DEF Knows
  <2>3. x = Creation(Liq(v), b)
    BY <1>1, <2>1, <2>2, LookedUp
  <2>4. QED
    BY <2>1, <2>2, <2>3
<1>10. CASE ~(ToSet(D) \cup ToSet(B) \subseteq Listed)
  <2>1. Finish(q, "error500")
    BY <1>4, <1>10
  <2>2. ~d => ~Serviceable(k, b)
    BY <1>9, <1>10 DEF Serviceable
  <2> HIDE DEF d
  <2>3. QED
    BY <1>2, <1>5, <2>1, <2>2, Ends
<1>11. CASE ToSet(D) \cup ToSet(B) \subseteq Listed
  <2> DEFINE A == AllRefreshInstructions(D, B, v)
             T == TokenList(r.lp, x)
             u == SolendList(k, A)
             L == WholeList(T, u)
             txs == InPieces(T, u, cap)
             c == PiecesOf(T, u, cap)
             s == [Idle(k) EXCEPT !.pc = "submitting", !.txs = txs]
  <2>1. SplitTransactions(k, r.lp, x, D, B, cap) = txs
    <3> HIDE DEF x
    <3>1. QED
      BY <1>1, <1>7, SplitTransactionsAre
  <2>2. req' = [req EXCEPT ![q] = s]
    <3>1. AnswerWith(q, SplitTransactions(k, r.lp, x, D, B, cap))
      BY <1>4, <1>11
    <3> HIDE DEF txs, x
    <3>2. QED
      BY <2>1, <3>1 DEF AnswerWith
  <2>3. Refreshes(D, B, v, A) /\ A \in Seq(Steps)
    <3>1. Refreshes(D, B, v, A)
      <4> HIDE DEF D, B, v
      <4>1. QED
        BY <1>1, <1>8, RefreshesAre
    <3> HIDE DEF A
    <3>2. QED
      BY <3>1 DEF Refreshes
  <2>4. T \in Seq(Steps)
    <3>1. r.lp.instructions \in Seq(Steps) /\ x.instructions \in Seq(Steps)
      BY <1>1, <1>6 DEF Insts
    <3>2. QED
      BY <3>1, JoinedSteps DEF TokenList
  <2>5. ~d => Tokens(v, b, T)
    <3> SUFFICES ASSUME ~d
                 PROVE  Tokens(v, b, T)
      OBVIOUS
    <3> DEFINE y == Creation(LP(v), b).instructions
               z == Creation(Liq(v), b).instructions
    <3>1. Tokens(v, b, y \o z)
      BY <1>8, TokensAre
    <3>2. r.lp.instructions = y /\ x.instructions = z
      BY <1>9
    <3> HIDE DEF y, z, x
    <3>3. QED
      BY <3>1, <3>2 DEF TokenList
  <2> HIDE DEF A, T, x, d, r, b
  <2>6. /\ txs \in Seq(Seq(Instr)) /\ Len(txs) \in Nat /\ Len(txs) >= 1
        /\ Ordered(k, L) /\ SplitParts(T, A, L)
        /\ Cut(txs, L, c) /\ c[1] = 0 /\ c[2] = Len(T)
    <3>1. SplitAnswer(k, T, A, L, txs, c)
      BY <1>1, <1>7, <2>3, <2>4, SplitIs
    <3> HIDE DEF txs, c, L, u
    <3>2. QED
      BY <3>1 DEF SplitAnswer
  <2> HIDE DEF txs, c, L, u
  <2>7. /\ s \in ReqType /\ s.pc = "submitting" /\ s.kind = k /\ s.txs = txs /\ s.next = 1
    BY <1>1, <2>6, AnswerIs
  <2>8. ASSUME ~d
        PROVE  /\ Sound(b, L) /\ Covers(k, b, L) /\ Followed(b, L, 0, chain)
               /\ k.op # "deposit" /\ \A j \in 1..Len(T) : L[j].type = "createAccount"
    <3>1. /\ Sound(b, L) /\ Covers(k, b, L)
          /\ \A j \in 1..Len(T) : L[j].type = "createAccount"
      <4>1. Asked(k, b, D, B) /\ Tokens(k.reserve, b, T)
        BY <1>1, <1>9, <1>11, <2>5, <2>8 DEF Asked
      <4>2. Refreshes(D, B, k.reserve, A) /\ SplitParts(T, A, L)
        BY <2>3, <2>6
      <4> HIDE DEF k, D, B, v
      <4>3. QED
        BY ONLY <4>1, <4>2, SplitSound
    <3>2. Followed(b, L, 0, chain)
      BY <1>9, <2>8, FollowedStart
    <3>3. QED
      BY <1>9, <2>8, <3>1, <3>2
  <2> HIDE DEF s
  <2>9. ~d => Planned(s, b, chain, L, c)
    BY <2>6, <2>7, <2>8 DEF Planned
  <2>10. Submitting(s, b, d, chain)
    <3>1. 1 \in 1..Len(s.txs)
      BY <2>6, <2>7
    <3>2. QED
      BY <2>6, <2>7, <2>9, <3>1 DEF Submitting
  <2>11. Answered(s, b, d, chain)
    BY <2>7, <2>10 DEF Answered, Reading, Outcome
  <2>12. QED
    BY <1>2, <1>5, <2>2, <2>7, <2>11, HandlerReads DEF b
<1>12. QED
  BY <1>10, <1>11

-----------------------------------------------------------------------------
(* A step keeps the invariant, whoever takes it.                           *)
LEMMA StepInv == SolendInv /\ [Next]_vars => SolendInv'
<1> SUFFICES ASSUME SolendInv, [Next]_vars
             PROVE  SolendInv'
  OBVIOUS
<1>1. ASSUME NEW q \in Sent, Begin(q) PROVE SolendInv'
  BY <1>1, BeginKeeps
<1>2. ASSUME NEW q \in Sent, ParseThrows(q) PROVE SolendInv'
  BY <1>2, ParseThrowsKeeps
<1>3. ASSUME NEW q \in Sent, ReadSource(q) PROVE SolendInv'
  BY <1>3, ReadSourceKeeps
<1>4. ASSUME NEW q \in Sent, LookupLP(q) PROVE SolendInv'
  BY <1>4, LookupLPKeeps
<1>5. ASSUME NEW q \in Sent, ReadObligation(q) PROVE SolendInv'
  BY <1>5, ReadObligationKeeps
<1>6. ASSUME NEW q \in Sent, ParseObligation(q) PROVE SolendInv'
  BY <1>6, ParseObligationKeeps
<1>7. ASSUME NEW q \in Sent, LookupLiq(q) PROVE SolendInv'
  BY <1>7, LookupLiqKeeps
<1>8. ASSUME NEW q \in Sent, ReadRejected(q) PROVE SolendInv'
  BY <1>8, ReadRejectedKeeps
<1>9. ASSUME NEW q \in Sent, Submit(q) PROVE SolendInv'
  BY <1>9, SubmitKeeps
<1>10. ASSUME NEW q \in Sent, SubmitFails(q) PROVE SolendInv'
  BY <1>10, SubmitFailsKeeps
<1>11. CASE NextSlot
  BY <1>11, NextSlotKeeps
<1>12. CASE UNCHANGED vars
  BY <1>12 DEF vars, SolendInv, Typed, Sent
<1>13. QED
  BY <1>1, <1>2, <1>3, <1>4, <1>5, <1>6, <1>7, <1>8, <1>9, <1>10, <1>11, <1>12 DEF Next

(* In every reachable state, each request's answer is a list of preparing  *)
(* steps and then its operation, cut anywhere; and when nobody disturbed   *)
(* the request, the handler knows the wallet as the request found it, its  *)
(* answer has every step in its place and leaves none out, and the chain   *)
(* has followed the answer so far.                                         *)
THEOREM SolendInvariance == Spec => []SolendInv
<1>1. Init => SolendInv
  BY InitInv
<1>2. SolendInv /\ [Next]_vars => SolendInv'
  BY StepInv
<1>3. QED
  BY <1>1, <1>2, PTL DEF Spec

(* The chain, the handlers and the answers keep their types, and a request *)
(* is never past the end of its answer.                                    *)
THEOREM TypeCorrect == Spec => []TypeOK
<1>1. SolendInv => TypeOK
  <2> SUFFICES ASSUME SolendInv
               PROVE  TypeOK
    OBVIOUS
  <2>1. chain \in Chain /\ Sent \subseteq Requests /\ disturbed \in [Sent -> BOOLEAN]
    BY DEF SolendInv, Typed
  <2>2. ASSUME NEW q \in Sent
        PROVE  /\ req[q].pc \in PCs
               /\ req[q].obligationDeposits \in Listings /\ req[q].obligationBorrows \in Listings
               /\ req[q].next \in 1..Len(req[q].txs) + 1
    <3>1. Answered(req[q], begun[q], disturbed[q], chain)
      BY RequestInv
    <3>2. req[q] \in ReqType
      BY RequestInv
    <3> DEFINE n == req[q].next
               m == Len(req[q].txs)
    <3>3. CASE req[q].pc = "submitting"
      <4>1. n \in 1..m
        BY <3>1, <3>3 DEF Answered, Submitting
      <4>2. m \in Nat
        BY <3>2, RequestParts
      <4> HIDE DEF n, m
      <4>3. n \in 1..m + 1
        BY <4>1, <4>2
      <4>4. QED
        BY <3>2, <4>3, RequestParts DEF n, m
    <3>4. CASE req[q].pc # "submitting"
      <4>1. n = 1 /\ m = 0
        BY <3>1, <3>4 DEF Answered
      <4> HIDE DEF n, m
      <4>2. n \in 1..m + 1
        BY <4>1
      <4>3. QED
        BY <3>2, <4>2, RequestParts DEF n, m
    <3>5. QED
      BY <3>3, <3>4
  <2>3. QED
    BY <2>1, <2>2 DEF TypeOK, Sent
<1>2. QED
  BY <1>1, SolendInvariance, PTL

(* A request that nobody disturbs is executed when, and only when, the     *)
(* wallet could ask for it: for every set of reserves and every obligation *)
(* on them, for any number of requests, and wherever the Builder cuts.     *)
THEOREM UndisturbedRequests == Spec => []UndisturbedOutcome
<1>1. SolendInv => UndisturbedOutcome
  <2> SUFFICES ASSUME SolendInv, NEW q \in Sent, ~disturbed[q]
               PROVE  Outcome(req[q], begun[q])
    BY DEF UndisturbedOutcome, Outcome
  <2>1. Answered(req[q], begun[q], disturbed[q], chain)
    BY RequestInv
  <2>2. QED
    BY <2>1 DEF Answered
<1>2. QED
  BY <1>1, SolendInvariance, PTL

-----------------------------------------------------------------------------
(* What the completion of a request changes in the wallet's positions.     *)
Completed(what) ==
  LET before == Position(chain, what)
      after == Position(chain', what)
  IN  before # after =>
        \E q \in Sent :
          LET k == req[q].kind IN
          /\ req[q].pc = "submitting" /\ req'[q].pc = "executed"
          /\ \/ /\ k.op = (IF what = "deposits" THEN "deposit" ELSE "borrow")
                /\ after = before \cup {k.reserve}
             \/ /\ k.op = (IF what = "deposits" THEN "withdraw" ELSE "repay")
                /\ k.all /\ after = before \ {k.reserve}

LEMMA SameCompleted ==
  ASSUME chain'.obligation = chain.obligation, NEW what
  PROVE  Completed(what)
BY DEF Completed, Position

LEMMA OperatesCompleted ==
  ASSUME NEW k \in Kind, NEW c, NEW e, NEW d, SamePositions(c, e), Operates(e, k, d),
         NEW what \in {"deposits", "borrows"}, Position(c, what) # Position(d, what)
  PROVE  \/ /\ k.op = (IF what = "deposits" THEN "deposit" ELSE "borrow")
            /\ Position(d, what) = Position(c, what) \cup {k.reserve}
         \/ /\ k.op = (IF what = "deposits" THEN "withdraw" ELSE "repay")
            /\ k.all /\ Position(d, what) = Position(c, what) \ {k.reserve}
<1>1. /\ Position(d, "deposits") = ToSet(d.obligation.deposits)
      /\ Position(d, "borrows") = ToSet(d.obligation.borrows)
      /\ Position(c, "deposits") = ToSet(e.obligation.deposits)
      /\ Position(c, "borrows") = ToSet(e.obligation.borrows)
  BY DEF Operates, Position, SamePositions
<1>2. CASE what = "deposits"
  BY <1>1, <1>2 DEF Operates
<1>3. CASE what = "borrows"
  BY <1>1, <1>3 DEF Operates
<1>4. QED
  BY <1>2, <1>3

LEMMA SubmitCompleted ==
  ASSUME SolendInv, NEW q \in Sent, Submit(q), NEW what \in {"deposits", "borrows"}
  PROVE  Completed(what)
<1> DEFINE r == req[q]
           n == r.next
           k == r.kind
           run == Run(r.txs[n], chain)
<1>1. /\ r.pc = "submitting" /\ run.ok /\ chain' = run.chain
      /\ n = Len(r.txs) => Finish(q, "executed")
  BY DEF Submit
<1>2. /\ n # Len(r.txs) => SamePositions(chain, chain')
      /\ n = Len(r.txs) => \E e \in Chain : SamePositions(chain, e) /\ Operates(e, k, chain')
  BY <1>1, NextTransaction
<1>3. r \in ReqType /\ k \in Kind /\ req \in [Sent -> ReqType]
  BY RequestInv, RequestParts DEF SolendInv, Typed
<1>4. CASE n # Len(r.txs)
  <2>1. Position(chain', what) = Position(chain, what)
    BY <1>2, <1>4 DEF SamePositions
  <2>2. QED
    BY <2>1 DEF Completed
<1>5. CASE n = Len(r.txs)
  <2>1. PICK e \in Chain : SamePositions(chain, e) /\ Operates(e, k, chain')
    BY <1>2, <1>5
  <2>2. req'[q].pc = "executed"
    <3> DEFINE s == [Idle(k) EXCEPT !.pc = "executed"]
    <3>1. s.pc = "executed"
      <4>1. "executed" \in PCs
        BY DEF PCs
      <4>2. QED
        BY <1>3, <4>1, FinishedIs
    <3>2. req' = [req EXCEPT ![q] = s]
      BY <1>1, <1>5 DEF Finish
    <3> HIDE DEF s
    <3>3. QED
      BY <1>3, <3>1, <3>2
  <2>3. ASSUME Position(chain, what) # Position(chain', what)
        PROVE  \/ /\ k.op = (IF what = "deposits" THEN "deposit" ELSE "borrow")
                  /\ Position(chain', what) = Position(chain, what) \cup {k.reserve}
               \/ /\ k.op = (IF what = "deposits" THEN "withdraw" ELSE "repay")
                  /\ k.all /\ Position(chain', what) = Position(chain, what) \ {k.reserve}
    BY <1>3, <2>1, <2>3, OperatesCompleted
  <2>4. QED
    BY <1>1, <2>2, <2>3 DEF Completed
<1>6. QED
  BY <1>4, <1>5

LEMMA StepCompleted ==
  ASSUME SolendInv, [Next]_vars, NEW what \in {"deposits", "borrows"}
  PROVE  Completed(what)
<1>1. ASSUME NEW q \in Sent, Submit(q)
      PROVE  Completed(what)
  BY <1>1, SubmitCompleted
<1>2. CASE NextSlot
  <2>1. chain'.obligation = chain.obligation
    BY <1>2 DEF NextSlot, SolendInv, Typed, Chain
  <2>2. QED
    BY <2>1, SameCompleted
<1>3. ASSUME NEW q \in Sent,
             \/ Begin(q) \/ ParseThrows(q) \/ ReadSource(q) \/ LookupLP(q) \/ ReadObligation(q)
             \/ ParseObligation(q) \/ LookupLiq(q) \/ ReadRejected(q) \/ SubmitFails(q)
      PROVE  Completed(what)
  <2>1. chain' = chain
    BY <1>3 DEF Begin, ParseThrows, ReadSource, LookupLP, ReadObligation, ParseObligation,
                LookupLiq, ReadRejected, SubmitFails
  <2>2. QED
    BY <2>1, SameCompleted
<1>4. CASE UNCHANGED vars
  <2>1. chain' = chain
    BY <1>4 DEF vars
  <2>2. QED
    BY <2>1, SameCompleted
<1>5. QED
  BY <1>1, <1>2, <1>3, <1>4 DEF Next

(* However an answer is cut, and whoever else submits in between, the      *)
(* wallet's positions change only in the step that completes a request, by *)
(* the reserve it named and in the way it asked.                           *)
THEOREM PositionsAtCompletion == Spec => PositionsChangeAtCompletion
<1>1. SolendInv /\ [Next]_vars => [\A what \in {"deposits", "borrows"} : Completed(what)]_vars
  BY StepCompleted
<1>2. Spec => [][\A what \in {"deposits", "borrows"} : Completed(what)]_vars
  BY <1>1, SolendInvariance, PTL DEF Spec
<1>3. QED
  BY <1>2 DEF PositionsChangeAtCompletion, Completed
=============================================================================
