-------------------------- MODULE MangoSpotProofs ---------------------------
(***************************************************************************)
(* The Mango services for any number of requests on one wallet, from any   *)
(* situation: what a transaction does to the chain, and what that means    *)
(* for the requests that are under way.                                    *)
(***************************************************************************)
EXTENDS MangoSpot, InstructionListsProofs, FiniteSetTheorems, TLAPS

-----------------------------------------------------------------------------
(* One instruction.                                                        *)
ChainType ==
  [accounts : UNION {[K -> Account] : K \in SUBSET Keys},
   book : SUBSET (Orders \cup {Foreign}), ata : BOOLEAN, wrapped : SUBSET Keys]

InstrTypes == {"createMango", "initMango", "createWrapped", "closeWrapped", "createAta",
               "deposit", "withdraw", "initOpenOrders", "place", "cancel", "settle"}

Instr ==
  {i \in [type : InstrTypes, account : Keys, arg : Keys \cup Orders \cup {Foreign, None}] :
     i.type \in {"createWrapped", "initOpenOrders"} => i.arg \in Keys}

LEMMA AccountsType ==
  ASSUME NEW accounts
  PROVE  accounts \in UNION {[K -> Account] : K \in SUBSET Keys}
           <=> accounts \in [DOMAIN accounts -> Account] /\ DOMAIN accounts \subseteq Keys
OBVIOUS

LEMMA ChainParts ==
  ASSUME NEW c \in ChainType
  PROVE  /\ c.accounts \in [DOMAIN c.accounts -> Account] /\ DOMAIN c.accounts \subseteq Keys
         /\ c.book \subseteq Orders \cup {Foreign} /\ c.ata \in BOOLEAN
         /\ c.wrapped \subseteq Keys
         /\ \A a \in DOMAIN c.accounts : /\ c.accounts[a] \in Account
                                         /\ c.accounts[a].oo \in Keys \cup {None}
                                         /\ c.accounts[a].slots \subseteq Orders
<1>1. c.accounts \in [DOMAIN c.accounts -> Account] /\ DOMAIN c.accounts \subseteq Keys
  BY AccountsType DEF ChainType
<1>2. \A a \in DOMAIN c.accounts : c.accounts[a] \in Account
  BY <1>1
<1>3. QED
  BY <1>1, <1>2 DEF ChainType, Account

(* An account replaced, or another one added.                              *)
LEMMA ChangedAccount ==
  ASSUME NEW c \in ChainType, NEW a \in DOMAIN c.accounts, NEW acc \in Account
  PROVE  LET d == [c EXCEPT !.accounts = [@ EXCEPT ![a] = acc]] IN
         /\ d \in ChainType /\ DOMAIN d.accounts = DOMAIN c.accounts
         /\ d.accounts = [c.accounts EXCEPT ![a] = acc]
         /\ d.book = c.book /\ d.ata = c.ata /\ d.wrapped = c.wrapped
<1> DEFINE new == [c.accounts EXCEPT ![a] = acc]
<1>1. c.accounts \in [DOMAIN c.accounts -> Account] /\ DOMAIN c.accounts \subseteq Keys
  BY ChainParts
<1>2. new \in [DOMAIN c.accounts -> Account] /\ DOMAIN new = DOMAIN c.accounts
  BY <1>1
<1> HIDE DEF new
<1>3. new \in UNION {[K -> Account] : K \in SUBSET Keys}
  BY <1>1, <1>2
<1>4. [c EXCEPT !.accounts = new] \in ChainType
  BY <1>3 DEF ChainType
<1>5. LET d == [c EXCEPT !.accounts = new] IN
      /\ d.accounts = new /\ d.book = c.book /\ d.ata = c.ata /\ d.wrapped = c.wrapped
  BY DEF ChainType
<1>6. QED
  BY <1>2, <1>4, <1>5 DEF new

LEMMA AddedAccount ==
  ASSUME NEW c \in ChainType, NEW k \in Keys, k \notin DOMAIN c.accounts
  PROVE  LET d == [c EXCEPT !.accounts = With(@, k)] IN
         /\ d \in ChainType /\ DOMAIN d.accounts = DOMAIN c.accounts \cup {k}
         /\ d.accounts[k] = NewAccount
         /\ \A a \in DOMAIN c.accounts : d.accounts[a] = c.accounts[a]
         /\ d.book = c.book /\ d.ata = c.ata /\ d.wrapped = c.wrapped
<1> DEFINE new == With(c.accounts, k)
<1>1. c.accounts \in [DOMAIN c.accounts -> Account] /\ DOMAIN c.accounts \subseteq Keys
  BY ChainParts
<1>2. NewAccount \in Account
  BY DEF NewAccount, Account
<1>3. /\ new \in [DOMAIN c.accounts \cup {k} -> Account]
      /\ DOMAIN new = DOMAIN c.accounts \cup {k}
      /\ new[k] = NewAccount /\ \A a \in DOMAIN c.accounts : new[a] = c.accounts[a]
  BY <1>1, <1>2 DEF With
<1> HIDE DEF new
<1>4. new \in UNION {[K -> Account] : K \in SUBSET Keys}
  BY <1>1, <1>3
<1>5. [c EXCEPT !.accounts = new] \in ChainType
  BY <1>4 DEF ChainType
<1>6. LET d == [c EXCEPT !.accounts = new] IN
      /\ d.accounts = new /\ d.book = c.book /\ d.ata = c.ata /\ d.wrapped = c.wrapped
  BY DEF ChainType
<1>7. QED
  BY <1>3, <1>5, <1>6 DEF new

(* What each instruction changes.                                          *)
Changes(q, c, i, d) ==
  /\ d \in ChainType
  /\ i.type = "createMango" =>
       /\ i.account \notin DOMAIN c.accounts
       /\ DOMAIN d.accounts = DOMAIN c.accounts \cup {i.account}
       /\ d.accounts[i.account] = NewAccount
       /\ \A a \in DOMAIN c.accounts : d.accounts[a] = c.accounts[a]
  /\ i.type # "createMango" => DOMAIN d.accounts = DOMAIN c.accounts
  /\ i.type \notin {"createMango", "initOpenOrders", "place"} => d.accounts = c.accounts
  /\ i.type = "cancel" => /\ d.book = c.book \ {i.arg}
                          /\ i.account \in DOMAIN c.accounts
                          /\ i.arg \in c.accounts[i.account].slots \cap c.book
  /\ i.type = "place" => d.book = c.book \cup {q}
  /\ i.type \notin {"cancel", "place"} => d.book = c.book
  /\ i.type = "createWrapped" => d.wrapped = c.wrapped \cup {i.arg}
  /\ i.type = "closeWrapped" => d.wrapped = c.wrapped \ {i.arg}
  /\ i.type \notin {"createWrapped", "closeWrapped"} => d.wrapped = c.wrapped
  /\ i.type = "initOpenOrders" => d.accounts[i.account].oo = i.arg
  /\ i.type = "createAta" => d.ata = TRUE
  /\ i.type # "createAta" => d.ata = c.ata

LEMMA Effects ==
  ASSUME NEW q \in Requests, NEW c \in ChainType, NEW i \in Instr, Accepts(c, i)
  PROVE  Changes(q, c, i, Effect(q, c, i))
<1> DEFINE d == Effect(q, c, i)
<1>1. /\ i.type \in InstrTypes /\ i.account \in Keys
      /\ i.type \in {"createWrapped", "initOpenOrders"} => i.arg \in Keys
      /\ q \in Orders
  BY DEF Instr, Orders
<1>2. CASE i.type = "createMango"
  <2>1. d = [c EXCEPT !.accounts = With(@, i.account)] /\ i.account \notin DOMAIN c.accounts
    BY <1>2 DEF Effect, Accepts
  <2>2. /\ d \in ChainType /\ DOMAIN d.accounts = DOMAIN c.accounts \cup {i.account}
        /\ d.accounts[i.account] = NewAccount
        /\ \A a \in DOMAIN c.accounts : d.accounts[a] = c.accounts[a]
        /\ d.book = c.book /\ d.ata = c.ata /\ d.wrapped = c.wrapped
    <3> HIDE DEF d
    <3>1. QED
      BY <1>1, <2>1, AddedAccount
  <2> HIDE DEF d
  <2>3. Changes(q, c, i, d)
    BY <1>2, <2>1, <2>2 DEF Changes
  <2>4. QED
    BY <2>3 DEF d
<1>3. CASE i.type = "initOpenOrders"
  <2>1. /\ d = [c EXCEPT !.accounts[i.account].oo = i.arg] /\ i.account \in DOMAIN c.accounts
    BY <1>3 DEF Effect, Accepts
  <2> DEFINE acc == [c.accounts[i.account] EXCEPT !.oo = i.arg]
  <2>2. acc \in Account /\ d = [c EXCEPT !.accounts = [@ EXCEPT ![i.account] = acc]]
    BY <1>1, <1>3, <2>1, ChainParts DEF Account
  <2>3. acc.oo = i.arg /\ c.accounts \in [DOMAIN c.accounts -> Account]
    BY <2>1, ChainParts DEF Account
  <2> HIDE DEF acc, d
  <2>4. /\ d \in ChainType /\ DOMAIN d.accounts = DOMAIN c.accounts
        /\ d.accounts[i.account].oo = i.arg
        /\ d.book = c.book /\ d.ata = c.ata /\ d.wrapped = c.wrapped
    <3> DEFINE a == i.account
    <3>1. /\ a \in DOMAIN c.accounts /\ acc \in Account
          /\ d = [c EXCEPT !.accounts = [@ EXCEPT ![a] = acc]]
      BY <2>1, <2>2
    <3> HIDE DEF a
    <3>2. /\ d \in ChainType /\ DOMAIN d.accounts = DOMAIN c.accounts
          /\ d.accounts = [c.accounts EXCEPT ![a] = acc]
          /\ d.book = c.book /\ d.ata = c.ata /\ d.wrapped = c.wrapped
      BY <3>1, ChangedAccount
    <3>3. QED
      BY <2>3, <3>1, <3>2 DEF a
  <2>5. Changes(q, c, i, d)
    BY <1>3, <2>4 DEF Changes
  <2>6. QED
    BY <2>5 DEF d
<1>4. CASE i.type = "place"
  <2>1. /\ d = [c EXCEPT !.book = @ \cup {q}, !.accounts[i.account].slots = @ \cup {q}]
        /\ i.account \in DOMAIN c.accounts
    BY <1>4 DEF Effect, Accepts
  <2> DEFINE acc == [c.accounts[i.account] EXCEPT !.slots = @ \cup {q}]
             e == [c EXCEPT !.book = @ \cup {q}]
  <2>2. /\ e \in ChainType /\ e.accounts = c.accounts /\ e.book = c.book \cup {q}
        /\ e.ata = c.ata /\ e.wrapped = c.wrapped
    BY <1>1 DEF ChainType
  <2>3. acc \in Account /\ d = [e EXCEPT !.accounts = [@ EXCEPT ![i.account] = acc]]
    BY <1>1, <2>1, <2>2, ChainParts DEF Account
  <2> HIDE DEF acc, d, e
  <2>4. /\ d \in ChainType /\ DOMAIN d.accounts = DOMAIN e.accounts
        /\ d.book = e.book /\ d.ata = e.ata /\ d.wrapped = e.wrapped
    <3> DEFINE a == i.account
    <3>1. a \in DOMAIN e.accounts /\ d = [e EXCEPT !.accounts = [@ EXCEPT ![a] = acc]]
      BY <2>1, <2>2, <2>3
    <3> HIDE DEF a
    <3>2. QED
      BY <2>2, <2>3, <3>1, ChangedAccount
  <2>5. Changes(q, c, i, d)
    BY <1>4, <2>2, <2>4 DEF Changes
  <2>6. QED
    BY <2>5 DEF d
<1>5. CASE i.type = "cancel"
  <2>1. /\ d = [c EXCEPT !.book = @ \ {i.arg}] /\ i.account \in DOMAIN c.accounts
        /\ i.arg \in c.book \cap c.accounts[i.account].slots
    BY <1>5 DEF Effect, Accepts
  <2>2. QED
    BY <1>5, <2>1 DEF ChainType, Changes
<1>6. CASE i.type \in {"createWrapped", "closeWrapped", "createAta"}
  <2>1. CASE i.type = "createWrapped"
    <3>1. d = [c EXCEPT !.wrapped = @ \cup {i.arg}]
      BY <2>1 DEF Effect
    <3>2. QED
      BY <1>1, <2>1, <3>1 DEF ChainType, Changes
  <2>2. CASE i.type = "closeWrapped"
    <3>1. d = [c EXCEPT !.wrapped = @ \ {i.arg}]
      BY <2>2 DEF Effect
    <3>2. QED
      BY <1>1, <2>2, <3>1 DEF ChainType, Changes
  <2>3. CASE i.type = "createAta"
    <3>1. d = [c EXCEPT !.ata = TRUE]
      BY <2>3 DEF Effect
    <3>2. QED
      BY <1>1, <2>3, <3>1 DEF ChainType, Changes
  <2>4. QED
    BY <1>6, <2>1, <2>2, <2>3
<1>7. CASE i.type \in {"initMango", "deposit", "withdraw", "settle"}
  <2>1. d = c
    BY <1>7 DEF Effect
  <2>2. QED
    BY <1>7, <2>1 DEF Changes
<1>8. QED
  BY <1>1, <1>2, <1>3, <1>4, <1>5, <1>6, <1>7 DEF InstrTypes
-----------------------------------------------------------------------------
(* A transaction: the instructions of tx, one after the other.             *)
RunStep(x, st, i) ==
  IF st.ok /\ Accepts(st.chain, i) THEN [st EXCEPT !.chain = Effect(x.by, @, i)]
                                   ELSE [st EXCEPT !.ok = FALSE]

Of(tx, k, type) == {j \in 1..k : tx[j].type = type}

(* Wrapped accounts that the first k instructions leave open.              *)
LeftOpen(tx, k) ==
  {tx[j].arg : j \in {j \in Of(tx, k, "createWrapped") :
                        \A l \in Of(tx, k, "closeWrapped") : l > j => tx[l].arg # tx[j].arg}}

OnlyCancels(tx, k) == \A j \in 1..k : tx[j].type \in {"cancel", "settle"}
Cancelled(tx, k) == {tx[j].arg : j \in Of(tx, k, "cancel")}

(* What is known of the chain after k instructions that were accepted.     *)
Ran(x, st, k) ==
  LET c == x.chain
      d == st.chain IN
  /\ st \in [ok : BOOLEAN, chain : ChainType]
  /\ st.ok =>
       /\ DOMAIN c.accounts \subseteq DOMAIN d.accounts
       /\ \A a \in DOMAIN d.accounts \ DOMAIN c.accounts :
            \E j \in 1..k : x.tx[j].type = "createMango"
       /\ Foreign \in c.book => Foreign \in d.book
       /\ d.wrapped \subseteq c.wrapped \cup LeftOpen(x.tx, k)
       /\ OnlyCancels(x.tx, k) => /\ d.accounts = c.accounts
                                  /\ d.book = c.book \ Cancelled(x.tx, k)

Runs == INSTANCE FoldTheorems WITH Step <- RunStep, Keeps <- Ran

LEMMA RunIsFold ==
  ASSUME NEW q, NEW tx, NEW c
  PROVE  Run(q, tx, c) =
           Runs!Over([by |-> q, tx |-> tx, chain |-> c], [ok |-> TRUE, chain |-> c], tx)
<1> DEFINE x == [by |-> q, tx |-> tx, chain |-> c]
<1>1. x.by = q
  OBVIOUS
<1> HIDE DEF x
<1>2. Run(q, tx, c) = Runs!Over(x, [ok |-> TRUE, chain |-> c], tx)
  BY <1>1 DEF Run, FoldLeft, MapThenFoldSet, Max, Runs!Over, Runs!Largest, RunStep
<1>3. QED
  BY <1>2 DEF x

LEMMA RanStep ==
  ASSUME NEW q \in Requests, NEW tx \in Seq(Instr), NEW c \in ChainType
  PROVE  LET x == [by |-> q, tx |-> tx, chain |-> c] IN
         /\ Ran(x, [ok |-> TRUE, chain |-> c], 0)
         /\ \A k \in 1..Len(tx) : \A st :
              Ran(x, st, k - 1) => Ran(x, RunStep(x, st, tx[k]), k)
<1> DEFINE x == [by |-> q, tx |-> tx, chain |-> c]
           base == [ok |-> TRUE, chain |-> c]
           n == Len(tx)
<1>1. x.by = q /\ x.tx = tx /\ x.chain = c /\ base.ok = TRUE /\ base.chain = c
      /\ base \in [ok : BOOLEAN, chain : ChainType]
  OBVIOUS
<1>2. n \in Nat /\ DOMAIN tx = 1..n /\ \A k \in 1..n : tx[k] \in Instr
  OBVIOUS
<1> HIDE DEF x, base, n
<1>3. Foreign \notin Requests
  BY MangoSpotAssumption
<1>4. Ran(x, base, 0)
  <2>1. Cancelled(tx, 0) = {}
    BY DEF Cancelled, Of
  <2>2. QED
    BY <1>1, <2>1 DEF Ran
<1>5. ASSUME NEW k \in 1..n, NEW st, Ran(x, st, k - 1)
      PROVE  Ran(x, RunStep(x, st, tx[k]), k)
  <2> DEFINE i == tx[k]
             d == st.chain
             e == Effect(q, d, i)
             next == RunStep(x, st, i)
  <2>1. st \in [ok : BOOLEAN, chain : ChainType] /\ i \in Instr /\ d \in ChainType
    BY <1>2, <1>5 DEF Ran
  <2>2. CASE ~(st.ok /\ Accepts(d, i))
    <3>1. next = [st EXCEPT !.ok = FALSE]
      BY <2>2 DEF RunStep
    <3>2. next.ok = FALSE /\ next \in [ok : BOOLEAN, chain : ChainType]
      BY <2>1, <3>1
    <3> HIDE DEF next
    <3>3. Ran(x, next, k)
      BY <3>2 DEF Ran
    <3>4. QED
      BY <3>3 DEF next
  <2>3. CASE st.ok /\ Accepts(d, i)
    <3>1. next = [st EXCEPT !.chain = e]
      BY <1>1, <2>3 DEF RunStep
    <3>2. Changes(q, d, i, e) /\ e \in ChainType
      <4> HIDE DEF d, i
      <4>1. Changes(q, d, i, Effect(q, d, i))
        BY <2>1, <2>3, Effects
      <4> HIDE DEF e
      <4>2. Changes(q, d, i, e)
        BY <4>1 DEF e
      <4>3. QED
        BY <4>2 DEF Changes
    <3>3. next.chain = e /\ next \in [ok : BOOLEAN, chain : ChainType]
      BY <2>1, <3>1, <3>2
    <3> HIDE DEF next, e, i, d
    <3>4. \A j \in 1..k : j \in 1..k - 1 \/ j = k
      BY <1>2
    <3>5. k \in 1..k /\ 1..k - 1 \subseteq 1..k
      BY <1>2
    <3>6. /\ DOMAIN c.accounts \subseteq DOMAIN d.accounts
          /\ \A a \in DOMAIN d.accounts \ DOMAIN c.accounts :
               \E j \in 1..k - 1 : tx[j].type = "createMango"
          /\ Foreign \in c.book => Foreign \in d.book
          /\ d.wrapped \subseteq c.wrapped \cup LeftOpen(tx, k - 1)
          /\ OnlyCancels(tx, k - 1) => /\ d.accounts = c.accounts
                                       /\ d.book = c.book \ Cancelled(tx, k - 1)
      BY <1>1, <1>5, <2>3 DEF Ran, d
    <3>7. /\ DOMAIN c.accounts \subseteq DOMAIN e.accounts
          /\ \A a \in DOMAIN e.accounts \ DOMAIN c.accounts :
               \E j \in 1..k : tx[j].type = "createMango"
      <4>1. CASE i.type = "createMango"
        BY <3>2, <3>5, <3>6, <4>1 DEF Changes, i
      <4>2. CASE i.type # "createMango"
        BY <3>2, <3>5, <3>6, <4>2 DEF Changes
      <4>3. QED
        BY <4>1, <4>2
    <3>8. Foreign \in c.book => Foreign \in e.book
      <4>1. i.type = "cancel" => i.arg # Foreign
        <5>1. Foreign \notin Orders
          BY MangoSpotAssumption DEF Orders
        <5>2. QED
          BY <2>1, <3>2, <5>1, ChainParts DEF Changes, d
      <4>2. QED
        BY <3>2, <3>6, <4>1 DEF Changes
    <3>9. e.wrapped \subseteq c.wrapped \cup LeftOpen(tx, k)
      <4>1. \A y \in LeftOpen(tx, k - 1) :
              y \in LeftOpen(tx, k) \/ (i.type = "closeWrapped" /\ i.arg = y)
        <5> SUFFICES ASSUME NEW j \in Of(tx, k - 1, "createWrapped"),
                            \A l \in Of(tx, k - 1, "closeWrapped") :
                              l > j => tx[l].arg # tx[j].arg,
                            ~(i.type = "closeWrapped" /\ i.arg = tx[j].arg)
                     PROVE  tx[j].arg \in LeftOpen(tx, k)
          BY DEF LeftOpen
        <5>1. j \in Of(tx, k, "createWrapped")
          BY <3>5 DEF Of
        <5>2. \A l \in Of(tx, k, "closeWrapped") : l > j => tx[l].arg # tx[j].arg
          BY <3>4 DEF Of, i
        <5>3. QED
          BY <5>1, <5>2 DEF LeftOpen
      <4>2. i.type = "createWrapped" => i.arg \in LeftOpen(tx, k)
        <5> SUFFICES ASSUME i.type = "createWrapped"
                     PROVE  i.arg \in LeftOpen(tx, k)
          OBVIOUS
        <5>1. k \in Of(tx, k, "createWrapped") /\ i.arg = tx[k].arg
          BY <3>5 DEF Of, i
        <5>2. \A l \in Of(tx, k, "closeWrapped") : ~(l > k)
          BY <1>2 DEF Of
        <5>3. QED
          BY <5>1, <5>2 DEF LeftOpen
      <4>3. CASE i.type = "createWrapped"
        BY <3>2, <3>6, <4>1, <4>2, <4>3 DEF Changes
      <4>4. CASE i.type = "closeWrapped"
        BY <3>2, <3>6, <4>1, <4>4 DEF Changes
      <4>5. CASE i.type \notin {"createWrapped", "closeWrapped"}
        BY <3>2, <3>6, <4>1, <4>5 DEF Changes
      <4>6. QED
        BY <4>3, <4>4, <4>5
    <3>10. ASSUME OnlyCancels(tx, k)
           PROVE  e.accounts = c.accounts /\ e.book = c.book \ Cancelled(tx, k)
      <4>1. OnlyCancels(tx, k - 1) /\ i.type \in {"cancel", "settle"}
        BY <3>5, <3>10 DEF OnlyCancels, i
      <4>2. CASE i.type = "cancel"
        <5>1. Cancelled(tx, k) = Cancelled(tx, k - 1) \cup {i.arg}
          BY <3>4, <3>5, <4>2 DEF Cancelled, Of, i
        <5>2. QED
          BY <3>2, <3>6, <4>1, <4>2, <5>1 DEF Changes
      <4>3. CASE i.type = "settle"
        <5>1. Cancelled(tx, k) = Cancelled(tx, k - 1)
          BY <3>4, <3>5, <4>3 DEF Cancelled, Of, i
        <5>2. QED
          BY <3>2, <3>6, <4>1, <4>3, <5>1 DEF Changes
      <4>4. QED
        BY <4>1, <4>2, <4>3
    <3>11. Ran(x, next, k)
      BY <1>1, <3>3, <3>7, <3>8, <3>9, <3>10 DEF Ran
    <3>12. QED
      BY <3>11 DEF next, i
  <2>4. QED
    BY <2>2, <2>3
<1>6. QED
  BY <1>4, <1>5 DEF x, base, n

(* The states a transaction goes through.                                  *)
Trace(q, tx, c, h) ==
  /\ h[0].ok /\ h[0].chain = c
  /\ \A j \in 1..Len(tx) :
       /\ h[j].ok <=> h[j - 1].ok /\ Accepts(h[j - 1].chain, tx[j])
       /\ h[j].ok => Changes(q, h[j - 1].chain, tx[j], h[j].chain)
  /\ \A j \in 0..Len(tx) : Ran([by |-> q, tx |-> tx, chain |-> c], h[j], j)

LEMMA Traced ==
  ASSUME NEW q \in Requests, NEW tx \in Seq(Instr), NEW c \in ChainType
  PROVE  \E h : Trace(q, tx, c, h) /\ Run(q, tx, c) = h[Len(tx)]
<1> DEFINE x == [by |-> q, tx |-> tx, chain |-> c]
           base == [ok |-> TRUE, chain |-> c]
           n == Len(tx)
<1>1. x.by = q /\ base.ok = TRUE /\ base.chain = c
  OBVIOUS
<1>2. n \in Nat /\ DOMAIN tx = 1..n /\ \A k \in 1..n : tx[k] \in Instr
  OBVIOUS
<1> HIDE DEF x, base, n
<1>3. PICK h : Runs!Chain(x, base, tx, n, h) /\ h[n] = Runs!Over(x, base, tx)
  BY <1>2, Runs!FoldIsChain
<1>4. h[0] = base /\ \A j \in 1..n : h[j] = RunStep(x, h[j - 1], tx[j])
  BY <1>2, <1>3 DEF Runs!Chain
<1>5. \A j \in 0..n : Ran(x, h[j], j)
  <2>1. Ran(x, base, 0) /\ \A k \in 1..n : \A st : Ran(x, st, k - 1) => Ran(x, RunStep(x, st, tx[k]), k)
    BY RanStep DEF x, base, n
  <2>2. QED
    BY <1>2, <1>3, <2>1, Runs!ChainKeeps
<1>6. ASSUME NEW j \in 1..n
      PROVE  /\ h[j].ok <=> h[j - 1].ok /\ Accepts(h[j - 1].chain, tx[j])
             /\ h[j].ok => Changes(q, h[j - 1].chain, tx[j], h[j].chain)
  <2> DEFINE st == h[j - 1]
             i == tx[j]
  <2>1. st \in [ok : BOOLEAN, chain : ChainType]
    BY <1>2, <1>5 DEF Ran
  <2>2. h[j] = RunStep(x, st, i) /\ i \in Instr
    BY <1>2, <1>4
  <2> HIDE DEF st, i
  <2>3. CASE st.ok /\ Accepts(st.chain, i)
    <3>1. h[j] = [st EXCEPT !.chain = Effect(q, @, i)]
      BY <1>1, <2>2, <2>3 DEF RunStep
    <3>2. h[j].ok = st.ok /\ h[j].chain = Effect(q, st.chain, i)
      BY <2>1, <3>1
    <3>3. QED
      BY <2>1, <2>2, <2>3, <3>2, Effects DEF st, i
  <2>4. CASE ~(st.ok /\ Accepts(st.chain, i))
    <3>1. h[j] = [st EXCEPT !.ok = FALSE]
      BY <2>2, <2>4 DEF RunStep
    <3>2. h[j].ok = FALSE
      BY <2>1, <3>1
    <3>3. QED
      BY <2>4, <3>2 DEF st, i
  <2>5. QED
    BY <2>3, <2>4
<1>7. Run(q, tx, c) = h[n]
  BY <1>3, RunIsFold DEF x, base
<1>8. Trace(q, tx, c, h)
  BY <1>1, <1>4, <1>5, <1>6 DEF Trace, x, n
<1>9. QED
  BY <1>7, <1>8 DEF n

LEMMA RunRan ==
  ASSUME NEW q \in Requests, NEW tx \in Seq(Instr), NEW c \in ChainType
  PROVE  Ran([by |-> q, tx |-> tx, chain |-> c], Run(q, tx, c), Len(tx))
<1>1. PICK h : Trace(q, tx, c, h) /\ Run(q, tx, c) = h[Len(tx)]
  BY Traced
<1>2. Len(tx) \in 0..Len(tx)
  OBVIOUS
<1>3. QED
  BY <1>1, <1>2 DEF Trace

-----------------------------------------------------------------------------
(* The answers: what the handlers put together is typed, and closes the    *)
(* wrapped accounts it opens.                                              *)
Closes(tx) == LeftOpen(tx, Len(tx)) = {}
Answer(txs) ==
  txs \in Seq(Seq(Instr)) /\ Len(txs) >= 1 /\ \A t \in DOMAIN txs : Closes(txs[t])
CreatesMango(tx) == \E j \in 1..Len(tx) : tx[j].type = "createMango"

LEMMA OneTransaction ==
  ASSUME NEW tx \in Seq(Instr), Closes(tx)
  PROVE  /\ Answer(<<tx>>) /\ Len(<<tx>>) = 1
         /\ \A t \in DOMAIN <<tx>> : <<tx>>[t] = tx
<1> DEFINE T == Seq(Instr)
<1>1. tx \in T
  OBVIOUS
<1> HIDE DEF T
<1>2. <<tx>> \in Seq(T) /\ Len(<<tx>>) = 1 /\ \A t \in DOMAIN <<tx>> : <<tx>>[t] = tx
  BY <1>1
<1>3. QED
  BY <1>2 DEF Answer, T

LEMMA OpensNone ==
  ASSUME NEW tx \in Seq(Instr), \A j \in 1..Len(tx) : tx[j].type # "createWrapped"
  PROVE  Closes(tx)
BY DEF Closes, LeftOpen, Of

LEMMA Instructions ==
  ASSUME NEW type \in InstrTypes, NEW a \in Keys, NEW k \in Keys \cup Orders \cup {Foreign, None},
         type \in {"createWrapped", "initOpenOrders"} => k \in Keys
  PROVE  /\ I(type, a, k) \in Instr /\ I(type, a, k).type = type
         /\ I(type, a, k).account = a /\ I(type, a, k).arg = k
BY DEF I, Instr

(* Something between opening and closing the wrapped account of a request. *)
LEMMA WrappedInstructions ==
  ASSUME NEW q \in Requests, NEW i \in Instr, i.type \in {"deposit", "withdraw"}
  PROVE  LET tx == CreateWrapped(q) \o <<i>> \o CloseWrapped(q) IN
         /\ tx \in Seq(Instr) /\ Len(tx) = 3 /\ Closes(tx) /\ ~CreatesMango(tx)
         /\ tx[1] = I("createWrapped", q, q) /\ tx[2] = i /\ tx[3] = I("closeWrapped", q, q)
<1> DEFINE a == I("createWrapped", q, q)
           b == I("closeWrapped", q, q)
           tx == <<a>> \o <<i>> \o <<b>>
<1>1. /\ a \in Instr /\ a.type = "createWrapped" /\ a.arg = q
      /\ b \in Instr /\ b.type = "closeWrapped" /\ b.arg = q
  BY Instructions DEF InstrTypes, Keys
<1> HIDE DEF a, b
<1>2. /\ tx \in Seq(Instr) /\ Len(tx) = 3 /\ tx[1] = a /\ tx[2] = i /\ tx[3] = b
  BY <1>1
<1> HIDE DEF tx
<1>3. \A j \in 1..3 : j = 1 \/ j = 2 \/ j = 3
  OBVIOUS
<1>4. Closes(tx)
  <2>1. 3 \in Of(tx, 3, "closeWrapped")
    BY <1>1, <1>2 DEF Of
  <2>2. \A j \in Of(tx, 3, "createWrapped") : j = 1 /\ 3 > j /\ tx[3].arg = tx[j].arg
    BY <1>1, <1>2, <1>3 DEF Of
  <2>3. LeftOpen(tx, 3) = {}
    BY <2>1, <2>2 DEF LeftOpen
  <2>4. QED
    BY <1>2, <2>3 DEF Closes
<1>5. ~CreatesMango(tx)
  BY <1>1, <1>2, <1>3 DEF CreatesMango
<1>6. QED
  BY <1>2, <1>4, <1>5 DEF tx, a, b, CreateWrapped, CloseWrapped

LEMMA DepositAnswer ==
  ASSUME NEW q \in Requests, NEW a \in Keys
  PROVE  LET tx == DepositInstructions(q, a) IN
         tx \in Seq(Instr) /\ Len(tx) >= 1 /\ Closes(tx) /\ ~CreatesMango(tx)
<1>1. CASE req[q].kind.sol
  <2>1. /\ I("deposit", a, q) \in Instr /\ I("deposit", a, q).type = "deposit"
    BY Instructions DEF InstrTypes, Keys
  <2>2. DepositInstructions(q, a) = CreateWrapped(q) \o <<I("deposit", a, q)>> \o CloseWrapped(q)
    BY <1>1 DEF DepositInstructions
  <2>3. QED
    BY <2>1, <2>2, WrappedInstructions
<1>2. CASE ~req[q].kind.sol
  <2> DEFINE i == I("deposit", a, None)
             tx == <<i>>
  <2>1. i \in Instr /\ i.type = "deposit"
    BY Instructions DEF InstrTypes
  <2>2. DepositInstructions(q, a) = tx
    BY <1>2 DEF DepositInstructions
  <2> HIDE DEF i
  <2>3. tx \in Seq(Instr) /\ Len(tx) = 1 /\ tx[1] = i
    BY <2>1
  <2> HIDE DEF tx
  <2>4. \A j \in 1..Len(tx) : tx[j].type = "deposit"
    BY <2>1, <2>3
  <2>5. Closes(tx) /\ ~CreatesMango(tx)
    BY <2>3, <2>4, OpensNone DEF CreatesMango
  <2>6. QED
    BY <2>2, <2>3, <2>5
<1>3. QED
  BY <1>1, <1>2

(* Creating the Mango account first leaves nothing open either.            *)
LEMMA CreateThenClose ==
  ASSUME NEW k \in Keys, NEW s \in Seq(Instr), Closes(s)
  PROVE  LET tx == CreateMangoAccount(k) \o s IN
         /\ tx \in Seq(Instr) /\ Len(tx) = Len(s) + 2 /\ Closes(tx)
         /\ tx[1] = I("createMango", k, k) /\ tx[2] = I("initMango", k, k)
         /\ \A j \in 1..Len(s) : tx[j + 2] = s[j]
<1> DEFINE a == I("createMango", k, k)
           b == I("initMango", k, k)
           u == <<a, b>>
           tx == u \o s
           n == Len(s)
<1>1. a \in Instr /\ b \in Instr /\ a.type = "createMango" /\ b.type = "initMango"
  BY Instructions DEF InstrTypes
<1> HIDE DEF a, b
<1>2. u \in Seq(Instr) /\ Len(u) = 2 /\ u[1] = a /\ u[2] = b /\ n \in Nat
  BY <1>1
<1> HIDE DEF u
<1>3. /\ tx \in Seq(Instr) /\ Len(tx) = n + 2 /\ tx[1] = a /\ tx[2] = b
      /\ \A j \in 1..n : tx[j + 2] = s[j]
  <2>1. /\ tx \in Seq(Instr) /\ Len(tx) = 2 + n
        /\ \A j \in 1..2 + n : tx[j] = IF j <= 2 THEN u[j] ELSE s[j - 2]
    <3> HIDE DEF tx
    <3>1. /\ tx \in Seq(Instr) /\ Len(tx) = Len(u) + Len(s)
          /\ \A j \in 1..Len(u) + Len(s) : tx[j] = IF j <= Len(u) THEN u[j] ELSE s[j - Len(u)]
      BY ConcatProperties, <1>2 DEF tx
    <3>2. QED
      BY <1>2, <3>1
  <2> HIDE DEF tx, n
  <2>2. \A j \in 1..n : j + 2 \in 1..2 + n /\ ~(j + 2 <= 2) /\ (j + 2) - 2 = j
    BY <1>2
  <2>3. 1 \in 1..2 + n /\ 2 \in 1..2 + n /\ 1 <= 2
    BY <1>2
  <2>4. tx[1] = a /\ tx[2] = b
    BY <1>2, <2>1, <2>3
  <2>5. \A j \in 1..n : tx[j + 2] = s[j]
    BY <2>1, <2>2
  <2>6. QED
    BY <1>2, <2>1, <2>4, <2>5
<1> HIDE DEF tx, n
<1>4. ASSUME NEW j \in 1..n + 2
      PROVE  j = 1 \/ j = 2 \/ (j - 2 \in 1..n /\ tx[j] = s[j - 2])
  <2>1. j - 2 \in 1..n => (j - 2) + 2 = j
    BY <1>2
  <2>2. QED
    BY <1>2, <1>3, <2>1
<1>5. LeftOpen(tx, n + 2) = {}
  <2> SUFFICES ASSUME NEW j \in Of(tx, n + 2, "createWrapped")
               PROVE  \E l \in Of(tx, n + 2, "closeWrapped") : l > j /\ tx[l].arg = tx[j].arg
    BY DEF LeftOpen
  <2>1. j \in 1..n + 2 /\ tx[j].type = "createWrapped"
    BY DEF Of
  <2>2. j - 2 \in Of(s, n, "createWrapped") /\ tx[j] = s[j - 2]
    BY <1>1, <1>3, <1>4, <2>1 DEF Of
  <2>3. LeftOpen(s, n) = {}
    BY DEF Closes, n
  <2>4. PICK l \in Of(s, n, "closeWrapped") : l > j - 2 /\ s[l].arg = s[j - 2].arg
    BY <2>2, <2>3 DEF LeftOpen
  <2>5. l \in 1..n /\ s[l].type = "closeWrapped" /\ tx[l + 2] = s[l]
    BY <1>3, <2>4 DEF Of
  <2>6. l + 2 \in 1..n + 2 /\ l + 2 > j
    BY <1>2, <2>1, <2>4, <2>5
  <2>7. l + 2 \in Of(tx, n + 2, "closeWrapped")
    BY <2>5, <2>6 DEF Of
  <2>8. QED
    BY <2>2, <2>4, <2>5, <2>6, <2>7
<1>6. QED
  BY <1>3, <1>5 DEF tx, u, a, b, n, CreateMangoAccount, Closes

(* A transaction of one or two instructions that opens nothing.            *)
LEMMA OneInstruction ==
  ASSUME NEW i \in Instr, i.type \notin {"createWrapped", "createMango"}
  PROVE  LET tx == <<i>> IN
         /\ tx \in Seq(Instr) /\ Len(tx) = 1 /\ tx[1] = i
         /\ Closes(tx) /\ ~CreatesMango(tx)
<1> DEFINE tx == <<i>>
<1>1. tx \in Seq(Instr) /\ Len(tx) = 1 /\ tx[1] = i
  OBVIOUS
<1> HIDE DEF tx
<1>2. \A j \in 1..Len(tx) : tx[j] = i
  BY <1>1
<1>3. QED
  BY <1>1, <1>2, OpensNone DEF CreatesMango, tx

LEMMA TwoInstructions ==
  ASSUME NEW i \in Instr, i.type \notin {"createWrapped", "createMango"},
         NEW j \in Instr, j.type \notin {"createWrapped", "createMango"}
  PROVE  LET tx == <<i, j>> IN
         /\ tx \in Seq(Instr) /\ Len(tx) = 2 /\ tx[1] = i /\ tx[2] = j
         /\ Closes(tx) /\ ~CreatesMango(tx)
<1> DEFINE tx == <<i, j>>
<1>1. tx \in Seq(Instr) /\ Len(tx) = 2 /\ tx[1] = i /\ tx[2] = j
  OBVIOUS
<1> HIDE DEF tx
<1>2. \A l \in 1..Len(tx) : tx[l] = i \/ tx[l] = j
  BY <1>1
<1>3. QED
  BY <1>1, <1>2, OpensNone DEF CreatesMango, tx

LEMMA WithdrawAnswer ==
  ASSUME NEW q \in Requests, req[q].key \in Keys
  PROVE  LET tx == WithdrawInstructions(q) IN
         tx \in Seq(Instr) /\ Closes(tx) /\ ~CreatesMango(tx)
<1> DEFINE a == req[q].key
           i == I("withdraw", a, q)
           j == I("withdraw", a, None)
           k == I("createAta", a, None)
<1>1. /\ i \in Instr /\ i.type = "withdraw" /\ j \in Instr /\ j.type = "withdraw"
      /\ k \in Instr /\ k.type = "createAta"
  <2>1. a \in Keys /\ q \in Keys
    BY DEF Keys
  <2> HIDE DEF a
  <2>2. QED
    BY <2>1, Instructions DEF InstrTypes
<1>2. CASE req[q].kind.sol
  <2>1. WithdrawInstructions(q) = CreateWrapped(q) \o <<i>> \o CloseWrapped(q)
    BY <1>2 DEF WithdrawInstructions
  <2> HIDE DEF i
  <2>2. QED
    BY <1>1, <2>1, WrappedInstructions
<1>3. CASE ~req[q].kind.sol /\ chain.ata
  <2>1. WithdrawInstructions(q) = <<>> \o <<j>>
    BY <1>3 DEF WithdrawInstructions
  <2> HIDE DEF j
  <2>2. <<>> \o <<j>> = <<j>>
    OBVIOUS
  <2>3. QED
    BY <1>1, <2>1, <2>2, OneInstruction
<1>4. CASE ~req[q].kind.sol /\ ~chain.ata
  <2>1. WithdrawInstructions(q) = <<k>> \o <<j>>
    BY <1>4 DEF WithdrawInstructions
  <2> DEFINE tx == <<k>> \o <<j>>
  <2> HIDE DEF j, k
  <2>2. tx \in Seq(Instr) /\ Len(tx) = 2 /\ tx[1] = k /\ tx[2] = j
    BY <1>1
  <2> HIDE DEF tx
  <2>3. \A l \in 1..Len(tx) : tx[l] = k \/ tx[l] = j
    BY <2>2
  <2>4. QED
    BY <1>1, <2>1, <2>2, <2>3, OpensNone DEF CreatesMango, tx
<1>5. QED
  BY <1>2, <1>3, <1>4

LEMMA PlaceAnswer ==
  ASSUME NEW q \in Requests, req[q].key \in Keys, NEW acc \in Account
  PROVE  LET tx == PlaceInstructions(q, acc) IN
         tx \in Seq(Instr) /\ Closes(tx) /\ ~CreatesMango(tx)
<1> DEFINE a == req[q].key
           i == I("initOpenOrders", a, q)
           j == I("place", a, q)
           k == I("place", a, acc.oo)
<1>1. /\ i \in Instr /\ i.type = "initOpenOrders" /\ j \in Instr /\ j.type = "place"
      /\ k \in Instr /\ k.type = "place"
  <2>1. a \in Keys /\ q \in Keys /\ acc.oo \in Keys \cup {None}
    BY DEF Keys, Account
  <2> HIDE DEF a
  <2>2. QED
    BY <2>1, Instructions DEF InstrTypes
<1>2. CASE acc.oo = None
  <2>1. PlaceInstructions(q, acc) = <<i, j>>
    BY <1>2 DEF PlaceInstructions
  <2> HIDE DEF i, j
  <2>2. QED
    BY <1>1, <2>1, TwoInstructions
<1>3. CASE acc.oo # None
  <2>1. PlaceInstructions(q, acc) = <<k>>
    BY <1>3 DEF PlaceInstructions
  <2> HIDE DEF k
  <2>2. QED
    BY <1>1, <2>1, OneInstruction
<1>4. QED
  BY <1>2, <1>3

LEMMA SettleAnswer ==
  ASSUME NEW q, req[q].key \in Keys
  PROVE  LET tx == <<I("settle", req[q].key, None)>> IN
         tx \in Seq(Instr) /\ Closes(tx) /\ ~CreatesMango(tx)
<1>1. /\ I("settle", req[q].key, None) \in Instr
      /\ I("settle", req[q].key, None).type = "settle"
  BY Instructions DEF InstrTypes
<1>2. QED
  BY <1>1, OneInstruction

(* The cancellations, however many transactions they are cut into.         *)
LEMMA CancelAnswer ==
  ASSUME NEW q, req[q].key \in Keys, NEW orders \in Seq(Orders \cup {Foreign})
  PROVE  LET txs == Chunks(CancelInstructions(q, orders), Cap) IN
         /\ Answer(txs)
         /\ \A t \in DOMAIN txs : /\ OnlyCancels(txs[t], Len(txs[t]))
                                  /\ ~CreatesMango(txs[t])
         /\ \A o \in ToSet(orders) :
              \E t \in DOMAIN txs : o \in Cancelled(txs[t], Len(txs[t]))
<1> DEFINE a == req[q].key
           n == Len(orders)
           head == [j \in DOMAIN orders |-> I("cancel", a, orders[j])]
           last == I("settle", a, None)
           s == CancelInstructions(q, orders)
           txs == Chunks(s, Cap)
<1>1. /\ n \in Nat /\ DOMAIN orders = 1..n
      /\ \A j \in 1..n : orders[j] \in Orders \cup {Foreign}
  OBVIOUS
<1>2. /\ last \in Instr /\ last.type = "settle"
      /\ \A j \in 1..n : /\ I("cancel", a, orders[j]) \in Instr
                         /\ I("cancel", a, orders[j]).type = "cancel"
                         /\ I("cancel", a, orders[j]).arg = orders[j]
  BY <1>1, Instructions DEF InstrTypes
<1>3. s = Append(head, last)
  BY DEF CancelInstructions
<1> HIDE DEF n, a, last, s
<1>4. /\ head \in Seq(Instr) /\ Len(head) = n
      /\ \A j \in 1..n : head[j].type = "cancel" /\ head[j].arg = orders[j]
  BY <1>1, <1>2
<1> HIDE DEF head
<1>5. /\ s \in Seq(Instr) /\ Len(s) = n + 1 /\ s[n + 1] = last
      /\ \A j \in 1..n : s[j] = head[j]
  BY <1>1, <1>2, <1>3, <1>4
<1>6. Cap \in Nat \ {0}
  BY MangoSpotAssumption
<1>7. /\ \A i \in ToSet(s) : i.type \in {"cancel", "settle"}
      /\ \A o \in ToSet(orders) : \E i \in ToSet(s) : i.type = "cancel" /\ i.arg = o
  <2>1. \A j \in 1..n + 1 : j \in 1..n \/ j = n + 1
    BY <1>1
  <2>2. \A j \in 1..n : j \in 1..n + 1
    BY <1>1
  <2>3. DOMAIN s = 1..n + 1
    BY <1>1, <1>5
  <2>4. QED
    BY <1>1, <1>2, <1>4, <1>5, <2>1, <2>2, <2>3 DEF ToSet
<1>8. /\ txs \in Seq(Seq(Instr)) /\ Len(txs) = Pieces(s, Cap)
      /\ \A t \in DOMAIN txs : ToSet(txs[t]) \subseteq ToSet(s)
      /\ \A i \in ToSet(s) : \E t \in DOMAIN txs : i \in ToSet(txs[t])
  BY <1>5, <1>6, Chunking, ChunksCover
<1>9. Len(txs) >= 1
  <2>1. Len(s) \in Nat /\ Len(s) # 0
    BY <1>1, <1>5
  <2>2. Pieces(s, Cap) \in Nat /\ Pieces(s, Cap) # 0
    BY <1>6, <2>1, Bounds
  <2> HIDE DEF txs
  <2>3. QED
    BY <1>8, <2>2
<1> HIDE DEF txs
<1>10. \A t \in DOMAIN txs : txs[t] \in Seq(Instr)
  <2> DEFINE T == Seq(Instr)
  <2>1. txs \in Seq(T)
    BY <1>8
  <2> HIDE DEF T
  <2>2. \A t \in DOMAIN txs : txs[t] \in T
    BY <2>1
  <2>3. QED
    BY <2>2 DEF T
<1>11. ASSUME NEW t \in DOMAIN txs
       PROVE  \A j \in 1..Len(txs[t]) : txs[t][j] \in ToSet(s)
  <2> DEFINE u == txs[t]
  <2>1. u \in Seq(Instr) /\ ToSet(u) \subseteq ToSet(s)
    BY <1>8, <1>10
  <2> HIDE DEF u
  <2>2. \A j \in 1..Len(u) : u[j] \in ToSet(u)
    BY <2>1 DEF ToSet
  <2>3. \A j \in 1..Len(u) : u[j] \in ToSet(s)
    BY <2>1, <2>2
  <2>4. QED
    BY <2>3 DEF u
<1>12. ASSUME NEW t \in DOMAIN txs
       PROVE  /\ OnlyCancels(txs[t], Len(txs[t])) /\ ~CreatesMango(txs[t])
              /\ Closes(txs[t])
  <2>1. \A j \in 1..Len(txs[t]) : txs[t][j].type \in {"cancel", "settle"}
    BY <1>7, <1>11
  <2>2. QED
    BY <1>10, <2>1, OpensNone DEF OnlyCancels, CreatesMango
<1>13. ASSUME NEW o \in ToSet(orders)
       PROVE  \E t \in DOMAIN txs : o \in Cancelled(txs[t], Len(txs[t]))
  <2>1. PICK i \in ToSet(s) : i.type = "cancel" /\ i.arg = o
    BY <1>7
  <2>2. PICK t \in DOMAIN txs : i \in ToSet(txs[t])
    BY <1>8
  <2>3. txs[t] \in Seq(Instr)
    BY <1>10
  <2>4. PICK j \in 1..Len(txs[t]) : txs[t][j] = i
    BY <2>2, <2>3 DEF ToSet
  <2>5. j \in Of(txs[t], Len(txs[t]), "cancel")
    BY <2>1, <2>4 DEF Of
  <2>6. QED
    BY <2>1, <2>4, <2>5 DEF Cancelled
<1>14. QED
  BY <1>8, <1>9, <1>12, <1>13 DEF Answer, txs, s

-----------------------------------------------------------------------------
(* The requests.  What is left to cancel is listed in what is left to      *)
(* submit, as long as nobody interferes.                                   *)
RequestType ==
  [pc : PCs, kind : Kind, group : BOOLEAN, key : Keys, account : Account,
   txs : Seq(Seq(Instr)), next : Nat]

CancelsRest(txs, n, k, c) ==
  /\ k \in DOMAIN c.accounts
  /\ \A t \in DOMAIN txs : OnlyCancels(txs[t], Len(txs[t]))
  /\ \A o \in c.accounts[k].slots \cap c.book :
       \E t \in n..Len(txs) : o \in Cancelled(txs[t], Len(txs[t]))

AsksAll(r) == r.kind.op = "cancel" /\ r.kind.order = None
CancelsAll(r, c) ==
  /\ r.pc \in {"market", "book"} =>
       c.accounts[r.key].slots \cap c.book \subseteq r.account.slots
  /\ r.pc = "submitting" => CancelsRest(r.txs, r.next, r.key, c)

(* The handler has found the account it works on.                          *)
Known(r) ==
  r.pc \in {"account", "ata"} \/ (r.pc \in {"market", "book"} /\ r.kind.op # "place")

(* A request r that began on the chain b, on the chain c; d: disturbed.    *)
RequestOK(r, b, c, d) ==
  /\ r.pc # "submitting" => r.txs = <<>> /\ r.next = 1
  /\ r.pc = "submitting" => r.next \in 1..Len(r.txs) /\ Answer(r.txs)
  /\ r.pc # "idle" => DOMAIN b.accounts \subseteq DOMAIN c.accounts
  /\ (r.pc = "submitting" /\ \E t \in DOMAIN r.txs : CreatesMango(r.txs[t])) =>
       DOMAIN b.accounts = {}
  /\ r.pc = "account" => r.kind.op # "deposit"
  /\ r.pc = "ata" => r.kind.op = "withdraw"
  /\ r.pc = "market" => r.kind.op \in {"place", "settle", "cancel"}
  /\ Known(r) => r.key \in DOMAIN c.accounts
  /\ (~d /\ AsksAll(r)) => CancelsAll(r, c)

Typed ==
  /\ chain \in ChainType /\ chain.wrapped = {}
  /\ Sent \subseteq Requests
  /\ req \in [Sent -> RequestType]
  /\ begun \in [Sent -> ChainType] /\ disturbed \in [Sent -> BOOLEAN]

SpotInv == Typed /\ \A q \in Sent : RequestOK(req[q], begun[q], chain, disturbed[q])

LEMMA InvGives == SpotInv => TypeOK
<1> SUFFICES ASSUME SpotInv
             PROVE  TypeOK
  OBVIOUS
<1>1. /\ chain.accounts \in [DOMAIN chain.accounts -> Account]
      /\ DOMAIN chain.accounts \subseteq Keys
      /\ chain.book \subseteq Orders \cup {Foreign} /\ chain.wrapped \subseteq Keys
      /\ chain.ata \in BOOLEAN
  BY ChainParts DEF SpotInv, Typed
<1>2. ASSUME NEW q \in Sent
      PROVE  /\ req[q].pc \in PCs /\ req[q].kind \in Kind /\ req[q].group \in BOOLEAN
             /\ req[q].key \in Keys /\ req[q].account \in Account
             /\ req[q].next \in 1..Len(req[q].txs) + 1
  <2> DEFINE r == req[q]
             T == Seq(Instr)
  <2>1. r \in RequestType /\ r.txs \in Seq(T)
    BY DEF SpotInv, Typed, RequestType
  <2> HIDE DEF T
  <2>2. Len(r.txs) \in Nat /\ (r.txs = <<>> => Len(r.txs) = 0)
    BY <2>1
  <2>3. RequestOK(r, begun[q], chain, disturbed[q])
    BY DEF SpotInv
  <2> HIDE DEF r
  <2>4. r.next \in 1..Len(r.txs) + 1
    BY <2>2, <2>3 DEF RequestOK
  <2>5. QED
    BY <2>1, <2>4 DEF RequestType, r
<1>3. QED
  BY <1>1, <1>2 DEF SpotInv, Typed, TypeOK, Sent

(* A request moves on while the chain stands still.                        *)
LEMMA OwnStep ==
  ASSUME SpotInv, NEW q \in Sent, NEW r \in RequestType,
         req' = [req EXCEPT ![q] = r], chain' = chain,
         begun' \in [Sent -> ChainType], disturbed' \in [Sent -> BOOLEAN],
         \A p \in Sent \ {q} : begun'[p] = begun[p] /\ disturbed'[p] = disturbed[p],
         RequestOK(r, begun'[q], chain, disturbed'[q])
  PROVE  SpotInv'
<1>1. Typed /\ \A p \in Sent : RequestOK(req[p], begun[p], chain, disturbed[p])
  BY DEF SpotInv
<1>2. Sent' = Sent /\ req'[q] = r /\ \A p \in Sent \ {q} : req'[p] = req[p]
  BY <1>1 DEF Typed, Sent
<1>3. Typed'
  BY <1>1, <1>2 DEF Typed
<1>4. ASSUME NEW p \in Sent
      PROVE  RequestOK(req'[p], begun'[p], chain', disturbed'[p])
  BY <1>1, <1>2
<1>5. QED
  BY <1>2, <1>3, <1>4 DEF SpotInv

(* A finished request asks nothing more of the chain.                      *)
LEMMA Ended ==
  ASSUME NEW k \in Kind, NEW end \in {"executed", "aborted", "error500"},
         NEW b, NEW c, NEW d, DOMAIN b.accounts \subseteq DOMAIN c.accounts
  PROVE  LET r == [Idle(k) EXCEPT !.pc = end] IN
         r \in RequestType /\ r.pc = end /\ RequestOK(r, b, c, d)
<1> DEFINE i == Idle(k)
           r == [i EXCEPT !.pc = end]
           T == Seq(Instr)
<1>1. /\ i \in [pc : PCs, kind : Kind, group : BOOLEAN, key : Keys, account : Account,
                txs : Seq(T), next : Nat]
      /\ i.txs = <<>> /\ i.next = 1
  <2>1. NewAccount \in Account
    BY DEF NewAccount, Account
  <2>2. "old" \in Keys /\ "idle" \in PCs
    BY DEF Keys, PCs
  <2> HIDE DEF T
  <2>3. <<>> \in Seq(T)
    OBVIOUS
  <2>4. QED
    BY <2>1, <2>2, <2>3 DEF Idle
<1>2. end \in PCs
  BY DEF PCs
<1> HIDE DEF i, T
<1>3. /\ r \in [pc : PCs, kind : Kind, group : BOOLEAN, key : Keys, account : Account,
                txs : Seq(T), next : Nat]
      /\ r.pc = end /\ r.txs = <<>> /\ r.next = 1
  BY <1>1, <1>2
<1> HIDE DEF r
<1>4. RequestOK(r, b, c, d)
  BY <1>3 DEF RequestOK, Known, CancelsAll
<1>5. r \in RequestType
  BY <1>3 DEF RequestType, T
<1>6. QED
  BY <1>3, <1>4, <1>5 DEF r, i

(* An answer is kept with what is known of it.                             *)
LEMMA Answered ==
  ASSUME SpotInv, NEW q \in Sent, NEW txs, Answer(txs), AnswerWith(q, txs),
         req[q].pc # "idle", UNCHANGED <<chain, begun, disturbed>>,
         (\E t \in DOMAIN txs : CreatesMango(txs[t])) => DOMAIN begun[q].accounts = {},
         AsksAll(req[q]) /\ ~disturbed[q] => CancelsRest(txs, 1, req[q].key, chain)
  PROVE  SpotInv'
<1> DEFINE k == req[q].kind
           i == Idle(k)
           s == [i EXCEPT !.pc = "submitting", !.key = req[q].key, !.txs = txs]
           e == [i EXCEPT !.pc = "error500"]
           T == Seq(Instr)
<1>1. /\ req \in [Sent -> RequestType] /\ req[q] \in RequestType
      /\ begun \in [Sent -> ChainType] /\ disturbed \in [Sent -> BOOLEAN]
      /\ DOMAIN begun[q].accounts \subseteq DOMAIN chain.accounts
  BY DEF SpotInv, Typed, RequestOK
<1>2. k \in Kind /\ req[q].key \in Keys
  BY <1>1 DEF RequestType
<1>3. CASE req[q].group
  <2>1. req' = [req EXCEPT ![q] = s]
    BY <1>1, <1>3 DEF AnswerWith
  <2>2. txs \in Seq(T) /\ Len(txs) >= 1
    BY DEF Answer
  <2>3. i \in [pc : PCs, kind : Kind, group : BOOLEAN, key : Keys, account : Account,
               txs : Seq(T), next : Nat] /\ i.next = 1 /\ i.kind = k
    <3>1. NewAccount \in Account
      BY DEF NewAccount, Account
    <3>2. "old" \in Keys /\ "idle" \in PCs
      BY DEF Keys, PCs
    <3> HIDE DEF T, k
    <3>3. <<>> \in Seq(T)
      OBVIOUS
    <3>4. QED
      BY <1>2, <3>1, <3>2, <3>3 DEF Idle
  <2>4. "submitting" \in PCs
    BY DEF PCs
  <2> HIDE DEF i, T
  <2>5. /\ s \in [pc : PCs, kind : Kind, group : BOOLEAN, key : Keys, account : Account,
                  txs : Seq(T), next : Nat]
        /\ s.pc = "submitting" /\ s.txs = txs /\ s.next = 1 /\ s.kind = k
        /\ s.key = req[q].key
    BY <1>2, <2>2, <2>3, <2>4
  <2>6. Len(txs) \in Nat
    BY <2>2
  <2> HIDE DEF s
  <2>7. AsksAll(s) = AsksAll(req[q])
    BY <2>5 DEF AsksAll
  <2>8. AsksAll(s) /\ ~disturbed[q] => CancelsAll(s, chain)
    BY <2>5, <2>7 DEF CancelsAll
  <2>9. RequestOK(s, begun[q], chain, disturbed[q])
    BY <1>1, <2>2, <2>5, <2>6, <2>8 DEF RequestOK, Known
  <2>10. s \in RequestType
    BY <2>5 DEF RequestType, T
  <2>11. QED
    BY <1>1, <2>1, <2>9, <2>10, OwnStep
<1>4. CASE ~req[q].group
  <2>1. req' = [req EXCEPT ![q] = e]
    BY <1>1, <1>4 DEF AnswerWith, Finish
  <2>2. e \in RequestType /\ RequestOK(e, begun[q], chain, disturbed[q])
    BY <1>1, <1>2, Ended
  <2> HIDE DEF e
  <2>3. QED
    BY <1>1, <2>1, <2>2, OwnStep
<1>5. QED
  BY <1>3, <1>4

(* A request that ends without the chain's help.                           *)
LEMMA Finished ==
  ASSUME SpotInv, NEW q \in Sent, req[q].pc # "idle",
         NEW end \in {"executed", "aborted", "error500"}, Finish(q, end),
         UNCHANGED <<chain, begun>>, disturbed' \in [Sent -> BOOLEAN],
         \A p \in Sent \ {q} : disturbed'[p] = disturbed[p]
  PROVE  SpotInv'
<1> DEFINE e == [Idle(req[q].kind) EXCEPT !.pc = end]
<1>1. /\ req \in [Sent -> RequestType] /\ req[q].kind \in Kind
      /\ begun \in [Sent -> ChainType]
      /\ DOMAIN begun[q].accounts \subseteq DOMAIN chain.accounts
  BY DEF SpotInv, Typed, RequestOK, RequestType
<1>2. req' = [req EXCEPT ![q] = e]
  BY <1>1 DEF Finish
<1>3. e \in RequestType /\ RequestOK(e, begun[q], chain, disturbed'[q])
  BY <1>1, Ended
<1> HIDE DEF e
<1>4. QED
  BY <1>1, <1>2, <1>3, OwnStep

-----------------------------------------------------------------------------
(* What each step keeps.  First the reads.                                 *)
LEMMA BeginKeeps ==
  ASSUME SpotInv, NEW q \in Sent, Begin(q)
  PROVE  SpotInv'
<1> DEFINE x == req[q]
           new == CASE Op(q) \in {"deposit", "withdraw"} -> "bank"
                    [] Op(q) = "place" -> "market"
                    [] OTHER -> "accounts"
           r == [x EXCEPT !.pc = new]
<1>1. /\ req \in [Sent -> RequestType] /\ begun \in [Sent -> ChainType]
      /\ disturbed \in [Sent -> BOOLEAN] /\ chain \in ChainType
      /\ x \in RequestType /\ RequestOK(x, begun[q], chain, disturbed[q])
  BY DEF SpotInv, Typed
<1>2. req' = [req EXCEPT ![q] = r] /\ x.pc = "idle"
  BY <1>1 DEF Begin, Goto
<1>3. new \in {"bank", "market", "accounts"} /\ (new = "market" => x.kind.op = "place")
  BY DEF Op
<1> HIDE DEF new, x
<1>4. /\ r \in RequestType /\ r.pc = new /\ r.txs = x.txs /\ r.next = x.next
      /\ r.kind = x.kind
  BY <1>1, <1>3 DEF RequestType, PCs
<1> HIDE DEF r
<1>5. AsksAll(r) => CancelsAll(r, chain)
  BY <1>3, <1>4 DEF AsksAll, CancelsAll
<1>6. RequestOK(r, chain, chain, disturbed[q])
  BY <1>1, <1>2, <1>3, <1>4, <1>5 DEF RequestOK, Known
<1>7. /\ begun' \in [Sent -> ChainType] /\ begun'[q] = chain
      /\ \A p \in Sent \ {q} : begun'[p] = begun[p]
      /\ chain' = chain /\ disturbed' = disturbed
  BY <1>1 DEF Begin
<1>8. QED
  BY <1>1, <1>2, <1>4, <1>6, <1>7, OwnStep

(* A read after which the request only goes on to the next.                *)
LEMMA ReadStep ==
  ASSUME SpotInv, NEW q \in Sent, NEW r \in RequestType,
         req' = [req EXCEPT ![q] = r], UNCHANGED <<chain, begun, disturbed>>,
         req[q].pc \in PCs \ {"idle", "submitting"},
         r.pc \in {"source", "accounts", "account", "ata", "market", "book"},
         r.kind = req[q].kind, r.txs = req[q].txs, r.next = req[q].next,
         r.pc = "account" => r.kind.op # "deposit",
         r.pc = "ata" => r.kind.op = "withdraw",
         r.pc = "market" => r.kind.op \in {"place", "settle", "cancel"},
         Known(r) => r.key \in DOMAIN chain.accounts,
         AsksAll(r) /\ r.pc \in {"market", "book"} /\ ~disturbed[q] =>
           chain.accounts[r.key].slots \cap chain.book \subseteq r.account.slots
  PROVE  SpotInv'
<1>1. /\ begun \in [Sent -> ChainType] /\ disturbed \in [Sent -> BOOLEAN]
      /\ RequestOK(req[q], begun[q], chain, disturbed[q])
  BY DEF SpotInv, Typed
<1>2. AsksAll(r) /\ ~disturbed[q] => CancelsAll(r, chain)
  BY DEF CancelsAll
<1>3. RequestOK(r, begun[q], chain, disturbed[q])
  BY <1>1, <1>2 DEF RequestOK
<1>4. QED
  BY <1>1, <1>3, OwnStep

(* A request that only changes place.                                      *)
LEMMA GotoStep ==
  ASSUME SpotInv, NEW q \in Sent,
         NEW pc \in {"source", "accounts", "account", "ata", "market", "book"},
         Goto(q, pc), UNCHANGED <<chain, begun, disturbed>>,
         req[q].pc \in PCs \ {"idle", "submitting"},
         pc = "account" => req[q].kind.op # "deposit",
         pc = "ata" => req[q].kind.op = "withdraw",
         pc = "market" => req[q].kind.op = "place",
         pc \in {"account", "ata", "book"} => Known(req[q]),
         pc = "book" => req[q].pc = "market"
  PROVE  SpotInv'
<1> DEFINE x == req[q]
           r == [x EXCEPT !.pc = pc]
<1>1. /\ req \in [Sent -> RequestType] /\ x \in RequestType
      /\ RequestOK(x, begun[q], chain, disturbed[q])
  BY DEF SpotInv, Typed
<1>2. req' = [req EXCEPT ![q] = r]
  BY <1>1 DEF Goto
<1>3. /\ x.pc \in PCs \ {"idle", "submitting"}
      /\ pc = "account" => x.kind.op # "deposit"
      /\ pc = "ata" => x.kind.op = "withdraw"
      /\ pc = "market" => x.kind.op = "place"
      /\ pc \in {"account", "ata", "book"} => Known(x)
      /\ pc = "book" => x.pc = "market"
  OBVIOUS
<1> HIDE DEF x
<1>4. /\ r \in RequestType /\ r.pc = pc /\ r.txs = x.txs /\ r.next = x.next
      /\ r.kind = x.kind /\ r.key = x.key /\ r.account = x.account
  BY <1>1 DEF RequestType, PCs
<1> HIDE DEF r
<1>5. Known(r) => r.key \in DOMAIN chain.accounts
  BY <1>1, <1>3, <1>4 DEF Known, RequestOK
<1>6. AsksAll(r) /\ r.pc \in {"market", "book"} /\ ~disturbed[q] =>
           chain.accounts[r.key].slots \cap chain.book \subseteq r.account.slots
  BY <1>1, <1>3, <1>4 DEF AsksAll, RequestOK, CancelsAll
<1>7. QED
  BY <1>2, <1>3, <1>4, <1>5, <1>6, ReadStep DEF x

LEMMA BankLoadedKeeps ==
  ASSUME SpotInv, NEW q \in Sent, BankLoaded(q)
  PROVE  SpotInv'
<1> DEFINE x == req[q]
           new == IF Op(q) = "deposit" THEN "source" ELSE "accounts"
           r == [x EXCEPT !.group = TRUE, !.pc = new]
<1>1. req \in [Sent -> RequestType] /\ x \in RequestType
  BY DEF SpotInv, Typed
<1>2. /\ req' = [req EXCEPT ![q] = r] /\ x.pc = "bank"
      /\ UNCHANGED <<chain, begun, disturbed>>
  BY <1>1 DEF BankLoaded
<1>3. new \in {"source", "accounts"}
  OBVIOUS
<1>4. x.pc \in PCs \ {"idle", "submitting"}
  BY <1>2 DEF PCs
<1> HIDE DEF x, new
<1>5. /\ r \in RequestType /\ r.pc = new /\ r.txs = x.txs /\ r.next = x.next
      /\ r.kind = x.kind
  BY <1>1, <1>3 DEF RequestType, PCs
<1> HIDE DEF r
<1>6. ~Known(r)
  BY <1>3, <1>5 DEF Known
<1>7. QED
  BY <1>2, <1>3, <1>4, <1>5, <1>6, ReadStep DEF x

LEMMA SourceLoadedKeeps ==
  ASSUME SpotInv, NEW q \in Sent, SourceLoaded(q)
  PROVE  SpotInv'
<1>1. req[q].pc = "source" /\ UNCHANGED <<chain, begun, disturbed>>
  BY DEF SourceLoaded
<1>2. CASE Goto(q, "accounts")
  BY <1>1, <1>2, GotoStep DEF PCs
<1>3. CASE Finish(q, "error500")
  <2>1. disturbed \in [Sent -> BOOLEAN]
    BY DEF SpotInv, Typed
  <2>2. QED
    BY <1>1, <1>3, <2>1, Finished
<1>4. QED
  BY <1>2, <1>3 DEF SourceLoaded

(* The Mango account is created only for a wallet that had none.           *)
LEMMA AccountsLoadedKeeps ==
  ASSUME SpotInv, NEW q \in Sent, AccountsLoaded(q)
  PROVE  SpotInv'
<1> DEFINE x == req[q]
<1>1. /\ req \in [Sent -> RequestType] /\ x \in RequestType
      /\ disturbed \in [Sent -> BOOLEAN] /\ chain \in ChainType
      /\ RequestOK(x, begun[q], chain, disturbed[q]) /\ q \in Requests
  BY DEF SpotInv, Typed
<1>2. x.pc = "accounts" /\ UNCHANGED <<chain, begun, disturbed>>
  BY DEF AccountsLoaded
<1>3. Listed(q) \subseteq DOMAIN chain.accounts /\ DOMAIN chain.accounts \subseteq Keys
  BY <1>1, ChainParts DEF Listed
<1>4. DOMAIN begun[q].accounts \subseteq DOMAIN chain.accounts
  BY <1>1, <1>2 DEF RequestOK
<1>5. CASE /\ Op(q) = "deposit" /\ DOMAIN chain.accounts = {}
           /\ AnswerWith(q, <<CreateMangoAccount(q) \o DepositInstructions(q, q)>>)
  <2> DEFINE s == DepositInstructions(q, q)
             tx == CreateMangoAccount(q) \o s
  <2>1. q \in Keys
    BY <1>1 DEF Keys
  <2>2. s \in Seq(Instr) /\ Closes(s)
    BY <1>1, <2>1, DepositAnswer
  <2> HIDE DEF s
  <2>3. tx \in Seq(Instr) /\ Closes(tx)
    BY <2>1, <2>2, CreateThenClose
  <2> HIDE DEF tx
  <2>4. Answer(<<tx>>)
    BY <2>3, OneTransaction
  <2>5. ~AsksAll(x)
    BY <1>5 DEF AsksAll, Op
  <2>6. AnswerWith(q, <<tx>>) /\ DOMAIN begun[q].accounts = {}
    BY <1>4, <1>5 DEF tx, s
  <2>7. QED
    BY <1>2, <2>4, <2>5, <2>6, Answered
<1>6. CASE /\ Op(q) = "deposit"
           /\ \E a \in Listed(q) : AnswerWith(q, <<DepositInstructions(q, a)>>)
  <2>1. PICK a \in Listed(q) : AnswerWith(q, <<DepositInstructions(q, a)>>)
    BY <1>6
  <2> DEFINE tx == DepositInstructions(q, a)
  <2>2. tx \in Seq(Instr) /\ Closes(tx) /\ ~CreatesMango(tx)
    BY <1>1, <1>3, <2>1, DepositAnswer
  <2>3. AnswerWith(q, <<tx>>) /\ ~AsksAll(x)
    BY <1>6, <2>1 DEF AsksAll, Op
  <2> HIDE DEF tx
  <2>4. Answer(<<tx>>) /\ \A t \in DOMAIN <<tx>> : <<tx>>[t] = tx
    BY <2>2, OneTransaction
  <2>5. ~\E t \in DOMAIN <<tx>> : CreatesMango(<<tx>>[t])
    BY <2>2, <2>4
  <2>6. QED
    BY <1>2, <2>3, <2>4, <2>5, Answered
<1>7. CASE /\ Op(q) # "deposit"
           /\ \E a \in Listed(q) : req' = [req EXCEPT ![q].group = TRUE, ![q].key = a,
                                                    ![q].pc = "account"]
  <2>1. PICK a \in Listed(q) : req' = [req EXCEPT ![q].group = TRUE, ![q].key = a,
                                                 ![q].pc = "account"]
    BY <1>7
  <2> DEFINE r == [x EXCEPT !.group = TRUE, !.key = a, !.pc = "account"]
  <2>2. req' = [req EXCEPT ![q] = r] /\ a \in Keys /\ a \in DOMAIN chain.accounts
    BY <1>1, <1>3, <2>1
  <2>3. x.pc \in PCs \ {"idle", "submitting"} /\ x.kind.op # "deposit"
    BY <1>2, <1>7 DEF PCs, Op
  <2> HIDE DEF x
  <2>4. /\ r \in RequestType /\ r.pc = "account" /\ r.txs = x.txs /\ r.next = x.next
        /\ r.kind = x.kind /\ r.key = a
    BY <1>1, <2>2 DEF RequestType, PCs
  <2> HIDE DEF r
  <2>5. QED
    BY <1>2, <2>2, <2>3, <2>4, ReadStep DEF x
<1>8. CASE Finish(q, "error500")
  BY <1>1, <1>2, <1>8, Finished
<1>9. QED
  BY <1>5, <1>6, <1>7, <1>8 DEF AccountsLoaded

(* An answer of one transaction that creates no Mango account.             *)
LEMMA OneAnswered ==
  ASSUME SpotInv, NEW q \in Sent, NEW tx \in Seq(Instr), Closes(tx), ~CreatesMango(tx),
         AnswerWith(q, <<tx>>), req[q].pc # "idle", UNCHANGED <<chain, begun, disturbed>>,
         ~AsksAll(req[q])
  PROVE  SpotInv'
<1>1. Answer(<<tx>>) /\ \A t \in DOMAIN <<tx>> : <<tx>>[t] = tx
  BY OneTransaction
<1>2. ~\E t \in DOMAIN <<tx>> : CreatesMango(<<tx>>[t])
  BY <1>1
<1>3. QED
  BY <1>1, <1>2, Answered

LEMMA AccountLoadedKeeps ==
  ASSUME SpotInv, NEW q \in Sent, AccountLoaded(q)
  PROVE  SpotInv'
<1> DEFINE x == req[q]
           acc == chain.accounts[x.key]
<1>1. /\ req \in [Sent -> RequestType] /\ x \in RequestType
      /\ disturbed \in [Sent -> BOOLEAN] /\ chain \in ChainType
      /\ RequestOK(x, begun[q], chain, disturbed[q]) /\ q \in Requests
  BY DEF SpotInv, Typed
<1>2. x.pc = "account" /\ UNCHANGED <<chain, begun, disturbed>>
  BY DEF AccountLoaded
<1>3. x.key \in DOMAIN chain.accounts /\ x.kind.op # "deposit" /\ x.kind.op \in Ops
  BY <1>1, <1>2 DEF RequestOK, Known, RequestType, Kind
<1>4. acc \in Account /\ x.key \in Keys
  BY <1>1, <1>3, ChainParts
<1>5. x.pc \in PCs \ {"idle", "submitting"} /\ Known(x)
  BY <1>2 DEF PCs, Known
<1>6. CASE x.kind.op = "withdraw"
  <2>1. Goto(q, "ata")
    BY <1>6 DEF AccountLoaded, Op
  <2>2. QED
    BY <1>2, <1>5, <1>6, <2>1, GotoStep
<1>7. CASE x.kind.op = "place" /\ x.kind.valid
  <2> DEFINE tx == PlaceInstructions(q, acc)
  <2>1. AnswerWith(q, <<tx>>)
    BY <1>7 DEF AccountLoaded, Op
  <2>2. tx \in Seq(Instr) /\ Closes(tx) /\ ~CreatesMango(tx)
    BY <1>1, <1>4, PlaceAnswer
  <2>3. ~AsksAll(x)
    BY <1>7 DEF AsksAll
  <2> HIDE DEF tx
  <2>4. QED
    BY <1>2, <2>1, <2>2, <2>3, OneAnswered
<1>8. CASE x.kind.op = "place" /\ ~x.kind.valid
  <2>1. Finish(q, "error500")
    BY <1>8 DEF AccountLoaded, Op
  <2>2. QED
    BY <1>1, <1>2, <2>1, Finished
<1>9. CASE x.kind.op \in {"cancel", "settle"}
  <2> DEFINE r == [x EXCEPT !.pc = "market", !.account = acc]
  <2>1. req' = [req EXCEPT ![q].pc = "market", ![q].account = acc]
    BY <1>9 DEF AccountLoaded, Op
  <2>2. req' = [req EXCEPT ![q] = r]
    BY <1>1, <2>1
  <2> HIDE DEF x, acc
  <2>3. /\ r \in RequestType /\ r.pc = "market" /\ r.txs = x.txs /\ r.next = x.next
        /\ r.kind = x.kind /\ r.key = x.key /\ r.account = acc
    BY <1>1, <1>4 DEF RequestType, PCs
  <2> HIDE DEF r
  <2>4. chain.accounts[r.key].slots \cap chain.book \subseteq r.account.slots
    BY <2>3 DEF acc
  <2>5. QED
    BY <1>2, <1>3, <1>5, <1>9, <2>2, <2>3, <2>4, ReadStep DEF x
<1>10. QED
  BY <1>3, <1>6, <1>7, <1>8, <1>9 DEF Ops

LEMMA AtaLoadedKeeps ==
  ASSUME SpotInv, NEW q \in Sent, AtaLoaded(q)
  PROVE  SpotInv'
<1> DEFINE tx == WithdrawInstructions(q)
<1>1. /\ req[q] \in RequestType /\ q \in Requests
      /\ RequestOK(req[q], begun[q], chain, disturbed[q])
  BY DEF SpotInv, Typed
<1>2. req[q].pc = "ata" /\ UNCHANGED <<chain, begun, disturbed>> /\ AnswerWith(q, <<tx>>)
  BY DEF AtaLoaded
<1>3. tx \in Seq(Instr) /\ Closes(tx) /\ ~CreatesMango(tx)
  BY <1>1, WithdrawAnswer DEF RequestType
<1>4. ~AsksAll(req[q])
  BY <1>1, <1>2 DEF RequestOK, AsksAll
<1> HIDE DEF tx
<1>5. QED
  BY <1>2, <1>3, <1>4, OneAnswered

LEMMA MarketLoadedKeeps ==
  ASSUME SpotInv, NEW q \in Sent, MarketLoaded(q)
  PROVE  SpotInv'
<1> DEFINE x == req[q]
<1>1. /\ x \in RequestType /\ disturbed \in [Sent -> BOOLEAN]
      /\ RequestOK(x, begun[q], chain, disturbed[q])
  BY DEF SpotInv, Typed
<1>2. x.pc = "market" /\ UNCHANGED <<chain, begun, disturbed>>
  BY DEF MarketLoaded
<1>3. x.kind.op \in {"place", "settle", "cancel"}
  BY <1>1, <1>2 DEF RequestOK
<1>4. x.pc \in PCs \ {"idle", "submitting"}
  BY <1>2 DEF PCs
<1>5. CASE x.kind.op = "place"
  <2>1. Goto(q, "accounts")
    BY <1>5 DEF MarketLoaded, Op
  <2>2. QED
    BY <1>2, <1>4, <2>1, GotoStep
<1>6. CASE x.kind.op = "settle"
  <2> DEFINE tx == <<I("settle", x.key, None)>>
  <2>1. AnswerWith(q, <<tx>>)
    BY <1>6 DEF MarketLoaded, Op
  <2>2. tx \in Seq(Instr) /\ Closes(tx) /\ ~CreatesMango(tx)
    BY <1>1, SettleAnswer DEF RequestType
  <2>3. ~AsksAll(x)
    BY <1>6 DEF AsksAll
  <2> HIDE DEF tx
  <2>4. QED
    BY <1>2, <2>1, <2>2, <2>3, OneAnswered
<1>7. CASE x.kind.op = "cancel" /\ x.account.oo = None
  <2>1. Finish(q, "error500")
    BY <1>7 DEF MarketLoaded, Op
  <2>2. QED
    BY <1>1, <1>2, <2>1, Finished
<1>8. CASE x.kind.op = "cancel" /\ x.account.oo # None
  <2>1. Goto(q, "book")
    BY <1>8 DEF MarketLoaded, Op
  <2>2. Known(x)
    BY <1>2, <1>8 DEF Known
  <2>3. QED
    BY <1>2, <1>4, <2>1, <2>2, GotoStep
<1>9. QED
  BY <1>3, <1>5, <1>6, <1>7, <1>8

(* What is not cancelled any more was not the account's, or not there.     *)
LEMMA BookLoadedKeeps ==
  ASSUME SpotInv, NEW q \in Sent, BookLoaded(q)
  PROVE  SpotInv'
<1> DEFINE x == req[q]
           S == ToCancel(q)
<1>1. /\ x \in RequestType /\ disturbed \in [Sent -> BOOLEAN] /\ chain \in ChainType
      /\ RequestOK(x, begun[q], chain, disturbed[q])
  BY DEF SpotInv, Typed
<1>2. x.pc = "book" /\ UNCHANGED <<chain, begun, disturbed>> /\ x.key \in Keys
  BY <1>1 DEF BookLoaded, RequestType
<1>3. CASE Finish(q, "error500")
  BY <1>1, <1>2, <1>3, Finished
<1>4. CASE \E orders \in SetToSeqs(S) :
             AnswerWith(q, Chunks(CancelInstructions(q, orders), Cap))
  <2>1. PICK orders \in SetToSeqs(S) :
          AnswerWith(q, Chunks(CancelInstructions(q, orders), Cap))
    BY <1>4
  <2>2. S \subseteq Orders \cup {Foreign} /\ IsFiniteSet(S)
    <3>1. S \subseteq chain.book /\ chain.book \subseteq Orders \cup {Foreign}
      BY <1>1, ChainParts DEF ToCancel
    <3>2. IsFiniteSet(OldOrders \cup Requests)
      BY MangoSpotAssumption, FS_Union
    <3>3. IsFiniteSet(Orders \cup {Foreign})
      BY <3>2, FS_AddElement DEF Orders
    <3>4. QED
      BY <3>1, <3>3, FS_Subset
  <2> HIDE DEF S
  <2>3. orders \in Seq(Orders \cup {Foreign}) /\ ToSet(orders) = S
    BY <2>1, <2>2, Listing
  <2> DEFINE txs == Chunks(CancelInstructions(q, orders), Cap)
  <2>4. /\ Answer(txs)
        /\ \A t \in DOMAIN txs : /\ OnlyCancels(txs[t], Len(txs[t]))
                                 /\ ~CreatesMango(txs[t])
        /\ \A o \in ToSet(orders) :
             \E t \in DOMAIN txs : o \in Cancelled(txs[t], Len(txs[t]))
    BY <1>2, <2>3, CancelAnswer
  <2>5. AnswerWith(q, txs)
    BY <2>1
  <2> HIDE DEF txs
  <2>6. DOMAIN txs = 1..Len(txs)
    <3> DEFINE T == Seq(Instr)
    <3>1. txs \in Seq(T)
      BY <2>4 DEF Answer
    <3> HIDE DEF T
    <3>2. QED
      BY <3>1
  <2>7. ASSUME AsksAll(x), ~disturbed[q]
        PROVE  CancelsRest(txs, 1, x.key, chain)
    <3>1. chain.accounts[x.key].slots \cap chain.book \subseteq x.account.slots
      BY <1>1, <1>2, <2>7 DEF RequestOK, CancelsAll
    <3>2. S = x.account.slots \cap chain.book
      BY <2>7 DEF AsksAll, ToCancel, S
    <3>3. x.key \in DOMAIN chain.accounts
      BY <1>1, <1>2, <2>7 DEF RequestOK, Known, AsksAll
    <3>4. QED
      BY <2>3, <2>4, <2>6, <3>1, <3>2, <3>3 DEF CancelsRest
  <2>8. QED
    BY <1>2, <2>4, <2>5, <2>7, Answered
<1>5. QED
  BY <1>3, <1>4 DEF BookLoaded

LEMMA ReadRejectedKeeps ==
  ASSUME SpotInv, NEW q \in Sent, ReadRejected(q)
  PROVE  SpotInv'
<1>1. disturbed \in [Sent -> BOOLEAN]
  BY DEF SpotInv, Typed
<1>2. /\ Finish(q, "error500") /\ UNCHANGED <<chain, begun>> /\ req[q].pc # "idle"
      /\ disturbed' = [disturbed EXCEPT ![q] = TRUE]
  BY DEF ReadRejected, InFlight
<1>3. /\ disturbed' \in [Sent -> BOOLEAN]
      /\ \A p \in Sent \ {q} : disturbed'[p] = disturbed[p]
  BY <1>1, <1>2
<1>4. QED
  BY <1>2, <1>3, Finished

-----------------------------------------------------------------------------
(* The steps of the chain.  Whoever is not told of a change keeps at least *)
(* the orders it means to cancel.                                          *)
Shrinks(c, d) ==
  \A k \in DOMAIN c.accounts :
    d.accounts[k].slots \cap d.book \subseteq c.accounts[k].slots \cap c.book

LEMMA Bystander ==
  ASSUME NEW r, NEW b, NEW c, NEW d \in BOOLEAN, NEW e, NEW f \in BOOLEAN,
         RequestOK(r, b, c, d),
         DOMAIN c.accounts \subseteq DOMAIN e.accounts, d => f,
         r.pc \in {"market", "book", "submitting"} /\ ~f => Shrinks(c, e)
  PROVE  RequestOK(r, b, e, f)
<1>1. ASSUME ~f, AsksAll(r)
      PROVE  CancelsAll(r, e)
  <2>1. CancelsAll(r, c)
    BY <1>1 DEF RequestOK
  <2>2. CASE r.pc \in {"market", "book"}
    <3>1. r.key \in DOMAIN c.accounts
      BY <1>1, <2>2 DEF RequestOK, Known, AsksAll
    <3>2. QED
      BY <1>1, <2>1, <2>2, <3>1 DEF CancelsAll, Shrinks
  <2>3. CASE r.pc = "submitting"
    <3>1. CancelsRest(r.txs, r.next, r.key, c) /\ Shrinks(c, e)
      BY <1>1, <2>1, <2>3 DEF CancelsAll
    <3>2. CancelsRest(r.txs, r.next, r.key, e)
      BY <3>1 DEF CancelsRest, Shrinks
    <3>3. QED
      BY <2>3, <3>2 DEF CancelsAll
  <2>4. CASE r.pc \notin {"market", "book", "submitting"}
    BY <2>4 DEF CancelsAll
  <2>5. QED
    BY <2>2, <2>3, <2>4
<1>2. QED
  BY <1>1 DEF RequestOK

(* What a transaction of a request's answer does, if it is accepted.       *)
LEMMA Submitted ==
  ASSUME SpotInv, NEW q \in Sent, Submit(q)
  PROVE  LET tx == req[q].txs[req[q].next] IN
         /\ req[q].next \in DOMAIN req[q].txs /\ tx \in Seq(Instr)
         /\ chain' \in ChainType /\ chain'.wrapped = {}
         /\ DOMAIN chain.accounts \subseteq DOMAIN chain'.accounts
         /\ DOMAIN chain'.accounts # DOMAIN chain.accounts => CreatesMango(tx)
         /\ Foreign \in chain.book => Foreign \in chain'.book
         /\ OnlyCancels(tx, Len(tx)) =>
              /\ chain'.accounts = chain.accounts
              /\ chain'.book = chain.book \ Cancelled(tx, Len(tx))
<1> DEFINE r == req[q]
           n == r.next
           tx == r.txs[n]
           run == Run(q, tx, chain)
           x == [by |-> q, tx |-> tx, chain |-> chain]
           T == Seq(Instr)
<1>1. /\ r \in RequestType /\ chain \in ChainType /\ chain.wrapped = {}
      /\ RequestOK(r, begun[q], chain, disturbed[q]) /\ q \in Requests
  BY DEF SpotInv, Typed
<1>2. r.pc = "submitting" /\ run.ok /\ chain' = run.chain
  BY DEF Submit
<1>3. n \in 1..Len(r.txs) /\ r.txs \in Seq(T) /\ \A t \in DOMAIN r.txs : Closes(r.txs[t])
  BY <1>1, <1>2 DEF RequestOK, Answer
<1> HIDE DEF r
<1>4. n \in DOMAIN r.txs /\ tx \in T
  <2> HIDE DEF T, n
  <2>1. QED
    BY <1>3
<1>5. LeftOpen(tx, Len(tx)) = {}
  BY <1>3, <1>4 DEF Closes
<1> HIDE DEF n, tx
<1>6. Ran(x, run, Len(tx))
  BY <1>1, <1>4, RunRan
<1>7. x.tx = tx /\ x.chain = chain
  OBVIOUS
<1> HIDE DEF x, run
<1>8. /\ run \in [ok : BOOLEAN, chain : ChainType]
      /\ DOMAIN chain.accounts \subseteq DOMAIN run.chain.accounts
      /\ \A a \in DOMAIN run.chain.accounts \ DOMAIN chain.accounts :
           \E j \in 1..Len(tx) : tx[j].type = "createMango"
      /\ Foreign \in chain.book => Foreign \in run.chain.book
      /\ run.chain.wrapped \subseteq chain.wrapped \cup LeftOpen(tx, Len(tx))
      /\ OnlyCancels(tx, Len(tx)) =>
           /\ run.chain.accounts = chain.accounts
           /\ run.chain.book = chain.book \ Cancelled(tx, Len(tx))
  BY <1>2, <1>6, <1>7 DEF Ran
<1>9. run.chain \in ChainType /\ run.chain.wrapped = {}
  BY <1>1, <1>5, <1>8
<1>10. DOMAIN run.chain.accounts # DOMAIN chain.accounts => CreatesMango(tx)
  BY <1>8 DEF CreatesMango
<1>11. QED
  BY <1>2, <1>4, <1>8, <1>9, <1>10 DEF r, n, tx

(* The rest of the cancellations, after the first of them.                 *)
LEMMA RestShrinks ==
  ASSUME NEW txs, NEW n \in Nat, NEW k, NEW c, NEW d, CancelsRest(txs, n, k, c),
         Len(txs) \in Nat, d.accounts = c.accounts,
         d.book = c.book \ Cancelled(txs[n], Len(txs[n]))
  PROVE  CancelsRest(txs, n + 1, k, d)
<1>1. ASSUME NEW o \in d.accounts[k].slots \cap d.book
      PROVE  \E t \in n + 1..Len(txs) : o \in Cancelled(txs[t], Len(txs[t]))
  <2>1. PICK t \in n..Len(txs) : o \in Cancelled(txs[t], Len(txs[t]))
    BY <1>1 DEF CancelsRest
  <2>2. t # n
    BY <1>1, <2>1
  <2>3. t \in n + 1..Len(txs)
    BY <2>1, <2>2
  <2>4. QED
    BY <2>1, <2>3
<1>2. QED
  BY <1>1 DEF CancelsRest

LEMMA SubmitKeeps ==
  ASSUME SpotInv, NEW q \in Sent, Submit(q)
  PROVE  SpotInv'
<1> DEFINE r == req[q]
           tx == r.txs[r.next]
           T == Seq(Instr)
<1>1. /\ req \in [Sent -> RequestType] /\ r \in RequestType
      /\ begun \in [Sent -> ChainType] /\ disturbed \in [Sent -> BOOLEAN]
      /\ \A p \in Sent : RequestOK(req[p], begun[p], chain, disturbed[p])
  BY DEF SpotInv, Typed
<1>2. /\ r.next \in DOMAIN r.txs /\ tx \in Seq(Instr)
      /\ chain' \in ChainType /\ chain'.wrapped = {}
      /\ DOMAIN chain.accounts \subseteq DOMAIN chain'.accounts
      /\ OnlyCancels(tx, Len(tx)) =>
           /\ chain'.accounts = chain.accounts
           /\ chain'.book = chain.book \ Cancelled(tx, Len(tx))
  BY Submitted
<1>3. /\ r.pc = "submitting" /\ begun' = begun
      /\ \/ r.next = Len(r.txs) /\ Finish(q, "executed")
         \/ r.next # Len(r.txs) /\ req' = [req EXCEPT ![q].next = @ + 1]
      /\ \/ chain' = chain /\ disturbed' = disturbed
         \/ Outdated(Sent \ {q})
  BY DEF Submit
<1>4. /\ disturbed' \in [Sent -> BOOLEAN] /\ (disturbed'[q] = disturbed[q])
      /\ \A p \in Sent \ {q} : /\ disturbed[p] => disturbed'[p]
                               /\ disturbed'[p] \/ chain' = chain \/ ~InFlight(p)
  BY <1>1, <1>3 DEF Outdated
<1>5. ASSUME NEW p \in Sent \ {q}
      PROVE  RequestOK(req[p], begun[p], chain', disturbed'[p])
  <2>1. chain' = chain => Shrinks(chain, chain')
    BY DEF Shrinks
  <2>2. req[p].pc \in {"market", "book", "submitting"} => InFlight(p)
    BY DEF InFlight
  <2> DEFINE d == disturbed[p]
             f == disturbed'[p]
             e == chain'
  <2>3. /\ RequestOK(req[p], begun[p], chain, d) /\ d \in BOOLEAN /\ f \in BOOLEAN
        /\ DOMAIN chain.accounts \subseteq DOMAIN e.accounts /\ (d => f)
        /\ req[p].pc \in {"market", "book", "submitting"} /\ ~f => Shrinks(chain, e)
    BY <1>1, <1>2, <1>4, <2>1, <2>2
  <2> HIDE DEF d, f, e
  <2>4. RequestOK(req[p], begun[p], e, f)
    BY <2>3, Bystander
  <2>5. QED
    BY <2>4 DEF e, f
<1>6. \E s \in RequestType : /\ req' = [req EXCEPT ![q] = s]
                             /\ RequestOK(s, begun[q], chain', disturbed'[q])
  <2>1. DOMAIN begun[q].accounts \subseteq DOMAIN chain'.accounts
    BY <1>1, <1>2, <1>3 DEF RequestOK
  <2>2. CASE Finish(q, "executed")
    <3> DEFINE e == [Idle(r.kind) EXCEPT !.pc = "executed"]
    <3>1. req' = [req EXCEPT ![q] = e]
      BY <1>1, <2>2 DEF Finish
    <3>2. r.kind \in Kind
      BY <1>1 DEF RequestType
    <3>3. e \in RequestType /\ RequestOK(e, begun[q], chain', disturbed'[q])
      BY <2>1, <3>2, Ended
    <3> HIDE DEF e
    <3>4. QED
      BY <3>1, <3>3
  <2>3. CASE r.next # Len(r.txs) /\ req' = [req EXCEPT ![q].next = @ + 1]
    <3> DEFINE n == r.next
               s == [r EXCEPT !.next = n + 1]
    <3>1. req' = [req EXCEPT ![q] = s]
      BY <1>1, <2>3
    <3>2. n \in 1..Len(r.txs) /\ Len(r.txs) \in Nat
      <4>1. r.txs \in Seq(T) /\ n \in 1..Len(r.txs)
        BY <1>1, <1>3 DEF RequestOK, Answer
      <4> HIDE DEF T, r
      <4>2. QED
        BY <4>1
    <3>3. RequestOK(r, begun[q], chain, disturbed'[q])
      BY <1>1, <1>4
    <3>4. r.pc = "submitting" /\ n # Len(r.txs)
      BY <1>3, <2>3
    <3>5. tx = r.txs[n]
      OBVIOUS
    <3> DEFINE m == n + 1
    <3>5m. m \in Nat /\ s = [r EXCEPT !.next = m]
      BY <3>2
    <3> HIDE DEF r, m
    <3>6. /\ s \in RequestType /\ s.next = m /\ s.pc = r.pc /\ s.txs = r.txs
          /\ s.kind = r.kind /\ s.key = r.key /\ s.account = r.account
      BY <1>1, <3>5m DEF RequestType
    <3> HIDE DEF s, n, tx
    <3>7. m \in 1..Len(r.txs) /\ m = n + 1 /\ n \in Nat
      BY <3>2, <3>4 DEF m
    <3>8. ASSUME ~disturbed'[q], AsksAll(s)
          PROVE  CancelsAll(s, chain')
      <4>1. CancelsRest(r.txs, n, r.key, chain)
        BY <3>3, <3>4, <3>6, <3>8 DEF RequestOK, AsksAll, CancelsAll, n
      <4>2. OnlyCancels(tx, Len(tx))
        BY <1>2, <3>5, <4>1 DEF CancelsRest, n
      <4>3. CancelsRest(r.txs, n + 1, r.key, chain')
        BY <1>2, <3>2, <3>5, <3>7, <4>1, <4>2, RestShrinks
      <4>4. QED
        BY <3>4, <3>6, <3>7, <4>3 DEF CancelsAll
    <3>9. RequestOK(s, begun[q], chain', disturbed'[q])
      BY <2>1, <3>3, <3>4, <3>6, <3>7, <3>8 DEF RequestOK, Known
    <3>10. QED
      BY <3>1, <3>6, <3>9
  <2>4. QED
    BY <1>3, <2>2, <2>3
<1>7. PICK s \in RequestType : /\ req' = [req EXCEPT ![q] = s]
                               /\ RequestOK(s, begun[q], chain', disturbed'[q])
  BY <1>6
<1>8. Sent' = Sent /\ req'[q] = s /\ \A p \in Sent \ {q} : req'[p] = req[p]
  BY <1>1, <1>7 DEF Sent
<1>9. Typed'
  BY <1>1, <1>2, <1>3, <1>4, <1>7, <1>8 DEF SpotInv, Typed
<1>10. ASSUME NEW p \in Sent
       PROVE  RequestOK(req'[p], begun'[p], chain', disturbed'[p])
  BY <1>3, <1>5, <1>7, <1>8
<1>11. QED
  BY <1>8, <1>9, <1>10 DEF SpotInv

(* The chain changes by itself.                                            *)
LEMMA Elsewhere ==
  ASSUME SpotInv, chain' \in ChainType, chain'.wrapped = {},
         DOMAIN chain'.accounts = DOMAIN chain.accounts, UNCHANGED <<req, begun>>,
         Outdated(Sent) \/ (Shrinks(chain, chain') /\ disturbed' = disturbed)
  PROVE  SpotInv'
<1>1. /\ req \in [Sent -> RequestType]
      /\ begun \in [Sent -> ChainType] /\ disturbed \in [Sent -> BOOLEAN]
      /\ \A p \in Sent : RequestOK(req[p], begun[p], chain, disturbed[p])
  BY DEF SpotInv, Typed
<1>2. /\ disturbed' \in [Sent -> BOOLEAN]
      /\ \A p \in Sent : /\ disturbed[p] => disturbed'[p]
                         /\ disturbed'[p] \/ Shrinks(chain, chain') \/ ~InFlight(p)
  BY <1>1 DEF Outdated
<1>3. ASSUME NEW p \in Sent
      PROVE  RequestOK(req[p], begun[p], chain', disturbed'[p])
  <2>1. req[p].pc \in {"market", "book", "submitting"} => InFlight(p)
    BY DEF InFlight
  <2> DEFINE d == disturbed[p]
             f == disturbed'[p]
             e == chain'
  <2>2. /\ RequestOK(req[p], begun[p], chain, d) /\ d \in BOOLEAN /\ f \in BOOLEAN
        /\ DOMAIN chain.accounts \subseteq DOMAIN e.accounts /\ (d => f)
        /\ req[p].pc \in {"market", "book", "submitting"} /\ ~f => Shrinks(chain, e)
    BY <1>1, <1>2, <2>1
  <2> HIDE DEF d, f, e
  <2>3. RequestOK(req[p], begun[p], e, f)
    BY <2>2, Bystander
  <2>4. QED
    BY <2>3 DEF e, f
<1>4. Sent' = Sent
  BY DEF Sent
<1>5. Typed'
  BY <1>1, <1>2, <1>4 DEF SpotInv, Typed
<1>6. QED
  BY <1>3, <1>4, <1>5 DEF SpotInv

LEMMA FillKeeps ==
  ASSUME SpotInv, NEW o, Fill(o)
  PROVE  SpotInv'
<1>1. chain \in ChainType /\ chain.wrapped = {}
  BY DEF SpotInv, Typed
<1>2. /\ chain' = [chain EXCEPT !.book = @ \ {o}] /\ Outdated(Sent)
      /\ UNCHANGED <<req, begun>>
  BY DEF Fill
<1>3. /\ chain' \in ChainType /\ chain'.wrapped = {} /\ chain'.accounts = chain.accounts
  BY <1>1, <1>2 DEF ChainType
<1>4. QED
  BY <1>2, <1>3, Elsewhere

LEMMA ConsumeEventsKeeps ==
  ASSUME SpotInv, NEW a, ConsumeEvents(a)
  PROVE  SpotInv'
<1> DEFINE acc == [chain.accounts[a] EXCEPT !.slots = @ \cap chain.book]
<1>1. chain \in ChainType /\ chain.wrapped = {}
  BY DEF SpotInv, Typed
<1>2. /\ a \in DOMAIN chain.accounts /\ UNCHANGED <<req, begun, disturbed>>
      /\ chain' = [chain EXCEPT !.accounts[a].slots = @ \cap chain.book]
  BY DEF ConsumeEvents
<1>3. /\ acc \in Account /\ acc.slots = chain.accounts[a].slots \cap chain.book
      /\ chain' = [chain EXCEPT !.accounts = [@ EXCEPT ![a] = acc]]
      /\ chain.accounts \in [DOMAIN chain.accounts -> Account]
  BY <1>1, <1>2, ChainParts DEF Account, ChainType
<1> HIDE DEF acc
<1>4. /\ chain' \in ChainType /\ DOMAIN chain'.accounts = DOMAIN chain.accounts
      /\ chain'.accounts = [chain.accounts EXCEPT ![a] = acc]
      /\ chain'.book = chain.book /\ chain'.wrapped = chain.wrapped
  <2> DEFINE c == chain
             d == chain'
  <2>1. /\ c \in ChainType /\ a \in DOMAIN c.accounts /\ acc \in Account
        /\ d = [c EXCEPT !.accounts = [@ EXCEPT ![a] = acc]]
    BY <1>1, <1>2, <1>3
  <2> HIDE DEF c, d
  <2>2. /\ d \in ChainType /\ DOMAIN d.accounts = DOMAIN c.accounts
        /\ d.accounts = [c.accounts EXCEPT ![a] = acc]
        /\ d.book = c.book /\ d.wrapped = c.wrapped
    BY <2>1, ChangedAccount
  <2>3. QED
    BY <2>2 DEF c, d
<1>5. \A k \in DOMAIN chain.accounts :
        chain'.accounts[k] = IF k = a THEN acc ELSE chain.accounts[k]
  BY <1>2, <1>3, <1>4
<1>6. Shrinks(chain, chain')
  BY <1>3, <1>4, <1>5 DEF Shrinks
<1>7. QED
  BY <1>1, <1>2, <1>4, <1>6, Elsewhere

LEMMA SubmitFailsKeeps ==
  ASSUME SpotInv, NEW q \in Sent, SubmitFails(q)
  PROVE  SpotInv'
<1>1. disturbed \in [Sent -> BOOLEAN]
  BY DEF SpotInv, Typed
<1>2. /\ Finish(q, "aborted") /\ UNCHANGED <<chain, begun, disturbed>>
      /\ req[q].pc = "submitting"
  BY DEF SubmitFails
<1>3. QED
  BY <1>1, <1>2, Finished

-----------------------------------------------------------------------------
(* The wallet in each situation is typed.                                  *)
LEMMA WalletsTyped == Wallets \subseteq {c \in ChainType : c.wrapped = {}}
<1> SUFFICES ASSUME NEW w \in Wallets
             PROVE  w \in ChainType /\ w.wrapped = {}
  OBVIOUS
<1>1. "old" \in Keys /\ NewAccount \in Account
  BY DEF Keys, NewAccount, Account
<1>2. DOMAIN <<>> = {} /\ <<>> \in [{} -> Account]
  <2>1. <<>> \in Seq(Account) /\ Len(<<>>) = 0
    OBVIOUS
  <2>2. <<>> \in [1..0 -> Account] /\ 1..0 = {}
    BY <2>1
  <2>3. QED
    BY <2>2
<1>3. With(<<>>, "old") \in [{"old"} -> Account]
  BY <1>1, <1>2 DEF With
<1>4. \A S \in SUBSET OldOrders : [a \in {"old"} |-> [oo |-> "old", slots |-> S]] \in [{"old"} -> Account]
  <2>1. \A S \in SUBSET OldOrders : [oo |-> "old", slots |-> S] \in Account
    BY <1>1 DEF Account, Orders
  <2>2. QED
    BY <2>1
<1>5. w.accounts \in [{} -> Account] \/ w.accounts \in [{"old"} -> Account]
  <2> DEFINE none == <<>>
             new == With(<<>>, "old")
             F == {[a \in {"old"} |-> [oo |-> "old", slots |-> S]] : S \in SUBSET OldOrders}
  <2>1. w.accounts \in {none, new} \cup F
    <3> HIDE DEF none, new
    <3>1. QED
      BY DEF Wallets, none, new
  <2>2. \A f \in F : f \in [{"old"} -> Account]
    BY <1>4
  <2>3. none \in [{} -> Account] /\ new \in [{"old"} -> Account]
    BY <1>2, <1>3
  <2> HIDE DEF none, new, F
  <2>4. QED
    BY <2>1, <2>2, <2>3
<1>6. w.accounts \in UNION {[K -> Account] : K \in SUBSET Keys}
  BY <1>1, <1>5
<1>7. /\ w = [accounts |-> w.accounts, book |-> w.book, ata |-> w.ata, wrapped |-> w.wrapped]
      /\ w.book \subseteq Orders \cup {Foreign} /\ w.ata \in BOOLEAN /\ w.wrapped = {}
  BY DEF Wallets, Orders
<1>8. QED
  BY <1>6, <1>7 DEF ChainType

LEMMA IdleTyped ==
  ASSUME NEW k \in Kind, NEW c, NEW d
  PROVE  Idle(k) \in RequestType /\ RequestOK(Idle(k), c, c, d)
<1> DEFINE i == Idle(k)
           T == Seq(Instr)
<1>1. NewAccount \in Account
  BY DEF NewAccount, Account
<1>2. "old" \in Keys /\ "idle" \in PCs
  BY DEF Keys, PCs
<1>3. i \in [pc : PCs, kind : Kind, group : BOOLEAN, key : Keys, account : Account,
             txs : Seq(T), next : Nat]
  <2> HIDE DEF T
  <2>1. <<>> \in Seq(T)
    OBVIOUS
  <2>2. QED
    BY <1>1, <1>2, <2>1 DEF Idle
<1>4. i.pc = "idle" /\ i.txs = <<>> /\ i.next = 1
  BY DEF Idle
<1> HIDE DEF i
<1>5. RequestOK(i, c, c, d)
  BY <1>4 DEF RequestOK, Known, CancelsAll
<1>6. QED
  BY <1>3, <1>5 DEF RequestType, T, i

LEMMA InvInit == Init => SpotInv
<1> SUFFICES ASSUME Init
             PROVE  SpotInv
  OBVIOUS
<1>1. PICK s \in Situations :
        /\ chain = s.wallet
        /\ req = [q \in DOMAIN s.kinds |-> Idle(s.kinds[q])]
        /\ begun = [q \in DOMAIN s.kinds |-> chain]
        /\ disturbed = [q \in DOMAIN s.kinds |-> FALSE]
  BY DEF Init
<1>2. /\ s.wallet \in Wallets /\ DOMAIN s.kinds \subseteq Requests
      /\ \A q \in DOMAIN s.kinds : s.kinds[q] \in Kind
  BY MangoSpotAssumption DEF Range
<1>3. chain \in ChainType /\ chain.wrapped = {}
  BY <1>1, <1>2, WalletsTyped
<1>4. Sent = DOMAIN s.kinds
  BY <1>1 DEF Sent
<1>5. \A q \in Sent : req[q] \in RequestType /\ RequestOK(req[q], chain, chain, disturbed[q])
  BY <1>1, <1>2, <1>4, IdleTyped
<1>6. \A q \in Sent : begun[q] = chain
  BY <1>1, <1>4
<1>7. req = [q \in Sent |-> req[q]] /\ begun \in [Sent -> ChainType] /\ disturbed \in [Sent -> BOOLEAN]
  BY <1>1, <1>3, <1>4
<1>8. QED
  BY <1>2, <1>3, <1>4, <1>5, <1>6, <1>7 DEF SpotInv, Typed

LEMMA InvInductive == SpotInv /\ [Next]_vars => SpotInv'
<1> SUFFICES ASSUME SpotInv, [Next]_vars
             PROVE  SpotInv'
  OBVIOUS
<1>1. CASE UNCHANGED vars
  BY <1>1 DEF vars, SpotInv, Typed, Sent
<1>2. ASSUME NEW q \in Sent,
             \/ Begin(q) \/ BankLoaded(q) \/ SourceLoaded(q) \/ AccountsLoaded(q)
             \/ AccountLoaded(q) \/ AtaLoaded(q) \/ MarketLoaded(q) \/ BookLoaded(q)
             \/ ReadRejected(q) \/ Submit(q) \/ SubmitFails(q)
      PROVE  SpotInv'
  BY <1>2, BeginKeeps, BankLoadedKeeps, SourceLoadedKeeps, AccountsLoadedKeeps,
     AccountLoadedKeeps, AtaLoadedKeeps, MarketLoadedKeeps, BookLoadedKeeps,
     ReadRejectedKeeps, SubmitKeeps, SubmitFailsKeeps
<1>3. ASSUME NEW o \in Orders, Fill(o)
      PROVE  SpotInv'
  BY <1>3, FillKeeps
<1>4. ASSUME NEW a \in Keys, ConsumeEvents(a)
      PROVE  SpotInv'
  BY <1>4, ConsumeEventsKeeps
<1>5. QED
  BY <1>1, <1>2, <1>3, <1>4 DEF Next

(* The inductive invariant, for any requests, situations and transaction   *)
(* size.                                                                   *)
THEOREM SpotInvariance == Spec => []SpotInv
<1>1. QED
  BY InvInit, InvInductive, PTL DEF Spec

(* Every state of the Mango services has the declared type.                *)
THEOREM TypeCorrect == Spec => []TypeOK
<1>1. QED
  BY SpotInvariance, InvGives, PTL

(* The account that wraps SOL never outlives its transaction: whatever a   *)
(* handler puts together closes what it opens.                             *)
THEOREM NothingStaysWrapped == Spec => []WrappedSolIsTemporary
<1>1. SpotInv => WrappedSolIsTemporary
  BY DEF SpotInv, Typed, WrappedSolIsTemporary
<1>2. QED
  BY <1>1, SpotInvariance, PTL

-----------------------------------------------------------------------------
(* Whose steps are whose.                                                  *)
LEMMA Reads ==
  ASSUME SpotInv, NEW p \in Sent,
         \/ Begin(p) \/ BankLoaded(p) \/ SourceLoaded(p) \/ AccountsLoaded(p)
         \/ AccountLoaded(p) \/ AtaLoaded(p) \/ MarketLoaded(p) \/ BookLoaded(p)
         \/ ReadRejected(p)
  PROVE  /\ chain' = chain /\ req[p].pc # "submitting"
         /\ \A q \in Sent \ {p} : req'[q] = req[q]
<1>1. req \in [Sent -> RequestType] /\ RequestOK(req[p], begun[p], chain, disturbed[p])
  BY DEF SpotInv, Typed
<1>2. /\ chain' = chain /\ req[p].pc # "submitting"
  BY DEF Begin, BankLoaded, SourceLoaded, AccountsLoaded, AccountLoaded, AtaLoaded,
         MarketLoaded, BookLoaded, ReadRejected
<1>3. \E r : req' = [req EXCEPT ![p] = r]
  <2>1. ASSUME NEW pc, Goto(p, pc)
        PROVE  \E r : req' = [req EXCEPT ![p] = r]
    BY <1>1, <2>1 DEF Goto
  <2>2. ASSUME NEW end, Finish(p, end)
        PROVE  \E r : req' = [req EXCEPT ![p] = r]
    BY <1>1, <2>2 DEF Finish
  <2>3. ASSUME NEW txs, AnswerWith(p, txs)
        PROVE  \E r : req' = [req EXCEPT ![p] = r]
    BY <1>1, <2>2, <2>3 DEF AnswerWith
  <2>4. CASE Begin(p) \/ SourceLoaded(p)
    BY <2>1, <2>2, <2>4 DEF Begin, SourceLoaded
  <2>5. CASE BankLoaded(p)
    BY <1>1, <2>5 DEF BankLoaded
  <2>6. CASE AccountsLoaded(p)
    <3>1. CASE \E a : req' = [req EXCEPT ![p].group = TRUE, ![p].key = a, ![p].pc = "account"]
      BY <1>1, <3>1
    <3>2. QED
      BY <2>2, <2>3, <2>6, <3>1 DEF AccountsLoaded
  <2>7. CASE AccountLoaded(p)
    <3>1. CASE \E a : req' = [req EXCEPT ![p].pc = "market", ![p].account = a]
      BY <1>1, <3>1
    <3>2. QED
      BY <2>1, <2>2, <2>3, <2>7, <3>1 DEF AccountLoaded
  <2>8. CASE MarketLoaded(p)
    <3>1. Op(p) \in {"place", "settle", "cancel"}
      BY <1>1, <2>8 DEF MarketLoaded, RequestOK, Op
    <3>2. QED
      BY <2>1, <2>2, <2>3, <2>8, <3>1 DEF MarketLoaded
  <2>9. CASE AtaLoaded(p) \/ BookLoaded(p) \/ ReadRejected(p)
    BY <2>2, <2>3, <2>9 DEF AtaLoaded, BookLoaded, ReadRejected
  <2>10. QED
    BY <2>4, <2>5, <2>6, <2>7, <2>8, <2>9
<1>4. QED
  BY <1>1, <1>2, <1>3

LEMMA WhoSubmits ==
  ASSUME SpotInv, NEW q \in Sent, [Next]_vars,
         req[q].pc = "submitting", req'[q].pc = "executed"
  PROVE  Submit(q) /\ req[q].next = Len(req[q].txs)
<1>1. req \in [Sent -> RequestType]
  BY DEF SpotInv, Typed
<1>2. ASSUME NEW p \in Sent \ {q}, Submit(p) \/ SubmitFails(p)
      PROVE  req'[q] = req[q]
  BY <1>1, <1>2 DEF Submit, SubmitFails, Finish
<1>3. ASSUME SubmitFails(q)
      PROVE  FALSE
  <2> DEFINE e == [Idle(req[q].kind) EXCEPT !.pc = "aborted"]
  <2>1. req' = [req EXCEPT ![q] = e]
    BY <1>1, <1>3 DEF SubmitFails, Finish
  <2>2. req[q].kind \in Kind
    BY <1>1 DEF RequestType
  <2>3. DOMAIN begun[q].accounts \subseteq DOMAIN chain.accounts
    BY DEF SpotInv, RequestOK
  <2>4. e.pc = "aborted"
    BY <2>2, <2>3, Ended
  <2> HIDE DEF e
  <2>5. QED
    BY <1>1, <2>1, <2>4
<1>4. ASSUME Submit(q)
      PROVE  req[q].next = Len(req[q].txs)
  <2> SUFFICES ASSUME req' = [req EXCEPT ![q].next = @ + 1]
               PROVE  FALSE
    BY <1>4 DEF Submit
  <2>1. req'[q].pc = req[q].pc
    BY <1>1 DEF RequestType
  <2>2. QED
    BY <2>1
<1>5. ASSUME NEW p \in Sent,
             \/ Begin(p) \/ BankLoaded(p) \/ SourceLoaded(p) \/ AccountsLoaded(p)
             \/ AccountLoaded(p) \/ AtaLoaded(p) \/ MarketLoaded(p) \/ BookLoaded(p)
             \/ ReadRejected(p)
      PROVE  FALSE
  <2>1. /\ req[p].pc # "submitting" /\ \A r \in Sent \ {p} : req'[r] = req[r]
    BY <1>5, Reads
  <2>2. QED
    BY <2>1
<1>6. req' # req
  OBVIOUS
<1>7. \A x : ~Fill(x) /\ ~ConsumeEvents(x)
  BY <1>6 DEF Fill, ConsumeEvents
<1>8. QED
  BY <1>2, <1>3, <1>4, <1>5, <1>6, <1>7 DEF Next, vars

(* A second Mango account comes only from two deposits that raced.         *)
THEOREM SecondAccountTakesARace == Spec => SecondAccountOnlyByRace
<1>1. SpotInv /\ [Next]_vars =>
        [\A q \in Sent :
           (req[q].pc = "submitting" /\ req'[q].pc = "executed"
              /\ DOMAIN chain'.accounts # DOMAIN chain.accounts /\ DOMAIN chain.accounts # {})
             => DOMAIN begun[q].accounts = {}]_vars
  <2> SUFFICES ASSUME SpotInv, [Next]_vars, NEW q \in Sent,
                      req[q].pc = "submitting", req'[q].pc = "executed",
                      DOMAIN chain'.accounts # DOMAIN chain.accounts
               PROVE  DOMAIN begun[q].accounts = {}
    OBVIOUS
  <2>1. Submit(q)
    BY WhoSubmits
  <2>2. /\ req[q].next \in DOMAIN req[q].txs
        /\ CreatesMango(req[q].txs[req[q].next])
    BY <2>1, Submitted
  <2>3. RequestOK(req[q], begun[q], chain, disturbed[q])
    BY DEF SpotInv
  <2>4. QED
    BY <2>2, <2>3 DEF RequestOK
<1>2. QED
  BY <1>1, SpotInvariance, PTL DEF Spec, SecondAccountOnlyByRace

(* "Cancel all" leaves nothing behind unless something interfered, and     *)
(* never takes an order of another user off the book.                      *)
THEOREM CancelAllCompletes == Spec => CancelAllIsComplete
<1>1. SpotInv /\ [Next]_vars =>
        [\A q \in Sent :
           /\ (Op(q) = "cancel" /\ Foreign \in chain.book) => Foreign \in chain'.book
           /\ (req[q].pc = "submitting" /\ req'[q].pc = "executed" /\ ~disturbed[q]
                 /\ Op(q) = "cancel" /\ req[q].kind.order = None) =>
                chain'.accounts[req[q].key].slots \cap chain'.book = {}]_vars
  <2> SUFFICES ASSUME SpotInv, [Next]_vars, NEW q \in Sent
               PROVE  /\ Foreign \in chain.book => Foreign \in chain'.book
                      /\ (req[q].pc = "submitting" /\ req'[q].pc = "executed" /\ ~disturbed[q]
                            /\ Op(q) = "cancel" /\ req[q].kind.order = None) =>
                           chain'.accounts[req[q].key].slots \cap chain'.book = {}
    OBVIOUS
  <2>1. ASSUME Foreign \in chain.book
        PROVE  Foreign \in chain'.book
    <3>1. ASSUME NEW p \in Sent, Submit(p)
          PROVE  Foreign \in chain'.book
      BY <2>1, <3>1, Submitted
    <3>2. ASSUME NEW o \in Orders, Fill(o)
          PROVE  Foreign \in chain'.book
      <4>1. Foreign \notin Orders /\ chain \in ChainType
        BY MangoSpotAssumption DEF Orders, SpotInv, Typed
      <4>2. chain'.book = chain.book \ {o}
        BY <3>2, <4>1 DEF Fill, ChainType
      <4>3. QED
        BY <2>1, <4>1, <4>2
    <3>3. ASSUME NEW a, ConsumeEvents(a)
          PROVE  Foreign \in chain'.book
      <4>1. chain \in ChainType
        BY DEF SpotInv, Typed
      <4>2. chain'.book = chain.book
        BY <3>3, <4>1 DEF ConsumeEvents, ChainType
      <4>3. QED
        BY <2>1, <4>2
    <3>4. CASE chain' = chain
      BY <2>1, <3>4
    <3>5. \A p \in Sent : SubmitFails(p) => chain' = chain
      BY DEF SubmitFails
    <3>6. QED
      BY <3>1, <3>2, <3>3, <3>4, <3>5, Reads DEF Next, vars
  <2>2. ASSUME req[q].pc = "submitting", req'[q].pc = "executed", ~disturbed[q],
               Op(q) = "cancel", req[q].kind.order = None
        PROVE  chain'.accounts[req[q].key].slots \cap chain'.book = {}
    <3> DEFINE r == req[q]
               tx == r.txs[r.next]
    <3>1. Submit(q) /\ r.next = Len(r.txs)
      BY <2>2, WhoSubmits
    <3>2. RequestOK(r, begun[q], chain, disturbed[q])
      BY DEF SpotInv
    <3>3. CancelsRest(r.txs, r.next, r.key, chain)
      BY <2>2, <3>2 DEF RequestOK, CancelsAll, AsksAll, Op
    <3>4. r.next \in DOMAIN r.txs /\ r.next \in Nat
      BY <2>2, <3>1, <3>2, Submitted DEF SpotInv, Typed, RequestType
    <3>5. OnlyCancels(tx, Len(tx))
      BY <3>3, <3>4 DEF CancelsRest
    <3>6. chain'.accounts = chain.accounts /\ chain'.book = chain.book \ Cancelled(tx, Len(tx))
      BY <3>1, <3>5, Submitted
    <3>7. \A t \in r.next..Len(r.txs) : t = r.next
      BY <3>1, <3>4
    <3>8. \A o \in chain.accounts[r.key].slots \cap chain.book : o \in Cancelled(tx, Len(tx))
      BY <3>3, <3>7 DEF CancelsRest
    <3>9. QED
      BY <3>6, <3>8
  <2>3. QED
    BY <2>1, <2>2
<1>2. QED
  BY <1>1, SpotInvariance, PTL DEF Spec, CancelAllIsComplete

-----------------------------------------------------------------------------
(* Chains on which the same transactions are accepted: they differ at most *)
(* in slots whose orders have left the book.                               *)
Same(c, d) ==
  /\ DOMAIN c.accounts = DOMAIN d.accounts
  /\ c.book = d.book /\ c.ata = d.ata /\ c.wrapped = d.wrapped
  /\ \A a \in DOMAIN c.accounts :
       /\ c.accounts[a].oo = d.accounts[a].oo
       /\ c.accounts[a].slots \cap c.book = d.accounts[a].slots \cap d.book

LEMMA SameChains ==
  /\ \A c : Same(c, c)
  /\ \A b, c, d : Same(b, c) /\ Same(c, d) => Same(b, d)
BY DEF Same

(* A transaction that fails at its first instruction fails.                *)
LEMMA FirstFails ==
  ASSUME NEW q \in Requests, NEW tx \in Seq(Instr), NEW c \in ChainType,
         Len(tx) >= 1, ~Accepts(c, tx[1])
  PROVE  ~Run(q, tx, c).ok
<1> DEFINE n == Len(tx)
<1>1. PICK h : Trace(q, tx, c, h) /\ Run(q, tx, c) = h[n]
  BY Traced
<1>2. n \in Nat /\ n >= 1
  OBVIOUS
<1>3. /\ h[0].chain = c
      /\ \A j \in 1..n : h[j].ok => h[j - 1].ok /\ Accepts(h[j - 1].chain, tx[j])
  BY <1>1 DEF Trace
<1> HIDE DEF n
<1> DEFINE T == {k \in 1..n : h[k].ok}
<1>4. T = {}
  <2> SUFFICES ASSUME T # {}
               PROVE  FALSE
    OBVIOUS
  <2>1. T \in SUBSET Nat
    BY <1>2
  <2>2. PICK k \in T : \A l \in T : k <= l
    <3> HIDE DEF T
    <3>1. QED
      BY <2>1, Runs!Least
  <2>3. k \in 1..n /\ h[k - 1].ok /\ Accepts(h[k - 1].chain, tx[k])
    BY <1>3, <2>2
  <2>4. k # 1
    BY <1>3, <2>3
  <2>5. k - 1 \in T /\ ~(k <= k - 1)
    BY <1>2, <2>3, <2>4
  <2>6. QED
    BY <2>2, <2>5
<1>5. QED
  BY <1>1, <1>2, <1>4

(* The instructions that each handler puts together, on a chain that is as *)
(* the handler takes it to be.                                             *)
LEMMA OneRuns ==
  ASSUME NEW q \in Requests, NEW i \in Instr, NEW c \in ChainType
  PROVE  Run(q, <<i>>, c).ok <=> Accepts(c, i)
<1> DEFINE tx == <<i>>
<1>1. tx \in Seq(Instr) /\ Len(tx) = 1 /\ tx[1] = i
  OBVIOUS
<1> HIDE DEF tx
<1>2. PICK h : Trace(q, tx, c, h) /\ Run(q, tx, c) = h[1]
  BY <1>1, Traced
<1>3. 1 \in 1..Len(tx)
  BY <1>1
<1>4. Run(q, tx, c).ok <=> Accepts(c, i)
  BY <1>1, <1>2, <1>3 DEF Trace
<1>5. QED
  BY <1>4 DEF tx

LEMMA TwoRun ==
  ASSUME NEW q \in Requests, NEW i, NEW j, NEW tx \in Seq(Instr), NEW c \in ChainType,
         Len(tx) = 2, tx[1] = i, tx[2] = j,
         Accepts(c, i), \A d : Changes(q, c, i, d) => Accepts(d, j)
  PROVE  Run(q, tx, c).ok
<1>1. PICK h : Trace(q, tx, c, h) /\ Run(q, tx, c) = h[2]
  BY Traced
<1>2. 1 \in 1..Len(tx) /\ 2 \in 1..Len(tx)
  OBVIOUS
<1>3. h[1].ok /\ Changes(q, c, i, h[1].chain)
  BY <1>1, <1>2 DEF Trace
<1>4. h[2].ok
  BY <1>1, <1>2, <1>3 DEF Trace
<1>5. QED
  BY <1>1, <1>4

(* Using the wrapped account between its creation and its closing; what    *)
(* precedes the three creates the Mango account, if anything does.         *)
Uses(q, i) == i.type \in {"deposit", "withdraw"} /\ i.arg = q

LEMMA WrapSteps ==
  ASSUME NEW q \in Requests, NEW tx, NEW c, NEW h, Trace(q, tx, c, h),
         NEW m \in Nat, Len(tx) \in Nat, m + 3 <= Len(tx), NEW i, Uses(q, i),
         tx[m + 1] = I("createWrapped", q, q), tx[m + 2] = i,
         tx[m + 3] = I("closeWrapped", q, q),
         h[m].ok, h[m].chain.wrapped = {}, i.account \in DOMAIN h[m].chain.accounts
  PROVE  h[m + 3].ok
<1> DEFINE a == I("createWrapped", q, q)
           b == I("closeWrapped", q, q)
           x == m + 1
           y == m + 2
           z == m + 3
<1>1. /\ a.type = "createWrapped" /\ a.arg = q
      /\ b.type = "closeWrapped" /\ b.arg = q
  BY DEF I
<1>2. /\ x \in 1..Len(tx) /\ y \in 1..Len(tx) /\ z \in 1..Len(tx)
      /\ x - 1 = m /\ y - 1 = x /\ z - 1 = y
  OBVIOUS
<1>3. tx[x] = a /\ tx[y] = i /\ tx[z] = b
  OBVIOUS
<1> HIDE DEF a, b, x, y, z
<1>4. h[x].ok /\ Changes(q, h[m].chain, a, h[x].chain)
  <2>1. Accepts(h[m].chain, a)
    BY <1>1 DEF Accepts
  <2>2. QED
    BY <1>2, <1>3, <2>1 DEF Trace
<1>5. q \in h[x].chain.wrapped /\ i.account \in DOMAIN h[x].chain.accounts
  BY <1>1, <1>4 DEF Changes
<1>6. h[y].ok /\ Changes(q, h[x].chain, i, h[y].chain)
  <2>1. Accepts(h[x].chain, i)
    <3>1. q # None
      BY MangoSpotAssumption
    <3>2. QED
      BY <1>5, <3>1 DEF Accepts, Uses
  <2>2. QED
    BY <1>2, <1>3, <1>4, <2>1 DEF Trace
<1>7. q \in h[y].chain.wrapped
  BY <1>5, <1>6 DEF Changes, Uses
<1>8. h[z].ok
  <2>1. Accepts(h[y].chain, b)
    BY <1>1, <1>7 DEF Accepts
  <2>2. QED
    BY <1>2, <1>3, <1>6, <2>1 DEF Trace
<1>9. QED
  BY <1>8 DEF z

LEMMA WrapRuns ==
  ASSUME NEW q \in Requests, NEW i \in Instr, Uses(q, i),
         NEW c \in ChainType, c.wrapped = {}, i.account \in DOMAIN c.accounts
  PROVE  Run(q, CreateWrapped(q) \o <<i>> \o CloseWrapped(q), c).ok
<1> DEFINE tx == CreateWrapped(q) \o <<i>> \o CloseWrapped(q)
<1>1. /\ tx \in Seq(Instr) /\ Len(tx) = 3 /\ tx[1] = I("createWrapped", q, q)
      /\ tx[2] = i /\ tx[3] = I("closeWrapped", q, q)
  BY WrappedInstructions DEF Uses
<1> HIDE DEF tx
<1>2. PICK h : Trace(q, tx, c, h) /\ Run(q, tx, c) = h[3]
  BY <1>1, Traced
<1>3. h[0].ok /\ h[0].chain = c
  BY <1>2 DEF Trace
<1>4. h[0 + 3].ok
  BY <1>1, <1>2, <1>3, WrapSteps
<1>5. QED
  BY <1>2, <1>4 DEF tx

LEMMA DepositRuns ==
  ASSUME NEW q \in Requests, NEW a \in Keys, NEW c \in ChainType, c.wrapped = {},
         a \in DOMAIN c.accounts, req[q].kind.sol \/ c.ata
  PROVE  Run(q, DepositInstructions(q, a), c).ok
<1>1. CASE req[q].kind.sol
  <2> DEFINE i == I("deposit", a, q)
  <2>1. i \in Instr /\ Uses(q, i) /\ i.account = a
    BY Instructions DEF InstrTypes, Keys, Uses, I
  <2>2. DepositInstructions(q, a) = CreateWrapped(q) \o <<i>> \o CloseWrapped(q)
    BY <1>1 DEF DepositInstructions
  <2> HIDE DEF i
  <2>3. QED
    BY <2>1, <2>2, WrapRuns
<1>2. CASE ~req[q].kind.sol
  <2> DEFINE i == I("deposit", a, None)
  <2>1. i \in Instr /\ i.type = "deposit" /\ i.account = a /\ i.arg = None
    BY Instructions DEF InstrTypes
  <2>2. DepositInstructions(q, a) = <<i>>
    BY <1>2 DEF DepositInstructions
  <2> HIDE DEF i
  <2>3. Accepts(c, i)
    BY <1>2, <2>1 DEF Accepts
  <2>4. QED
    BY <2>1, <2>2, <2>3, OneRuns
<1>3. QED
  BY <1>1, <1>2

LEMMA NewAccountRuns ==
  ASSUME NEW q \in Requests, NEW c \in ChainType, c.wrapped = {},
         DOMAIN c.accounts = {}, req[q].kind.sol \/ c.ata
  PROVE  Run(q, CreateMangoAccount(q) \o DepositInstructions(q, q), c).ok
<1> DEFINE s == DepositInstructions(q, q)
           tx == CreateMangoAccount(q) \o s
           n == Len(s)
           a == I("createMango", q, q)
           b == I("initMango", q, q)
<1>1. q \in Keys /\ s \in Seq(Instr) /\ Closes(s)
  BY DepositAnswer DEF Keys
<1>2. n \in Nat
  BY <1>1
<1>3. /\ tx \in Seq(Instr) /\ Len(tx) = n + 2 /\ tx[1] = a /\ tx[2] = b
      /\ \A j \in 1..n : tx[j + 2] = s[j]
  <2> HIDE DEF s
  <2>1. QED
    BY <1>1, CreateThenClose
<1>4. /\ a.type = "createMango" /\ a.account = q
      /\ b.type = "initMango"
  BY DEF I
<1> HIDE DEF s, tx, n, a, b
<1>5. PICK h : Trace(q, tx, c, h) /\ Run(q, tx, c) = h[n + 2]
  BY <1>3, Traced
<1>6. 1 \in 1..Len(tx) /\ 2 \in 1..Len(tx)
  BY <1>2, <1>3
<1>7. h[1].ok /\ Changes(q, c, a, h[1].chain)
  <2>1. Accepts(c, a)
    BY <1>4 DEF Accepts
  <2>2. QED
    BY <1>3, <1>5, <1>6, <2>1 DEF Trace
<1>8. h[2].ok /\ Changes(q, h[1].chain, b, h[2].chain)
  <2>1. Accepts(h[1].chain, b)
    BY <1>4 DEF Accepts
  <2>2. QED
    BY <1>3, <1>5, <1>6, <1>7, <2>1 DEF Trace
<1>9. /\ q \in DOMAIN h[2].chain.accounts /\ h[2].chain.wrapped = {}
      /\ h[2].chain.ata = c.ata
  BY <1>4, <1>7, <1>8 DEF Changes
<1>10. CASE req[q].kind.sol
  <2> DEFINE i == I("deposit", q, q)
             u == CreateWrapped(q) \o <<i>> \o CloseWrapped(q)
  <2>1. i \in Instr /\ Uses(q, i) /\ i.account = q
    BY <1>1, Instructions DEF InstrTypes, Uses, I
  <2>2. s = u
    BY <1>10 DEF DepositInstructions, s
  <2>3. /\ Len(u) = 3 /\ u[1] = I("createWrapped", q, q) /\ u[2] = i
        /\ u[3] = I("closeWrapped", q, q)
    <3> HIDE DEF i
    <3>1. QED
      BY <2>1, WrappedInstructions DEF Uses
  <2> HIDE DEF i, u
  <2>4. /\ n = 3 /\ tx[1 + 2] = I("createWrapped", q, q) /\ tx[2 + 2] = i
        /\ tx[3 + 2] = I("closeWrapped", q, q)
    <3>1. n = 3
      BY <2>2, <2>3 DEF n
    <3>2. 1 \in 1..n /\ 2 \in 1..n /\ 3 \in 1..n
      BY <3>1
    <3>3. QED
      BY <1>3, <2>2, <2>3, <3>1, <3>2
  <2>5. /\ tx[2 + 1] = I("createWrapped", q, q) /\ tx[2 + 2] = i
        /\ tx[2 + 3] = I("closeWrapped", q, q) /\ Len(tx) = 5
    BY <1>3, <2>4
  <2> DEFINE m == 2
  <2>6. /\ m \in Nat /\ Len(tx) \in Nat /\ m + 3 <= Len(tx)
        /\ tx[m + 1] = I("createWrapped", q, q) /\ tx[m + 2] = i
        /\ tx[m + 3] = I("closeWrapped", q, q)
        /\ h[m].ok /\ h[m].chain.wrapped = {} /\ i.account \in DOMAIN h[m].chain.accounts
        /\ m + 3 = n + 2
    BY <1>3, <1>8, <1>9, <2>1, <2>4, <2>5
  <2> HIDE DEF m
  <2>7. h[m + 3].ok
    BY <1>5, <2>1, <2>6, WrapSteps
  <2>8. QED
    BY <1>5, <2>6, <2>7 DEF tx, s
<1>11. CASE ~req[q].kind.sol
  <2> DEFINE i == I("deposit", q, None)
  <2>1. i.type = "deposit" /\ i.account = q /\ i.arg = None
    BY DEF I
  <2>2. s = <<i>>
    BY <1>11 DEF DepositInstructions, s
  <2> HIDE DEF i
  <2>3. n = 1 /\ s[1] = i
    BY <2>2 DEF n
  <2>4. tx[3] = i /\ 3 \in 1..Len(tx)
    <3>1. 1 \in 1..n
      BY <2>3
    <3>2. tx[1 + 2] = i
      BY <1>3, <2>3, <3>1
    <3>3. QED
      BY <1>3, <2>3, <3>2
  <2>5. Accepts(h[2].chain, i)
    BY <1>9, <1>11, <2>1 DEF Accepts
  <2>6. h[3].ok
    BY <1>5, <1>8, <2>4, <2>5 DEF Trace
  <2>7. QED
    BY <1>5, <2>3, <2>6 DEF tx, s
<1>12. QED
  BY <1>10, <1>11

LEMMA WithdrawRuns ==
  ASSUME NEW q \in Requests, req[q].key \in Keys, NEW c \in ChainType, c.wrapped = {},
         req[q].key \in DOMAIN c.accounts, c.ata = chain.ata
  PROVE  Run(q, WithdrawInstructions(q), c).ok
<1> DEFINE a == req[q].key
           i == I("withdraw", a, q)
           j == I("withdraw", a, None)
           k == I("createAta", a, None)
<1>1. /\ i \in Instr /\ Uses(q, i) /\ i.account = a
      /\ j \in Instr /\ j.type = "withdraw" /\ j.account = a /\ j.arg = None
      /\ k \in Instr /\ k.type = "createAta"
  <2>1. a \in Keys /\ q \in Keys /\ a \in DOMAIN c.accounts
    BY DEF Keys
  <2> HIDE DEF a
  <2>2. QED
    BY <2>1, Instructions DEF InstrTypes, Uses
<1>2. CASE req[q].kind.sol
  <2>1. WithdrawInstructions(q) = CreateWrapped(q) \o <<i>> \o CloseWrapped(q)
    BY <1>2 DEF WithdrawInstructions
  <2> HIDE DEF i
  <2>2. QED
    BY <1>1, <2>1, WrapRuns
<1>3. CASE ~req[q].kind.sol /\ chain.ata
  <2>1. WithdrawInstructions(q) = <<>> \o <<j>>
    BY <1>3 DEF WithdrawInstructions
  <2>2. <<>> \o <<j>> = <<j>>
    OBVIOUS
  <2> HIDE DEF j
  <2>3. Accepts(c, j)
    BY <1>1, <1>3 DEF Accepts
  <2>4. QED
    BY <1>1, <2>1, <2>2, <2>3, OneRuns
<1>4. CASE ~req[q].kind.sol /\ ~chain.ata
  <2>1. WithdrawInstructions(q) = <<k>> \o <<j>>
    BY <1>4 DEF WithdrawInstructions
  <2> DEFINE tx == <<k>> \o <<j>>
  <2> HIDE DEF j, k
  <2>2. tx \in Seq(Instr) /\ Len(tx) = 2 /\ tx[1] = k /\ tx[2] = j
    BY <1>1
  <2> HIDE DEF tx
  <2>3. Accepts(c, k)
    BY <1>1, <1>4 DEF Accepts
  <2>4. \A d : Changes(q, c, k, d) => Accepts(d, j)
    BY <1>1 DEF Accepts, Changes
  <2>5. QED
    BY <2>1, <2>2, <2>3, <2>4, TwoRun DEF tx
<1>5. QED
  BY <1>2, <1>3, <1>4

LEMMA PlaceRuns ==
  ASSUME NEW q \in Requests, req[q].key \in Keys, NEW acc \in Account,
         NEW c \in ChainType, req[q].key \in DOMAIN c.accounts,
         c.accounts[req[q].key].oo = acc.oo
  PROVE  Run(q, PlaceInstructions(q, acc), c).ok
<1> DEFINE a == req[q].key
           i == I("initOpenOrders", a, q)
           j == I("place", a, q)
           k == I("place", a, acc.oo)
<1>1. a \in Keys /\ q \in Keys /\ acc.oo \in Keys \cup {None} /\ q # None
  BY MangoSpotAssumption DEF Keys, Account
<1>2. /\ i \in Instr /\ i.type = "initOpenOrders" /\ i.account = a /\ i.arg = q
      /\ j \in Instr /\ j.type = "place" /\ j.account = a /\ j.arg = q
      /\ k \in Instr /\ k.type = "place" /\ k.account = a /\ k.arg = acc.oo
  <2> HIDE DEF a
  <2>1. QED
    BY <1>1, Instructions DEF InstrTypes
<1>3. CASE acc.oo = None
  <2>1. PlaceInstructions(q, acc) = <<i, j>>
    BY <1>3 DEF PlaceInstructions
  <2> DEFINE tx == <<i, j>>
  <2> HIDE DEF i, j
  <2>2. Accepts(c, i)
    BY <1>2, <1>3 DEF Accepts
  <2>3. \A d : Changes(q, c, i, d) => Accepts(d, j)
    BY <1>1, <1>2 DEF Accepts, Changes
  <2>4. tx \in Seq(Instr) /\ Len(tx) = 2 /\ tx[1] = i /\ tx[2] = j
    BY <1>2
  <2> HIDE DEF tx
  <2>5. QED
    BY <2>1, <2>2, <2>3, <2>4, TwoRun DEF tx
<1>4. CASE acc.oo # None
  <2>1. PlaceInstructions(q, acc) = <<k>>
    BY <1>4 DEF PlaceInstructions
  <2> HIDE DEF k
  <2>2. Accepts(c, k)
    BY <1>2, <1>4 DEF Accepts
  <2>3. QED
    BY <1>2, <2>1, <2>2, OneRuns
<1>5. QED
  BY <1>3, <1>4

LEMMA SettleRuns ==
  ASSUME NEW q \in Requests, req[q].key \in Keys, NEW c \in ChainType,
         req[q].key \in DOMAIN c.accounts
  PROVE  Run(q, <<I("settle", req[q].key, None)>>, c).ok
           <=> c.accounts[req[q].key].oo # None
<1> DEFINE i == I("settle", req[q].key, None)
<1>1. i \in Instr /\ i.type = "settle" /\ i.account = req[q].key
  BY Instructions DEF InstrTypes
<1> HIDE DEF i
<1>2. Accepts(c, i) <=> c.accounts[req[q].key].oo # None
  BY <1>1 DEF Accepts
<1>3. QED
  BY <1>1, <1>2, OneRuns DEF i

-----------------------------------------------------------------------------
(* What is left to submit of a cancellation: it names orders of the        *)
(* account k that are on the book, each of them once.                      *)
Cancels(txs, n, k, c) ==
  /\ k \in DOMAIN c.accounts /\ c.accounts[k].oo # None
  /\ \A t \in n..Len(txs) : \A j \in 1..Len(txs[t]) :
       /\ txs[t][j].type \in {"cancel", "settle"} /\ txs[t][j].account = k
       /\ txs[t][j].type = "cancel" => txs[t][j].arg \in c.book \cap c.accounts[k].slots
  /\ \A t, u \in n..Len(txs) : \A j \in 1..Len(txs[t]) : \A l \in 1..Len(txs[u]) :
       (/\ txs[t][j].type = "cancel" /\ txs[u][l].type = "cancel"
        /\ txs[t][j].arg = txs[u][l].arg) => t = u /\ j = l

LEMMA CancelsRun ==
  ASSUME NEW q \in Requests, NEW txs, NEW n \in Nat, n <= Len(txs), Len(txs) \in Nat,
         txs[n] \in Seq(Instr), NEW k, NEW c \in ChainType, Cancels(txs, n, k, c)
  PROVE  Run(q, txs[n], c).ok /\ OnlyCancels(txs[n], Len(txs[n]))
<1> DEFINE tx == txs[n]
           m == Len(tx)
<1>1. m \in Nat /\ tx \in Seq(Instr) /\ n \in n..Len(txs)
  OBVIOUS
<1>2. /\ k \in DOMAIN c.accounts /\ c.accounts[k].oo # None
      /\ \A j \in 1..m :
           /\ tx[j].type \in {"cancel", "settle"} /\ tx[j].account = k
           /\ tx[j].type = "cancel" => tx[j].arg \in c.book \cap c.accounts[k].slots
      /\ \A j, l \in 1..m : tx[j].type = "cancel" /\ tx[l].type = "cancel"
                              /\ tx[j].arg = tx[l].arg => j = l
  BY <1>1 DEF Cancels
<1> HIDE DEF tx, m
<1>3. PICK h : Trace(q, tx, c, h) /\ Run(q, tx, c) = h[m]
  BY <1>1, Traced DEF m
<1>4. /\ h[0].ok
      /\ \A j \in 1..m : h[j].ok <=> h[j - 1].ok /\ Accepts(h[j - 1].chain, tx[j])
      /\ \A j \in 0..m : Ran([by |-> q, tx |-> tx, chain |-> c], h[j], j)
  BY <1>3 DEF Trace, m
<1>5. ASSUME NEW j \in 1..m, h[j - 1].ok
      PROVE  h[j].ok
  <2> DEFINE x == [by |-> q, tx |-> tx, chain |-> c]
             i == tx[j]
             p == j - 1
             d == h[p].chain
  <2>1. p \in 0..m /\ p \in Nat /\ p < j /\ \A l \in 1..p : l \in 1..m /\ l # j
    BY <1>1
  <2>2. OnlyCancels(tx, p)
    BY <1>2, <2>1 DEF OnlyCancels
  <2>3. x.tx = tx /\ x.chain = c
    OBVIOUS
  <2>4. Ran(x, h[p], p) /\ h[p].ok
    BY <1>4, <1>5, <2>1
  <2> HIDE DEF x, p
  <2>5. d.accounts = c.accounts /\ d.book = c.book \ Cancelled(tx, p)
    BY <2>2, <2>3, <2>4 DEF Ran
  <2>6. /\ i.type \in {"cancel", "settle"} /\ i.account = k
        /\ i.type = "cancel" => i.arg \in c.book \cap c.accounts[k].slots
    BY <1>2
  <2>7. i.type = "cancel" => i.arg \notin Cancelled(tx, p)
    BY <1>2, <2>1 DEF Cancelled, Of
  <2> HIDE DEF d, i
  <2>8. Accepts(d, i)
    <3>1. CASE i.type = "cancel"
      <4>1. i.account \in DOMAIN d.accounts /\ i.arg \in d.book \cap d.accounts[i.account].slots
        BY <1>2, <2>5, <2>6, <2>7, <3>1
      <4>2. QED
        BY <3>1, <4>1 DEF Accepts
    <3>2. CASE i.type = "settle"
      <4>1. i.account \in DOMAIN d.accounts /\ d.accounts[i.account].oo # None
        BY <1>2, <2>5, <2>6
      <4>2. QED
        BY <3>2, <4>1 DEF Accepts
    <3>3. QED
      BY <2>6, <3>1, <3>2
  <2>9. QED
    BY <1>4, <1>5, <2>8 DEF d, i, p
<1>6. h[m].ok
  <2> SUFFICES ASSUME ~h[m].ok
               PROVE  FALSE
    OBVIOUS
  <2> DEFINE T == {j \in 1..m : ~h[j].ok}
  <2>1. m # 0
    BY <1>4
  <2>2. m \in T /\ T \in SUBSET Nat
    BY <1>1, <2>1
  <2>3. PICK j \in T : \A l \in T : j <= l
    <3> HIDE DEF T
    <3>1. QED
      BY <2>2, Runs!Least
  <2>4. j \in 1..m /\ ~h[j].ok
    OBVIOUS
  <2>5. ~h[j - 1].ok
    BY <1>5, <2>4
  <2>6. j # 1
    BY <1>4, <2>5
  <2>7. j - 1 \in T /\ ~(j <= j - 1)
    BY <1>1, <2>4, <2>5, <2>6
  <2>8. QED
    BY <2>3, <2>7
<1>7. OnlyCancels(tx, m)
  BY <1>2 DEF OnlyCancels
<1>8. QED
  BY <1>3, <1>6, <1>7 DEF tx, m

LEMMA CancelsNext ==
  ASSUME NEW txs, NEW n \in Nat, n <= Len(txs), Len(txs) \in Nat, NEW k, NEW c, NEW d,
         Cancels(txs, n, k, c), d.accounts = c.accounts,
         d.book = c.book \ Cancelled(txs[n], Len(txs[n]))
  PROVE  Cancels(txs, n + 1, k, d)
<1>1. n \in n..Len(txs) /\ \A t \in n + 1..Len(txs) : t \in n..Len(txs) /\ t # n
  OBVIOUS
<1>2. ASSUME NEW t \in n + 1..Len(txs), NEW j \in 1..Len(txs[t])
      PROVE  /\ txs[t][j].type \in {"cancel", "settle"} /\ txs[t][j].account = k
             /\ txs[t][j].type = "cancel" => txs[t][j].arg \in d.book \cap d.accounts[k].slots
  <2>1. /\ txs[t][j].type \in {"cancel", "settle"} /\ txs[t][j].account = k
        /\ txs[t][j].type = "cancel" => txs[t][j].arg \in c.book \cap c.accounts[k].slots
    BY <1>1 DEF Cancels
  <2>2. txs[t][j].type = "cancel" => txs[t][j].arg \notin Cancelled(txs[n], Len(txs[n]))
    BY <1>1 DEF Cancels, Cancelled, Of
  <2>3. QED
    BY <2>1, <2>2
<1>3. QED
  BY <1>1, <1>2 DEF Cancels

LEMMA CancelsSame ==
  ASSUME NEW txs, NEW n, NEW k, NEW c, NEW d, Same(c, d), Cancels(txs, n, k, c)
  PROVE  Cancels(txs, n, k, d)
<1>1. /\ DOMAIN c.accounts = DOMAIN d.accounts
      /\ c.accounts[k].oo = d.accounts[k].oo
      /\ c.accounts[k].slots \cap c.book = d.accounts[k].slots \cap d.book
  BY DEF Same, Cancels
<1>2. QED
  BY <1>1 DEF Cancels

(* The cancellations of a list of orders, cut into transactions.           *)
LEMMA CancelPlaces ==
  ASSUME NEW q, req[q].key \in Keys, NEW orders \in Seq(Orders \cup {Foreign})
  PROVE  LET s == CancelInstructions(q, orders) IN
         /\ s \in Seq(Instr) /\ Len(s) = Len(orders) + 1
         /\ \A j \in 1..Len(orders) : s[j] = I("cancel", req[q].key, orders[j])
         /\ s[Len(orders) + 1] = I("settle", req[q].key, None)
<1> DEFINE a == req[q].key
           n == Len(orders)
           head == [j \in DOMAIN orders |-> I("cancel", a, orders[j])]
           last == I("settle", a, None)
           s == CancelInstructions(q, orders)
<1>1. /\ n \in Nat /\ DOMAIN orders = 1..n
      /\ \A j \in 1..n : orders[j] \in Orders \cup {Foreign}
  OBVIOUS
<1>2. last \in Instr /\ \A j \in 1..n : I("cancel", a, orders[j]) \in Instr
  BY <1>1, Instructions DEF InstrTypes
<1>3. s = Append(head, last)
  BY DEF CancelInstructions
<1> HIDE DEF n, a, last, s
<1>4. /\ head \in Seq(Instr) /\ Len(head) = n
      /\ \A j \in 1..n : head[j] = I("cancel", a, orders[j])
  BY <1>1, <1>2
<1> HIDE DEF head
<1>5. /\ s \in Seq(Instr) /\ Len(s) = n + 1 /\ s[n + 1] = last
      /\ \A j \in 1..n : s[j] = head[j]
  BY <1>1, <1>2, <1>3, <1>4
<1>6. QED
  BY <1>4, <1>5 DEF n, a, last, s

LEMMA CancelsBegin ==
  ASSUME NEW q, req[q].key \in Keys, NEW orders \in Seq(Orders \cup {Foreign}),
         IsInjective(orders), NEW c, req[q].key \in DOMAIN c.accounts,
         c.accounts[req[q].key].oo # None,
         ToSet(orders) \subseteq c.book \cap c.accounts[req[q].key].slots
  PROVE  Cancels(Chunks(CancelInstructions(q, orders), Cap), 1, req[q].key, c)
<1> DEFINE a == req[q].key
           n == Len(orders)
           s == CancelInstructions(q, orders)
           txs == Chunks(s, Cap)
<1>1. /\ n \in Nat /\ DOMAIN orders = 1..n /\ s \in Seq(Instr) /\ DOMAIN s = 1..n + 1
      /\ \A j \in 1..n : s[j] = I("cancel", a, orders[j])
      /\ s[n + 1] = I("settle", a, None)
  BY CancelPlaces
<1>2. \A j, l \in 1..n : orders[j] = orders[l] => j = l
  BY <1>1 DEF IsInjective
<1>3. \A j \in 1..n : orders[j] \in c.book \cap c.accounts[a].slots
  BY <1>1 DEF ToSet
<1>4. Cap \in Nat \ {0}
  BY MangoSpotAssumption
<1>5. \A j \in 1..n + 1 : j \in 1..n \/ j = n + 1
  BY <1>1
<1> HIDE DEF s, a, n
<1>6. ASSUME NEW i \in DOMAIN s
      PROVE  /\ s[i].type \in {"cancel", "settle"} /\ s[i].account = a
             /\ s[i].type = "cancel" => i \in 1..n /\ s[i].arg = orders[i]
  <2>1. \A o : /\ I("cancel", a, o).type = "cancel" /\ I("cancel", a, o).account = a
               /\ I("cancel", a, o).arg = o
               /\ I("settle", a, o).type = "settle" /\ I("settle", a, o).account = a
    BY DEF I
  <2>2. i \in 1..n \/ i = n + 1
    BY <1>1, <1>5
  <2>3. QED
    BY <1>1, <2>1, <2>2
<1>7. /\ \A k \in DOMAIN txs : \A j \in 1..Len(txs[k]) :
           /\ Start(Cap, k) + j \in DOMAIN s
           /\ txs[k][j] = s[Start(Cap, k) + j]
      /\ \A k, l \in DOMAIN txs : \A i \in 1..Len(txs[k]) : \A j \in 1..Len(txs[l]) :
           Start(Cap, k) + i = Start(Cap, l) + j => k = l /\ i = j
  BY SMTT(30), <1>1, <1>4, ChunkPlaces
<1>8. DOMAIN txs = 1..Len(txs)
  <2>1. txs \in Seq(Seq(Instr))
    BY <1>1, <1>4, Chunking
  <2> DEFINE T == Seq(Instr)
  <2> HIDE DEF T, txs
  <2>2. txs \in Seq(T)
    BY <2>1 DEF T
  <2>3. QED
    BY <2>2
<1> HIDE DEF txs
<1>9. ASSUME NEW t \in 1..Len(txs), NEW j \in 1..Len(txs[t])
      PROVE  /\ txs[t][j].type \in {"cancel", "settle"} /\ txs[t][j].account = a
             /\ txs[t][j].type = "cancel" => txs[t][j].arg \in c.book \cap c.accounts[a].slots
  BY <1>3, <1>6, <1>7, <1>8
<1>10. ASSUME NEW t \in 1..Len(txs), NEW u \in 1..Len(txs),
              NEW j \in 1..Len(txs[t]), NEW l \in 1..Len(txs[u]),
              txs[t][j].type = "cancel", txs[u][l].type = "cancel",
              txs[t][j].arg = txs[u][l].arg
       PROVE  t = u /\ j = l
  <2> DEFINE x == Start(Cap, t) + j
             y == Start(Cap, u) + l
  <2>1. x \in DOMAIN s /\ y \in DOMAIN s /\ txs[t][j] = s[x] /\ txs[u][l] = s[y]
    BY <1>7, <1>8
  <2>2. x = y => t = u /\ j = l
    BY <1>7, <1>8
  <2> HIDE DEF x, y
  <2>3. /\ x \in 1..n /\ s[x].arg = orders[x]
        /\ y \in 1..n /\ s[y].arg = orders[y]
    BY <1>6, <1>10, <2>1
  <2>4. x = y
    BY <1>2, <1>10, <2>1, <2>3
  <2>5. QED
    BY <2>2, <2>4
<1>11. QED
  BY ZenonT(30), <1>9, <1>10 DEF Cancels, a, txs, s

(* An order that the account does not list cannot be cancelled.            *)
LEMMA CancelFails ==
  ASSUME NEW q \in Requests, req[q].key \in Keys, NEW o \in Orders \cup {Foreign},
         NEW orders \in Seq(Orders \cup {Foreign}), ToSet(orders) = {o},
         NEW c \in ChainType, o \notin c.book \cap c.accounts[req[q].key].slots
  PROVE  ~Run(q, Chunks(CancelInstructions(q, orders), Cap)[1], c).ok
<1> DEFINE s == CancelInstructions(q, orders)
           txs == Chunks(s, Cap)
           tx == txs[1]
           i == I("cancel", req[q].key, o)
           n == Len(orders)
<1>1. Cap \in Nat \ {0}
  BY MangoSpotAssumption
<1>2. n \in Nat /\ n >= 1 /\ orders[1] = o
  <2>1. DOMAIN orders = 1..n /\ n \in Nat
    OBVIOUS
  <2>2. PICK j \in 1..n : orders[j] = o
    BY <2>1 DEF ToSet
  <2>3. n >= 1
    BY <2>1, <2>2
  <2>4. QED
    BY SMTT(30), <2>1, <2>3 DEF ToSet
<1>3. s \in Seq(Instr) /\ Len(s) = n + 1 /\ s[1] = i
  <2>1. 1 \in 1..n
    BY <1>2
  <2>2. QED
    BY <1>2, <2>1, CancelPlaces
<1>4. i.type = "cancel" /\ i.account = req[q].key /\ i.arg = o
  BY DEF I
<1> HIDE DEF s, i
<1>5. 1 \in DOMAIN txs /\ Start(Cap, 1) = 0 /\ Start(Cap, 1) < End(s, Cap, 1)
      /\ End(s, Cap, 1) <= Len(s) /\ End(s, Cap, 1) \in Nat
      /\ txs[1] = SubSeq(s, Start(Cap, 1) + 1, End(s, Cap, 1))
  <2>1. Len(s) \in Nat /\ Len(s) # 0
    BY <1>2, <1>3
  <2>2. Pieces(s, Cap) \in Nat /\ Pieces(s, Cap) # 0
    BY <1>1, <2>1, Bounds
  <2>3. 1 \in 1..Pieces(s, Cap)
    BY <2>2
  <2>4. DOMAIN txs = 1..Pieces(s, Cap)
    BY <1>1, <1>3, <2>2, Chunking
  <2>5. Start(Cap, 1) = 0
    BY <1>1 DEF Start
  <2>6. QED
    BY ZenonT(30), <1>1, <1>3, <2>1, <2>3, <2>4, <2>5, Bounds, Chunking
<1>6. tx \in Seq(Instr) /\ Len(tx) >= 1 /\ tx[1] = i
  <2> DEFINE e == End(s, Cap, 1)
  <2>1. e \in Nat /\ 1 <= e /\ e <= Len(s) /\ tx = SubSeq(s, 1, e)
    BY <1>5
  <2> HIDE DEF e, tx
  <2>2. \A j \in 1 .. e : s[j] \in Instr
    BY <1>3, <2>1
  <2>3. /\ tx \in Seq(Instr) /\ Len(tx) = e - 1 + 1
        /\ \A j \in 1 .. e - 1 + 1 : tx[j] = s[1 + j - 1]
    BY <2>1, <2>2, SubSeqProperties
  <2>4. 1 \in 1 .. e - 1 + 1 /\ 1 + 1 - 1 = 1 /\ Len(tx) = e
    BY <2>1, <2>3
  <2>5. QED
    BY <1>3, <2>1, <2>3, <2>4
<1> HIDE DEF tx
<1>7. ~Accepts(c, tx[1])
  BY <1>4, <1>6 DEF Accepts
<1>8. QED
  BY <1>6, <1>7, FirstFails DEF tx, txs, s

-----------------------------------------------------------------------------
(* How a request under which nothing changed will end, from where it is.   *)
Good(k, b) == \E acc \in Candidates(b) : Serviceable(k, b, acc)
Bad(k, b) == \E acc \in Candidates(b) : ~Serviceable(k, b, acc)
Succeeds(q, tx, b) == \A d \in ChainType : Same(b, d) => Run(q, tx, d).ok
Fails(q, tx, b) == \A d \in ChainType : Same(b, d) => ~Run(q, tx, d).ok

(* The answer's transactions from the n-th on are accepted and the wallet  *)
(* could ask for it, or the first is not and it could not.                 *)
Settled(q, kind, txs, n, k, b, c) ==
  \/ n = 1 /\ Len(txs) = 1 /\ Same(b, c) /\ Good(kind, b) /\ Succeeds(q, txs[1], b)
  \/ n = 1 /\ Same(b, c) /\ Bad(kind, b) /\ Fails(q, txs[1], b)
  \/ Good(kind, b) /\ Cancels(txs, n, k, c)

(* What a handler knows of the chain b between its reads.                  *)
Reading == {"bank", "source", "accounts", "account", "ata", "market", "book"}
Exists(kind, b) == kind.number < Cardinality(DOMAIN b.accounts)
Knows(r, b) ==
  /\ r.pc = "bank" => r.kind.op \in {"deposit", "withdraw"}
  /\ r.pc = "source" => r.kind.op = "deposit" /\ r.group
  /\ (r.pc = "accounts" /\ r.kind.op = "deposit") => r.group /\ (r.kind.sol \/ b.ata)
  /\ Known(r) => r.group /\ r.key \in DOMAIN b.accounts /\ Exists(r.kind, b)
  /\ (r.pc \in {"market", "book"} /\ r.kind.op # "place") =>
       /\ r.account.oo = b.accounts[r.key].oo
       /\ r.account.slots \cap b.book = b.accounts[r.key].slots \cap b.book
  /\ r.pc = "book" => r.kind.op = "cancel" /\ r.account.oo # None

Expected(q, r, b, c) ==
  /\ r.pc = "executed" => Good(r.kind, b)
  /\ r.pc \in {"aborted", "error500"} => Bad(r.kind, b)
  /\ r.pc \in Reading => Same(b, c) /\ Knows(r, b)
  /\ r.pc = "submitting" => Settled(q, r.kind, r.txs, r.next, r.key, b, c)

OutcomeInv == \A q \in Sent : ~disturbed[q] => Expected(q, req[q], begun[q], chain)

LEMMA OutcomeGives == OutcomeInv => UndisturbedOutcome
BY DEF OutcomeInv, Expected, Good, Bad, UndisturbedOutcome

(* Somebody can be served, or not.                                         *)
LEMMA SomeCandidate ==
  ASSUME NEW b
  PROVE  /\ Candidates(b) # {}
         /\ \A a \in DOMAIN b.accounts : b.accounts[a] \in Candidates(b)
         /\ DOMAIN b.accounts = {} => NewAccount \in Candidates(b)
BY DEF Candidates

LEMMA NobodyServed ==
  ASSUME NEW k, NEW b, \A acc : ~Serviceable(k, b, acc)
  PROVE  Bad(k, b)
BY SomeCandidate DEF Bad

(* A request that does not look at the chain again ends as it would have.  *)
LEMMA ExpectedElsewhere ==
  ASSUME NEW q, NEW r, NEW b, NEW c, NEW e, Expected(q, r, b, c),
         Same(c, e) \/ r.pc \notin Reading \cup {"submitting"}
  PROVE  Expected(q, r, b, e)
<1>1. CASE r.pc \notin Reading \cup {"submitting"}
  BY <1>1 DEF Expected
<1>2. CASE Same(c, e)
  <2>1. Same(b, c) => Same(b, e)
    BY <1>2, SameChains
  <2>2. Cancels(r.txs, r.next, r.key, c) => Cancels(r.txs, r.next, r.key, e)
    BY <1>2, CancelsSame
  <2>3. QED
    BY <2>1, <2>2 DEF Expected, Settled
<1>3. QED
  BY <1>1, <1>2

LEMMA OwnExpected ==
  ASSUME SpotInv, OutcomeInv, NEW q \in Sent, NEW r, req' = [req EXCEPT ![q] = r],
         chain' = chain,
         \A p \in Sent \ {q} : begun'[p] = begun[p] /\ disturbed'[p] = disturbed[p],
         ~disturbed'[q] => Expected(q, r, begun'[q], chain)
  PROVE  OutcomeInv'
<1>1. req \in [Sent -> RequestType]
  BY DEF SpotInv, Typed
<1>2. Sent' = Sent /\ req'[q] = r /\ \A p \in Sent \ {q} : req'[p] = req[p]
  BY <1>1 DEF Sent
<1>3. ASSUME NEW p \in Sent, ~disturbed'[p]
      PROVE  Expected(p, req'[p], begun'[p], chain')
  BY <1>2, <1>3 DEF OutcomeInv
<1>4. QED
  BY <1>2, <1>3 DEF OutcomeInv

(* What Finish and AnswerWith leave of a request.                          *)
LEMMA FinishRecord ==
  ASSUME SpotInv, NEW q \in Sent, NEW end, Finish(q, end)
  PROVE  \E r : req' = [req EXCEPT ![q] = r] /\ r.pc = end /\ r.kind = req[q].kind
<1> DEFINE i == Idle(req[q].kind)
           r == [i EXCEPT !.pc = end]
<1>1. req \in [Sent -> RequestType]
  BY DEF SpotInv, Typed
<1>2. /\ i \in [pc : {"idle"}, kind : {req[q].kind}, group : {FALSE}, key : {"old"},
                account : {NewAccount}, txs : {<<>>}, next : {1}]
  BY DEF Idle
<1>3. req' = [req EXCEPT ![q] = r]
  BY <1>1 DEF Finish
<1> HIDE DEF i
<1>4. r.pc = end /\ r.kind = req[q].kind
  BY <1>2
<1>5. QED
  BY <1>3, <1>4

LEMMA AnswerRecord ==
  ASSUME SpotInv, NEW q \in Sent, NEW txs, AnswerWith(q, txs), req[q].group
  PROVE  \E r : /\ req' = [req EXCEPT ![q] = r] /\ r.pc = "submitting" /\ r.txs = txs
                /\ r.next = 1 /\ r.kind = req[q].kind /\ r.key = req[q].key
<1> DEFINE i == Idle(req[q].kind)
           k == req[q].key
           r == [i EXCEPT !.pc = "submitting", !.key = k, !.txs = txs]
<1>1. req \in [Sent -> RequestType]
  BY DEF SpotInv, Typed
<1>2. /\ i \in [pc : {"idle"}, kind : {req[q].kind}, group : {FALSE}, key : {"old"},
                account : {NewAccount}, txs : {<<>>}, next : {1}]
  BY DEF Idle
<1>3. req' = [req EXCEPT ![q] = r]
  BY <1>1 DEF AnswerWith
<1> HIDE DEF i, k
<1>4. /\ r.pc = "submitting" /\ r.kind = req[q].kind /\ r.key = k /\ r.txs = txs
      /\ r.next = 1
  BY <1>2
<1>5. QED
  BY <1>3, <1>4 DEF k

LEMMA FinishExpected ==
  ASSUME SpotInv, OutcomeInv, NEW q \in Sent, NEW end \in {"aborted", "error500"},
         Finish(q, end), UNCHANGED <<chain, begun, disturbed>>,
         ~disturbed[q] => Bad(req[q].kind, begun[q])
  PROVE  OutcomeInv'
<1>1. PICK r : req' = [req EXCEPT ![q] = r] /\ r.pc = end /\ r.kind = req[q].kind
  BY FinishRecord
<1>2. ~disturbed[q] => Expected(q, r, begun[q], chain)
  BY <1>1 DEF Expected, Reading
<1>3. QED
  BY <1>1, <1>2, OwnExpected

LEMMA AnswerExpected ==
  ASSUME SpotInv, OutcomeInv, NEW q \in Sent, NEW txs, AnswerWith(q, txs),
         UNCHANGED <<chain, begun, disturbed>>,
         ~disturbed[q] => /\ req[q].group
                          /\ Settled(q, req[q].kind, txs, 1, req[q].key, begun[q], chain)
  PROVE  OutcomeInv'
<1>1. CASE req[q].group
  <2>1. PICK r : /\ req' = [req EXCEPT ![q] = r] /\ r.pc = "submitting" /\ r.txs = txs
                 /\ r.next = 1 /\ r.kind = req[q].kind /\ r.key = req[q].key
    BY <1>1, AnswerRecord
  <2>2. ~disturbed[q] => Expected(q, r, begun[q], chain)
    BY <2>1 DEF Expected, Reading
  <2>3. QED
    BY <2>1, <2>2, OwnExpected
<1>2. CASE ~req[q].group
  <2>1. PICK r : req' = [req EXCEPT ![q] = r]
    BY <1>2, FinishRecord DEF AnswerWith
  <2>2. QED
    BY <1>2, <2>1, OwnExpected
<1>3. QED
  BY <1>1, <1>2

LEMMA OneExpected ==
  ASSUME SpotInv, OutcomeInv, NEW q \in Sent, NEW tx, AnswerWith(q, <<tx>>),
         UNCHANGED <<chain, begun, disturbed>>,
         ~disturbed[q] => /\ req[q].group /\ Same(begun[q], chain)
                          /\ \/ Good(req[q].kind, begun[q]) /\ Succeeds(q, tx, begun[q])
                             \/ Bad(req[q].kind, begun[q]) /\ Fails(q, tx, begun[q])
  PROVE  OutcomeInv'
<1> DEFINE txs == <<tx>>
<1>1. Len(txs) = 1 /\ txs[1] = tx /\ AnswerWith(q, txs)
  OBVIOUS
<1> HIDE DEF txs
<1>2. QED
  BY <1>1, AnswerExpected DEF Settled

(* A read after which the request only goes on to the next.                *)
LEMMA ReadExpected ==
  ASSUME SpotInv, OutcomeInv, NEW q \in Sent, NEW r, req' = [req EXCEPT ![q] = r],
         UNCHANGED <<chain, begun, disturbed>>, req[q].pc \in Reading, r.pc \in Reading,
         ~disturbed[q] => Knows(r, begun[q])
  PROVE  OutcomeInv'
<1>1. ~disturbed[q] => Same(begun[q], chain)
  BY DEF OutcomeInv, Expected
<1>2. ~disturbed[q] => Expected(q, r, begun[q], chain)
  BY <1>1 DEF Expected, Reading
<1>3. QED
  BY <1>2, OwnExpected

LEMMA GotoRecord ==
  ASSUME SpotInv, NEW q \in Sent, NEW pc, Goto(q, pc)
  PROVE  \E r : /\ req' = [req EXCEPT ![q] = r] /\ r.pc = pc /\ r.kind = req[q].kind
                /\ r.group = req[q].group /\ r.key = req[q].key
                /\ r.account = req[q].account
<1> DEFINE x == req[q]
           r == [x EXCEPT !.pc = pc]
<1>1. req \in [Sent -> RequestType] /\ x \in RequestType
  BY DEF SpotInv, Typed
<1>2. req' = [req EXCEPT ![q] = r]
  BY <1>1 DEF Goto
<1> HIDE DEF x
<1>3. /\ r.pc = pc /\ r.kind = x.kind /\ r.group = x.group /\ r.key = x.key
      /\ r.account = x.account
  BY <1>1 DEF RequestType
<1>4. QED
  BY <1>2, <1>3 DEF x

(* An undisturbed request that is reading works on the chain it began on.  *)
LEMMA Undisturbed ==
  ASSUME SpotInv, OutcomeInv, NEW q \in Sent, ~disturbed[q], req[q].pc \in Reading
  PROVE  /\ Same(begun[q], chain) /\ Knows(req[q], begun[q])
         /\ begun[q] \in ChainType /\ begun[q].wrapped = {}
         /\ DOMAIN begun[q].accounts = DOMAIN chain.accounts
         /\ begun[q].book = chain.book /\ begun[q].ata = chain.ata
<1>1. Same(begun[q], chain) /\ Knows(req[q], begun[q])
  BY DEF OutcomeInv, Expected
<1>2. chain.wrapped = {} /\ begun[q] \in ChainType
  BY DEF SpotInv, Typed
<1>3. QED
  BY <1>1, <1>2 DEF Same

-----------------------------------------------------------------------------
(* What each step makes of the outcome.  First the reads.                  *)
LEMMA BeginExpected ==
  ASSUME SpotInv, OutcomeInv, NEW q \in Sent, Begin(q)
  PROVE  OutcomeInv'
<1> DEFINE new == CASE Op(q) \in {"deposit", "withdraw"} -> "bank"
                    [] Op(q) = "place" -> "market"
                    [] OTHER -> "accounts"
<1>1. /\ Goto(q, new) /\ UNCHANGED <<chain, disturbed>>
      /\ begun' = [begun EXCEPT ![q] = chain] /\ begun \in [Sent -> ChainType]
  BY DEF SpotInv, Typed, Begin
<1>2. /\ new \in {"bank", "market", "accounts"} /\ (new = "market" => req[q].kind.op = "place")
      /\ new = "bank" => req[q].kind.op \in {"deposit", "withdraw"}
      /\ new = "accounts" => req[q].kind.op # "deposit"
  BY DEF Op
<1> HIDE DEF new
<1>3. PICK r : /\ req' = [req EXCEPT ![q] = r] /\ r.pc = new /\ r.kind = req[q].kind
  BY <1>1, GotoRecord
<1>4. begun'[q] = chain /\ \A p \in Sent \ {q} : begun'[p] = begun[p]
  BY <1>1
<1>5. Expected(q, r, chain, chain)
  BY <1>2, <1>3, SameChains DEF Expected, Knows, Known
<1>6. QED
  BY <1>1, <1>3, <1>4, <1>5, OwnExpected

LEMMA BankLoadedExpected ==
  ASSUME SpotInv, OutcomeInv, NEW q \in Sent, BankLoaded(q)
  PROVE  OutcomeInv'
<1> DEFINE x == req[q]
           new == IF Op(q) = "deposit" THEN "source" ELSE "accounts"
           r == [x EXCEPT !.group = TRUE, !.pc = new]
<1>1. req \in [Sent -> RequestType] /\ x \in RequestType
  BY DEF SpotInv, Typed
<1>2. /\ req' = [req EXCEPT ![q] = r] /\ x.pc = "bank"
      /\ UNCHANGED <<chain, begun, disturbed>>
  BY <1>1 DEF BankLoaded
<1>3. /\ new \in {"source", "accounts"} /\ (new = "source" <=> x.kind.op = "deposit")
  BY DEF Op
<1> HIDE DEF x, new
<1>4. r.pc = new /\ r.group = TRUE /\ r.kind = x.kind
  BY <1>1 DEF RequestType
<1> HIDE DEF r
<1>5. Knows(r, begun[q])
  BY <1>3, <1>4 DEF Knows, Known
<1>6. x.pc \in Reading /\ r.pc \in Reading
  BY <1>2, <1>3, <1>4 DEF Reading
<1>7. QED
  BY <1>2, <1>5, <1>6, ReadExpected DEF x

LEMMA SourceLoadedExpected ==
  ASSUME SpotInv, OutcomeInv, NEW q \in Sent, SourceLoaded(q)
  PROVE  OutcomeInv'
<1> DEFINE b == begun[q]
           kind == req[q].kind
<1>1. req[q].pc = "source" /\ UNCHANGED <<chain, begun, disturbed>>
  BY DEF SourceLoaded
<1>2. req[q].pc \in Reading
  BY <1>1 DEF Reading
<1>3. ~disturbed[q] => kind.op = "deposit" /\ req[q].group /\ b.ata = chain.ata
  BY <1>1, <1>2, Undisturbed DEF Knows
<1>4. CASE kind.sol \/ chain.ata
  <2>1. PICK r : /\ req' = [req EXCEPT ![q] = r] /\ r.pc = "accounts" /\ r.kind = kind
                 /\ r.group = req[q].group
    BY <1>4, GotoRecord DEF SourceLoaded
  <2>2. ~disturbed[q] => Knows(r, b)
    BY <1>3, <1>4, <2>1 DEF Knows, Known
  <2>3. r.pc \in Reading
    BY <2>1 DEF Reading
  <2>4. QED
    BY <1>1, <1>2, <2>1, <2>2, <2>3, ReadExpected
<1>5. CASE ~(kind.sol \/ chain.ata)
  <2>1. Finish(q, "error500")
    BY <1>5 DEF SourceLoaded
  <2>2. ~disturbed[q] => \A acc : ~Serviceable(kind, b, acc)
    BY <1>3, <1>5 DEF Serviceable
  <2>3. QED
    BY <1>1, <2>1, <2>2, FinishExpected, NobodyServed
<1>6. QED
  BY <1>4, <1>5

LEMMA AccountsLoadedExpected ==
  ASSUME SpotInv, OutcomeInv, NEW q \in Sent, AccountsLoaded(q)
  PROVE  OutcomeInv'
<1> DEFINE x == req[q]
           b == begun[q]
<1>1. /\ req \in [Sent -> RequestType] /\ x \in RequestType /\ q \in Requests
      /\ chain \in ChainType /\ x.kind.number \in Nat
  BY DEF SpotInv, Typed, RequestType, Kind
<1>2. x.pc = "accounts" /\ UNCHANGED <<chain, begun, disturbed>> /\ x.pc \in Reading
  BY DEF AccountsLoaded, Reading
<1>3. ~disturbed[q] =>
        /\ Same(b, chain) /\ b \in ChainType /\ b.wrapped = {}
        /\ DOMAIN b.accounts = DOMAIN chain.accounts /\ b.ata = chain.ata
        /\ x.kind.op = "deposit" => x.group /\ (x.kind.sol \/ b.ata)
  BY <1>2, Undisturbed DEF Knows
<1>4. Listed(q) \subseteq DOMAIN chain.accounts /\ DOMAIN chain.accounts \subseteq Keys
  BY <1>1, ChainParts DEF Listed
<1>5. CASE /\ Op(q) = "deposit" /\ DOMAIN chain.accounts = {}
           /\ AnswerWith(q, <<CreateMangoAccount(q) \o DepositInstructions(q, q)>>)
  <2> DEFINE tx == CreateMangoAccount(q) \o DepositInstructions(q, q)
  <2>1. ASSUME ~disturbed[q]
        PROVE  Good(x.kind, b) /\ Succeeds(q, tx, b)
    <3>1. Good(x.kind, b)
      BY <1>3, <1>5, <2>1, SomeCandidate DEF Good, Serviceable, Op
    <3>2. ASSUME NEW d \in ChainType, Same(b, d)
          PROVE  Run(q, tx, d).ok
      <4>1. d.wrapped = {} /\ DOMAIN d.accounts = {} /\ (x.kind.sol \/ d.ata)
        BY <1>3, <1>5, <2>1, <3>2 DEF Same, Op
      <4>2. QED
        BY <1>1, <4>1, NewAccountRuns
    <3>3. QED
      BY <3>1, <3>2 DEF Succeeds
  <2>2. AnswerWith(q, <<tx>>) /\ x.kind.op = "deposit"
    BY <1>5 DEF Op
  <2> HIDE DEF tx
  <2>3. QED
    BY <1>2, <1>3, <2>1, <2>2, OneExpected
<1>6. CASE /\ Op(q) = "deposit"
           /\ \E a \in Listed(q) : AnswerWith(q, <<DepositInstructions(q, a)>>)
  <2>1. PICK a \in Listed(q) : AnswerWith(q, <<DepositInstructions(q, a)>>)
    BY <1>6
  <2> DEFINE tx == DepositInstructions(q, a)
  <2>2. a \in Keys /\ a \in DOMAIN chain.accounts /\ x.kind.op = "deposit"
        /\ x.kind.number < Cardinality(DOMAIN chain.accounts)
    BY <1>4, <1>6, <2>1 DEF Listed, Op
  <2>3. ASSUME ~disturbed[q]
        PROVE  Good(x.kind, b) /\ Succeeds(q, tx, b)
    <3>1. Good(x.kind, b)
      <4>1. b.accounts[a] \in Candidates(b)
        BY <1>3, <2>2, <2>3, SomeCandidate
      <4>2. Serviceable(x.kind, b, b.accounts[a])
        BY <1>3, <2>2, <2>3 DEF Serviceable
      <4>3. QED
        BY <4>1, <4>2 DEF Good
    <3>2. ASSUME NEW d \in ChainType, Same(b, d)
          PROVE  Run(q, tx, d).ok
      <4>1. d.wrapped = {} /\ a \in DOMAIN d.accounts /\ (x.kind.sol \/ d.ata)
        BY <1>3, <2>2, <2>3, <3>2 DEF Same
      <4>2. QED
        BY <1>1, <2>2, <4>1, DepositRuns
    <3>3. QED
      BY <3>1, <3>2 DEF Succeeds
  <2>4. AnswerWith(q, <<tx>>)
    BY <2>1
  <2> HIDE DEF tx
  <2>5. QED
    BY <1>2, <1>3, <2>2, <2>3, <2>4, OneExpected
<1>7. CASE /\ Op(q) # "deposit"
           /\ \E a \in Listed(q) : req' = [req EXCEPT ![q].group = TRUE, ![q].key = a,
                                                    ![q].pc = "account"]
  <2>1. PICK a \in Listed(q) : req' = [req EXCEPT ![q].group = TRUE, ![q].key = a,
                                                 ![q].pc = "account"]
    BY <1>7
  <2> DEFINE r == [x EXCEPT !.group = TRUE, !.key = a, !.pc = "account"]
  <2>2. /\ req' = [req EXCEPT ![q] = r] /\ a \in DOMAIN chain.accounts
        /\ x.kind.number < Cardinality(DOMAIN chain.accounts)
    BY <1>1, <1>4, <2>1 DEF Listed
  <2> HIDE DEF x
  <2>3. r.pc = "account" /\ r.kind = x.kind /\ r.key = a /\ r.group = TRUE
    BY <1>1 DEF RequestType
  <2> HIDE DEF r
  <2>4. ~disturbed[q] => Knows(r, b)
    BY <1>3, <2>2, <2>3 DEF Knows, Known, Exists
  <2>5. r.pc \in Reading
    BY <2>3 DEF Reading
  <2>6. QED
    BY <1>2, <2>2, <2>4, <2>5, ReadExpected DEF x
<1>8. CASE /\ Listed(q) = {} /\ (Op(q) = "deposit" => DOMAIN chain.accounts # {})
           /\ Finish(q, "error500")
  <2>1. ~(x.kind.number < Cardinality(DOMAIN chain.accounts))
    <3>1. CASE DOMAIN chain.accounts = {}
      BY <1>1, <3>1, FS_EmptySet
    <3>2. CASE DOMAIN chain.accounts # {}
      BY <1>8, <3>2 DEF Listed
    <3>3. QED
      BY <3>1, <3>2
  <2>2. ASSUME ~disturbed[q]
        PROVE  Bad(x.kind, b)
    <3>1. x.kind.op \in Ops
      BY <1>1 DEF RequestType, Kind
    <3>2. \A acc : ~Serviceable(x.kind, b, acc)
      BY <1>3, <1>8, <2>1, <2>2, <3>1 DEF Serviceable, Op, Ops
    <3>3. QED
      BY <3>2, NobodyServed
  <2>3. QED
    BY <1>2, <1>8, <2>2, FinishExpected
<1>9. QED
  BY <1>5, <1>6, <1>7, <1>8 DEF AccountsLoaded

(* What an undisturbed handler knows of the account it works on.           *)
LEMMA FoundAccount ==
  ASSUME SpotInv, OutcomeInv, NEW q \in Sent, ~disturbed[q], Known(req[q])
  PROVE  LET b == begun[q]
             r == req[q] IN
         /\ Same(b, chain) /\ b \in ChainType /\ b.wrapped = {} /\ b.ata = chain.ata
         /\ b.book = chain.book
         /\ r.group /\ r.key \in Keys /\ r.key \in DOMAIN b.accounts
         /\ Exists(r.kind, b) /\ b.accounts[r.key] \in Candidates(b)
         /\ chain.accounts[r.key].oo = b.accounts[r.key].oo
         /\ chain.accounts[r.key].slots \cap chain.book = b.accounts[r.key].slots \cap b.book
         /\ r.pc \in {"market", "book"} =>
              /\ r.account.oo = b.accounts[r.key].oo
              /\ r.account.slots \cap b.book = b.accounts[r.key].slots \cap b.book
<1> DEFINE b == begun[q]
           r == req[q]
<1>1. r.pc \in Reading /\ (r.pc \in {"market", "book"} => r.kind.op # "place")
  BY DEF Known, Reading
<1>2. /\ Same(b, chain) /\ Knows(r, b) /\ b \in ChainType /\ b.wrapped = {}
      /\ b.book = chain.book /\ b.ata = chain.ata
  BY <1>1, Undisturbed
<1>3. r.group /\ r.key \in DOMAIN b.accounts /\ Exists(r.kind, b)
  BY <1>2 DEF Knows
<1>4. b.accounts[r.key] \in Candidates(b)
  BY <1>3, SomeCandidate
<1>5. r.key \in Keys
  BY DEF SpotInv, Typed, RequestType
<1>6. /\ chain.accounts[r.key].oo = b.accounts[r.key].oo
      /\ chain.accounts[r.key].slots \cap chain.book = b.accounts[r.key].slots \cap b.book
  BY <1>2, <1>3 DEF Same
<1>7. QED
  BY <1>1, <1>2, <1>3, <1>4, <1>5, <1>6 DEF Knows

LEMMA AccountLoadedExpected ==
  ASSUME SpotInv, OutcomeInv, NEW q \in Sent, AccountLoaded(q)
  PROVE  OutcomeInv'
<1> DEFINE x == req[q]
           b == begun[q]
           acc == chain.accounts[x.key]
<1>1. /\ req \in [Sent -> RequestType] /\ x \in RequestType /\ q \in Requests
      /\ chain \in ChainType /\ RequestOK(x, b, chain, disturbed[q])
  BY DEF SpotInv, Typed
<1>2. x.pc = "account" /\ UNCHANGED <<chain, begun, disturbed>>
  BY DEF AccountLoaded
<1>3. Known(x) /\ x.pc \in Reading
  BY <1>2 DEF Known, Reading
<1>4. x.key \in DOMAIN chain.accounts /\ x.kind.op # "deposit" /\ x.kind.op \in Ops
  BY <1>1, <1>2 DEF RequestOK, Known, RequestType, Kind
<1>5. acc \in Account
  BY <1>1, <1>4, ChainParts
<1>6. ~disturbed[q] =>
        /\ Same(b, chain) /\ x.group /\ x.key \in Keys /\ x.key \in DOMAIN b.accounts
        /\ Exists(x.kind, b) /\ b.accounts[x.key] \in Candidates(b)
        /\ acc.oo = b.accounts[x.key].oo
        /\ acc.slots \cap chain.book = b.accounts[x.key].slots \cap b.book
        /\ b.book = chain.book
  BY <1>3, FoundAccount
<1>7. CASE x.kind.op = "withdraw"
  <2>1. PICK r : /\ req' = [req EXCEPT ![q] = r] /\ r.pc = "ata" /\ r.kind = x.kind
                 /\ r.group = x.group /\ r.key = x.key
    BY <1>7, GotoRecord DEF AccountLoaded, Op
  <2>2. ~disturbed[q] => Knows(r, b)
    BY <1>6, <2>1 DEF Knows
  <2>3. r.pc \in Reading
    BY <2>1 DEF Reading
  <2>4. QED
    BY <1>2, <1>3, <2>1, <2>2, <2>3, ReadExpected
<1>8. CASE x.kind.op = "place" /\ x.kind.valid
  <2> DEFINE tx == PlaceInstructions(q, acc)
  <2>1. ASSUME ~disturbed[q]
        PROVE  Good(x.kind, b) /\ Succeeds(q, tx, b)
    <3>1. Serviceable(x.kind, b, b.accounts[x.key])
      BY <1>6, <1>8, <2>1 DEF Serviceable, Exists
    <3>2. ASSUME NEW d \in ChainType, Same(b, d)
          PROVE  Run(q, tx, d).ok
      <4>1. x.key \in DOMAIN d.accounts /\ d.accounts[x.key].oo = acc.oo
        BY <1>6, <2>1, <3>2 DEF Same
      <4>2. x.key \in Keys
        BY <1>6, <2>1
      <4> HIDE DEF acc
      <4>3. QED
        BY <1>1, <1>5, <4>1, <4>2, PlaceRuns
    <3>3. QED
      BY <1>6, <2>1, <3>1, <3>2 DEF Good, Succeeds
  <2>2. AnswerWith(q, <<tx>>)
    BY <1>8 DEF AccountLoaded, Op
  <2> HIDE DEF tx
  <2>3. QED
    BY <1>2, <1>6, <2>1, <2>2, OneExpected
<1>9. CASE x.kind.op = "place" /\ ~x.kind.valid
  <2>1. Finish(q, "error500")
    BY <1>9 DEF AccountLoaded, Op
  <2>2. \A a : ~Serviceable(x.kind, b, a)
    BY <1>9 DEF Serviceable
  <2>3. QED
    BY <1>2, <2>1, <2>2, NobodyServed, FinishExpected
<1>10. CASE x.kind.op \in {"cancel", "settle"}
  <2> DEFINE r == [x EXCEPT !.pc = "market", !.account = acc]
  <2>1. req' = [req EXCEPT ![q].pc = "market", ![q].account = acc]
    BY <1>10 DEF AccountLoaded, Op
  <2>2. req' = [req EXCEPT ![q] = r]
    BY <1>1, <2>1
  <2> HIDE DEF x, acc
  <2>3. /\ r.pc = "market" /\ r.kind = x.kind /\ r.key = x.key /\ r.account = acc
        /\ r.group = x.group
    BY <1>1 DEF RequestType
  <2> HIDE DEF r
  <2>4. ~disturbed[q] => Knows(r, b)
    BY <1>6, <1>10, <2>3 DEF Knows
  <2>5. r.pc \in Reading
    BY <2>3 DEF Reading
  <2>6. QED
    BY <1>2, <1>3, <2>2, <2>4, <2>5, ReadExpected DEF x
<1>11. QED
  BY <1>4, <1>7, <1>8, <1>9, <1>10 DEF Ops

LEMMA AtaLoadedExpected ==
  ASSUME SpotInv, OutcomeInv, NEW q \in Sent, AtaLoaded(q)
  PROVE  OutcomeInv'
<1> DEFINE x == req[q]
           b == begun[q]
           tx == WithdrawInstructions(q)
<1>1. x \in RequestType /\ q \in Requests /\ RequestOK(x, b, chain, disturbed[q])
  BY DEF SpotInv, Typed
<1>2. /\ x.pc = "ata" /\ UNCHANGED <<chain, begun, disturbed>> /\ AnswerWith(q, <<tx>>)
  BY DEF AtaLoaded
<1>3. Known(x) /\ x.kind.op = "withdraw"
  BY <1>1, <1>2 DEF Known, RequestOK
<1>4. ~disturbed[q] =>
        /\ Same(b, chain) /\ b.wrapped = {} /\ b.ata = chain.ata
        /\ x.group /\ x.key \in Keys /\ x.key \in DOMAIN b.accounts
        /\ Exists(x.kind, b) /\ b.accounts[x.key] \in Candidates(b)
  BY <1>3, FoundAccount
<1>5. ASSUME ~disturbed[q]
      PROVE  Good(x.kind, b) /\ Succeeds(q, tx, b)
  <2>1. Serviceable(x.kind, b, b.accounts[x.key])
    BY <1>3, <1>4, <1>5 DEF Serviceable, Exists
  <2>2. ASSUME NEW d \in ChainType, Same(b, d)
        PROVE  Run(q, tx, d).ok
    <3>1. /\ x.key \in DOMAIN d.accounts /\ d.wrapped = {} /\ d.ata = chain.ata
          /\ x.key \in Keys
      BY <1>4, <1>5, <2>2 DEF Same
    <3>2. QED
      BY <1>1, <3>1, WithdrawRuns
  <2>3. QED
    BY <1>4, <1>5, <2>1, <2>2 DEF Good, Succeeds
<1> HIDE DEF tx
<1>6. QED
  BY <1>2, <1>4, <1>5, OneExpected

LEMMA MarketLoadedExpected ==
  ASSUME SpotInv, OutcomeInv, NEW q \in Sent, MarketLoaded(q)
  PROVE  OutcomeInv'
<1> DEFINE x == req[q]
           b == begun[q]
<1>1. x \in RequestType /\ q \in Requests /\ RequestOK(x, b, chain, disturbed[q])
  BY DEF SpotInv, Typed
<1>2. x.pc = "market" /\ UNCHANGED <<chain, begun, disturbed>> /\ x.pc \in Reading
  BY DEF MarketLoaded, Reading
<1>3. x.kind.op \in {"place", "settle", "cancel"}
  BY <1>1, <1>2 DEF RequestOK
<1>4. ~disturbed[q] /\ x.kind.op # "place" =>
        /\ Same(b, chain) /\ x.group /\ x.key \in Keys /\ x.key \in DOMAIN b.accounts
        /\ Exists(x.kind, b) /\ b.accounts[x.key] \in Candidates(b)
        /\ x.account.oo = b.accounts[x.key].oo
        /\ x.account.slots \cap b.book = b.accounts[x.key].slots \cap b.book
  BY <1>2, FoundAccount DEF Known
<1>5. CASE x.kind.op = "place"
  <2>1. PICK r : req' = [req EXCEPT ![q] = r] /\ r.pc = "accounts" /\ r.kind = x.kind
    BY <1>5, GotoRecord DEF MarketLoaded, Op
  <2>2. Knows(r, b)
    BY <1>5, <2>1 DEF Knows, Known
  <2>3. r.pc \in Reading
    BY <2>1 DEF Reading
  <2>4. QED
    BY <1>2, <2>1, <2>2, <2>3, ReadExpected
<1>6. CASE x.kind.op = "settle"
  <2> DEFINE tx == <<I("settle", x.key, None)>>
             oo == b.accounts[x.key].oo
  <2>1. AnswerWith(q, <<tx>>)
    BY <1>6 DEF MarketLoaded, Op
  <2>2. ASSUME ~disturbed[q]
        PROVE  \/ Good(x.kind, b) /\ Succeeds(q, tx, b)
               \/ Bad(x.kind, b) /\ Fails(q, tx, b)
    <3>1. /\ x.key \in DOMAIN b.accounts /\ x.key \in Keys
          /\ Exists(x.kind, b) /\ b.accounts[x.key] \in Candidates(b)
      BY <1>4, <1>6, <2>2
    <3>2. Serviceable(x.kind, b, b.accounts[x.key]) <=> oo # None
      BY <1>6, <3>1 DEF Serviceable, Exists
    <3>3. ASSUME NEW d \in ChainType, Same(b, d)
          PROVE  Run(q, tx, d).ok <=> oo # None
      <4>1. x.key \in DOMAIN d.accounts /\ d.accounts[x.key].oo = oo
        BY <3>1, <3>3 DEF Same
      <4>2. QED
        BY <1>1, <3>1, <4>1, SettleRuns
    <3> HIDE DEF tx, oo
    <3>4. CASE oo # None
      BY <3>1, <3>2, <3>3, <3>4 DEF Good, Succeeds
    <3>5. CASE oo = None
      BY <3>1, <3>2, <3>3, <3>5 DEF Bad, Fails
    <3>6. QED
      BY <3>4, <3>5
  <2> HIDE DEF tx
  <2>3. QED
    BY <1>2, <1>4, <1>6, <2>1, <2>2, OneExpected
<1>7. CASE x.kind.op = "cancel" /\ x.account.oo = None
  <2>1. Finish(q, "error500")
    BY <1>7 DEF MarketLoaded, Op
  <2>2. ASSUME ~disturbed[q]
        PROVE  Bad(x.kind, b)
    <3>1. /\ b.accounts[x.key] \in Candidates(b) /\ b.accounts[x.key].oo = None
      BY <1>4, <1>7, <2>2
    <3>2. ~Serviceable(x.kind, b, b.accounts[x.key])
      BY <1>7, <3>1 DEF Serviceable
    <3>3. QED
      BY <3>1, <3>2 DEF Bad
  <2>3. QED
    BY <1>2, <2>1, <2>2, FinishExpected
<1>8. CASE x.kind.op = "cancel" /\ x.account.oo # None
  <2>1. PICK r : /\ req' = [req EXCEPT ![q] = r] /\ r.pc = "book" /\ r.kind = x.kind
                 /\ r.group = x.group /\ r.key = x.key /\ r.account = x.account
    BY <1>8, GotoRecord DEF MarketLoaded, Op
  <2>2. ~disturbed[q] => Knows(r, b)
    BY <1>4, <1>8, <2>1 DEF Knows
  <2>3. r.pc \in Reading
    BY <2>1 DEF Reading
  <2>4. QED
    BY <1>2, <2>1, <2>2, <2>3, ReadExpected
<1>9. QED
  BY <1>3, <1>5, <1>6, <1>7, <1>8

(* An order is cancelled if the account lists it; naming another's order   *)
(* makes the first cancellation fail.                                      *)
LEMMA BookLoadedExpected ==
  ASSUME SpotInv, OutcomeInv, NEW q \in Sent, BookLoaded(q)
  PROVE  OutcomeInv'
<1> DEFINE x == req[q]
           b == begun[q]
           acc == b.accounts[x.key]
           S == ToCancel(q)
<1>1. /\ x \in RequestType /\ q \in Requests /\ chain \in ChainType /\ x.key \in Keys
  BY DEF SpotInv, Typed, RequestType
<1>2. x.pc = "book" /\ UNCHANGED <<chain, begun, disturbed>> /\ x.pc \in Reading
  BY DEF BookLoaded, Reading
<1>3. ASSUME ~disturbed[q]
      PROVE  /\ Same(b, chain) /\ b.book = chain.book
             /\ x.group /\ x.key \in DOMAIN b.accounts
             /\ Exists(x.kind, b) /\ acc \in Candidates(b)
             /\ acc.oo # None /\ x.kind.op = "cancel"
             /\ x.account.slots \cap b.book = acc.slots \cap b.book
             /\ x.key \in DOMAIN chain.accounts
             /\ chain.accounts[x.key].oo # None
             /\ chain.accounts[x.key].slots \cap chain.book = acc.slots \cap b.book
  <2>1. Knows(x, b)
    BY <1>2, <1>3, Undisturbed
  <2>2. x.kind.op = "cancel" /\ x.account.oo # None
    BY <1>2, <2>1 DEF Knows
  <2>3. Known(x)
    BY <1>2, <2>2 DEF Known
  <2>4. /\ Same(b, chain) /\ b.book = chain.book
        /\ x.group /\ x.key \in DOMAIN b.accounts
        /\ Exists(x.kind, b) /\ acc \in Candidates(b)
        /\ x.account.oo = acc.oo
        /\ x.account.slots \cap b.book = acc.slots \cap b.book
        /\ chain.accounts[x.key].oo = acc.oo
        /\ chain.accounts[x.key].slots \cap chain.book = acc.slots \cap b.book
    BY <1>2, <1>3, <2>3, FoundAccount
  <2>5. x.key \in DOMAIN chain.accounts
    BY <2>4 DEF Same
  <2>6. QED
    BY <2>2, <2>4, <2>5
<1>4. CASE x.kind.order # None /\ S = {} /\ Finish(q, "error500")
  <2>1. ASSUME ~disturbed[q]
        PROVE  Bad(x.kind, b)
    <3>1. x.kind.order \notin b.book
      BY <1>3, <1>4, <2>1 DEF ToCancel
    <3>2. ~Serviceable(x.kind, b, acc)
      BY <1>3, <1>4, <2>1, <3>1 DEF Serviceable
    <3>3. QED
      BY <1>3, <2>1, <3>2 DEF Bad
  <2>2. QED
    BY <1>2, <1>4, <2>1, FinishExpected
<1>5. CASE /\ ~(x.kind.order # None /\ S = {})
           /\ \E orders \in SetToSeqs(S) :
                AnswerWith(q, Chunks(CancelInstructions(q, orders), Cap))
  <2>1. PICK orders \in SetToSeqs(S) :
          AnswerWith(q, Chunks(CancelInstructions(q, orders), Cap))
    BY <1>5
  <2>2. S \subseteq chain.book
    BY DEF ToCancel
  <2>3. S \subseteq Orders \cup {Foreign} /\ IsFiniteSet(S)
    <3>1. chain.book \subseteq Orders \cup {Foreign}
      BY <1>1, ChainParts
    <3>2. IsFiniteSet(OldOrders \cup Requests)
      BY MangoSpotAssumption, FS_Union
    <3>3. IsFiniteSet(Orders \cup {Foreign})
      BY <3>2, FS_AddElement DEF Orders
    <3>4. QED
      BY <2>2, <3>1, <3>3, FS_Subset
  <2>4. x.kind.order # None => S = {x.kind.order}
    BY <1>5 DEF ToCancel
  <2>5. x.kind.order = None => S = x.account.slots \cap chain.book
    BY DEF ToCancel
  <2> HIDE DEF S
  <2>6. orders \in Seq(Orders \cup {Foreign}) /\ ToSet(orders) = S /\ IsInjective(orders)
    BY <2>1, <2>3, Listing
  <2> DEFINE txs == Chunks(CancelInstructions(q, orders), Cap)
  <2>7. ASSUME ~disturbed[q], S \subseteq acc.slots \cap b.book
        PROVE  Cancels(txs, 1, x.key, chain)
    <3>1. ToSet(orders) \subseteq chain.book \cap chain.accounts[x.key].slots
      BY <1>3, <2>6, <2>7
    <3>2. x.key \in DOMAIN chain.accounts /\ chain.accounts[x.key].oo # None
      BY <1>3, <2>7
    <3>3. QED
      BY <1>1, <2>6, <3>1, <3>2, CancelsBegin
  <2>8. ASSUME ~disturbed[q], x.kind.order # None, x.kind.order \notin acc.slots
        PROVE  Fails(q, txs[1], b)
    <3> DEFINE o == x.kind.order
    <3>1. o \in Orders \cup {Foreign} /\ ToSet(orders) = {o}
      BY <2>3, <2>4, <2>6, <2>8
    <3>2. ASSUME NEW d \in ChainType, Same(b, d)
          PROVE  ~Run(q, txs[1], d).ok
      <4>1. o \notin d.book \cap d.accounts[x.key].slots
        BY <1>3, <2>8, <3>2 DEF Same
      <4> HIDE DEF o
      <4>2. QED
        BY <1>1, <2>6, <3>1, <4>1, CancelFails
    <3>3. QED
      BY <3>2 DEF Fails
  <2> HIDE DEF txs
  <2>9. ASSUME ~disturbed[q]
        PROVE  Settled(q, x.kind, txs, 1, x.key, b, chain)
    <3>1. CASE x.kind.order = None \/ x.kind.order \in acc.slots
      <4>1. S \subseteq acc.slots \cap b.book
        BY <1>3, <2>2, <2>4, <2>5, <2>9, <3>1
      <4>2. x.kind.order # None => x.kind.order \in b.book \cap acc.slots
        BY <2>4, <4>1
      <4>3. Serviceable(x.kind, b, acc)
        BY <1>3, <2>9, <4>2 DEF Serviceable, Exists
      <4>4. Good(x.kind, b)
        BY <1>3, <2>9, <4>3 DEF Good
      <4>5. QED
        BY <2>7, <2>9, <4>1, <4>4 DEF Settled
    <3>2. CASE ~(x.kind.order = None \/ x.kind.order \in acc.slots)
      <4>1. ~Serviceable(x.kind, b, acc)
        BY <1>3, <2>9, <3>2 DEF Serviceable
      <4>2. Bad(x.kind, b)
        BY <1>3, <2>9, <4>1 DEF Bad
      <4>3. QED
        BY <1>3, <2>8, <2>9, <3>2, <4>2 DEF Settled
    <3>3. QED
      BY <3>1, <3>2
  <2>10. QED
    BY <1>2, <1>3, <2>1, <2>9, AnswerExpected DEF txs
<1>6. QED
  BY <1>4, <1>5 DEF BookLoaded

LEMMA ReadRejectedExpected ==
  ASSUME SpotInv, OutcomeInv, NEW q \in Sent, ReadRejected(q)
  PROVE  OutcomeInv'
<1>1. disturbed \in [Sent -> BOOLEAN]
  BY DEF SpotInv, Typed
<1>2. /\ disturbed' = [disturbed EXCEPT ![q] = TRUE] /\ Finish(q, "error500")
      /\ UNCHANGED <<chain, begun>>
  BY DEF ReadRejected
<1>3. disturbed'[q] /\ \A p \in Sent \ {q} : disturbed'[p] = disturbed[p]
  BY <1>1, <1>2
<1>4. PICK r : req' = [req EXCEPT ![q] = r]
  BY <1>2, FinishRecord
<1>5. QED
  BY <1>2, <1>3, <1>4, OwnExpected

-----------------------------------------------------------------------------
(* The steps of the chain.                                                 *)
LEMMA ElsewhereExpected ==
  ASSUME SpotInv, OutcomeInv, NEW p \in Sent, ~disturbed'[p],
         Same(chain, chain') \/ disturbed'[p] = (disturbed[p] \/ InFlight(p)),
         disturbed[p] => disturbed'[p]
  PROVE  Expected(p, req[p], begun[p], chain')
<1>1. Expected(p, req[p], begun[p], chain)
  BY DEF OutcomeInv
<1>2. ~InFlight(p) => req[p].pc \notin Reading \cup {"submitting"}
  BY DEF InFlight, Reading
<1>3. QED
  BY <1>1, <1>2, ExpectedElsewhere

LEMMA FillExpected ==
  ASSUME SpotInv, OutcomeInv, NEW o, Fill(o)
  PROVE  OutcomeInv'
<1>1. /\ Sent' = Sent /\ UNCHANGED <<req, begun>>
      /\ disturbed' = [p \in Sent |-> disturbed[p] \/ InFlight(p)]
  BY DEF Fill, Outdated, Sent
<1>2. ASSUME NEW p \in Sent, ~disturbed'[p]
      PROVE  Expected(p, req[p], begun[p], chain')
  BY <1>1, <1>2, ElsewhereExpected
<1>3. QED
  BY <1>1, <1>2 DEF OutcomeInv

LEMMA ConsumeEventsExpected ==
  ASSUME SpotInv, OutcomeInv, NEW a, ConsumeEvents(a)
  PROVE  OutcomeInv'
<1> DEFINE acc == [chain.accounts[a] EXCEPT !.slots = @ \cap chain.book]
<1>1. chain \in ChainType
  BY DEF SpotInv, Typed
<1>2. /\ a \in DOMAIN chain.accounts /\ UNCHANGED <<req, begun, disturbed>>
      /\ chain' = [chain EXCEPT !.accounts[a].slots = @ \cap chain.book]
  BY DEF ConsumeEvents
<1>3. /\ acc \in Account /\ acc.slots = chain.accounts[a].slots \cap chain.book
      /\ acc.oo = chain.accounts[a].oo
      /\ chain' = [chain EXCEPT !.accounts = [@ EXCEPT ![a] = acc]]
      /\ chain.accounts \in [DOMAIN chain.accounts -> Account]
  BY <1>1, <1>2, ChainParts DEF Account, ChainType
<1> HIDE DEF acc
<1>4. /\ DOMAIN chain'.accounts = DOMAIN chain.accounts
      /\ chain'.accounts = [chain.accounts EXCEPT ![a] = acc]
      /\ chain'.book = chain.book /\ chain'.wrapped = chain.wrapped
      /\ chain'.ata = chain.ata
  <2> DEFINE c == chain
             d == chain'
  <2>1. /\ c \in ChainType /\ a \in DOMAIN c.accounts /\ acc \in Account
        /\ d = [c EXCEPT !.accounts = [@ EXCEPT ![a] = acc]]
    BY <1>1, <1>2, <1>3
  <2> HIDE DEF c, d
  <2>2. /\ DOMAIN d.accounts = DOMAIN c.accounts
        /\ d.accounts = [c.accounts EXCEPT ![a] = acc]
        /\ d.book = c.book /\ d.wrapped = c.wrapped /\ d.ata = c.ata
    BY <2>1, ChangedAccount
  <2>3. QED
    BY <2>2 DEF c, d
<1>5. \A k \in DOMAIN chain.accounts :
        chain'.accounts[k] = IF k = a THEN acc ELSE chain.accounts[k]
  BY <1>2, <1>3, <1>4
<1>6. Same(chain, chain')
  BY <1>3, <1>4, <1>5 DEF Same
<1>7. ASSUME NEW p \in Sent, ~disturbed'[p]
      PROVE  Expected(p, req[p], begun[p], chain')
  BY <1>2, <1>6, <1>7, ElsewhereExpected
<1>8. QED
  BY <1>2, <1>7 DEF OutcomeInv, Sent

(* What is settled of an answer: its next transaction is accepted if the   *)
(* wallet could ask for it, and the rest stays settled.                    *)
LEMMA NextTransaction ==
  ASSUME SpotInv, OutcomeInv, NEW q \in Sent, ~disturbed[q], req[q].pc = "submitting"
  PROVE  LET r == req[q]
             b == begun[q]
             run == Run(q, r.txs[r.next], chain) IN
         /\ run.ok => Good(r.kind, b) /\ (r.next # Len(r.txs) => Cancels(r.txs, r.next, r.key, chain))
         /\ ~run.ok => Bad(r.kind, b)
<1> DEFINE r == req[q]
           b == begun[q]
           n == r.next
           tx == r.txs[n]
           T == Seq(Instr)
<1>1. /\ q \in Requests /\ chain \in ChainType /\ r \in RequestType
      /\ RequestOK(r, b, chain, disturbed[q])
  BY DEF SpotInv, Typed
<1>2. Settled(q, r.kind, r.txs, n, r.key, b, chain)
  BY DEF OutcomeInv, Expected
<1>3. n \in Nat /\ n <= Len(r.txs) /\ Len(r.txs) \in Nat /\ tx \in Seq(Instr)
  <2>1. r.txs \in Seq(T) /\ n \in 1..Len(r.txs)
    BY <1>1 DEF RequestType, RequestOK
  <2> HIDE DEF T, r, n
  <2>2. n \in Nat /\ n <= Len(r.txs) /\ Len(r.txs) \in Nat /\ r.txs[n] \in T
    BY <2>1
  <2>3. QED
    BY <2>2 DEF T
<1>4. CASE n = 1 /\ Len(r.txs) = 1 /\ Same(b, chain) /\ Good(r.kind, b) /\ Succeeds(q, r.txs[1], b)
  BY <1>1, <1>4 DEF Succeeds
<1>5. CASE n = 1 /\ Same(b, chain) /\ Bad(r.kind, b) /\ Fails(q, r.txs[1], b)
  BY <1>1, <1>5 DEF Fails
<1>6. CASE Good(r.kind, b) /\ Cancels(r.txs, n, r.key, chain)
  <2> DEFINE txs == r.txs
             k == r.key
  <2>1. /\ n \in Nat /\ n <= Len(txs) /\ Len(txs) \in Nat /\ txs[n] \in Seq(Instr)
        /\ Cancels(txs, n, k, chain)
    BY <1>3, <1>6
  <2> HIDE DEF r, n
  <2>2. Run(q, txs[n], chain).ok
    BY <1>1, <2>1, CancelsRun
  <2>3. QED
    BY <1>6, <2>2 DEF r, n
<1>7. QED
  BY <1>2, <1>4, <1>5, <1>6 DEF Settled

LEMMA SubmitExpected ==
  ASSUME SpotInv, OutcomeInv, NEW q \in Sent, Submit(q)
  PROVE  OutcomeInv'
<1> DEFINE r == req[q]
           b == begun[q]
           n == r.next
           tx == r.txs[n]
           T == Seq(Instr)
<1>1. /\ req \in [Sent -> RequestType] /\ r \in RequestType /\ disturbed \in [Sent -> BOOLEAN]
      /\ q \in Requests /\ chain \in ChainType /\ RequestOK(r, b, chain, disturbed[q])
  BY DEF SpotInv, Typed
<1>2. /\ r.pc = "submitting" /\ begun' = begun /\ Run(q, tx, chain).ok
      /\ \/ n = Len(r.txs) /\ Finish(q, "executed")
         \/ n # Len(r.txs) /\ req' = [req EXCEPT ![q].next = @ + 1]
      /\ \/ chain' = chain /\ disturbed' = disturbed
         \/ Outdated(Sent \ {q})
  BY DEF Submit
<1>3. /\ disturbed'[q] = disturbed[q]
      /\ \A p \in Sent \ {q} :
           /\ disturbed[p] => disturbed'[p]
           /\ Same(chain, chain') \/ disturbed'[p] = (disturbed[p] \/ InFlight(p))
  BY <1>1, <1>2, SameChains DEF Outdated
<1>4. ~disturbed[q] => Good(r.kind, b) /\ (n # Len(r.txs) => Cancels(r.txs, n, r.key, chain))
  BY <1>2, NextTransaction
<1>5. \E s : req' = [req EXCEPT ![q] = s] /\ (~disturbed[q] => Expected(q, s, b, chain'))
  <2>1. CASE Finish(q, "executed")
    <3>1. PICK s : req' = [req EXCEPT ![q] = s] /\ s.pc = "executed" /\ s.kind = r.kind
      BY <2>1, FinishRecord
    <3>2. ~disturbed[q] => Expected(q, s, b, chain')
      BY <1>4, <3>1 DEF Expected, Reading
    <3>3. QED
      BY <3>1, <3>2
  <2>2. CASE n # Len(r.txs) /\ req' = [req EXCEPT ![q].next = @ + 1]
    <3> DEFINE m == n + 1
               s == [r EXCEPT !.next = m]
               txs == r.txs
               k == r.key
    <3>1. req' = [req EXCEPT ![q] = s]
      BY <1>1, <2>2
    <3>2. /\ s.pc = "submitting" /\ s.kind = r.kind /\ s.txs = txs /\ s.next = m
          /\ s.key = k
      <4> HIDE DEF r, m
      <4>1. s.pc = r.pc /\ s.kind = r.kind /\ s.txs = r.txs /\ s.next = m /\ s.key = r.key
        BY <1>1 DEF RequestType
      <4>2. QED
        BY <1>2, <4>1
    <3>3. n \in Nat /\ n <= Len(txs) /\ Len(txs) \in Nat /\ txs[n] \in Seq(Instr)
      <4>1. txs \in Seq(T) /\ n \in 1..Len(txs)
        BY <1>1, <1>2 DEF RequestType, RequestOK
      <4> HIDE DEF T, txs, n
      <4>2. n \in Nat /\ n <= Len(txs) /\ Len(txs) \in Nat /\ txs[n] \in T
        BY <4>1
      <4>3. QED
        BY <4>2 DEF T
    <3>4. ASSUME ~disturbed[q]
          PROVE  Good(r.kind, b) /\ Cancels(txs, m, k, chain')
      <4>1. Cancels(txs, n, k, chain) /\ Good(r.kind, b)
        BY <1>4, <2>2, <3>4
      <4>2. OnlyCancels(tx, Len(tx)) =>
              /\ chain'.accounts = chain.accounts
              /\ chain'.book = chain.book \ Cancelled(tx, Len(tx))
        BY Submitted
      <4>3. tx = txs[n]
        OBVIOUS
      <4> HIDE DEF tx, txs, n, k
      <4>4. OnlyCancels(txs[n], Len(txs[n]))
        BY <1>1, <3>3, <4>1, CancelsRun
      <4>5. /\ chain'.accounts = chain.accounts
            /\ chain'.book = chain.book \ Cancelled(txs[n], Len(txs[n]))
        BY <4>2, <4>3, <4>4
      <4>6. Cancels(txs, n + 1, k, chain')
        BY <3>3, <4>1, <4>5, CancelsNext
      <4>7. QED
        BY <4>1, <4>6
    <3> HIDE DEF s, m
    <3>5. ~disturbed[q] => Expected(q, s, b, chain')
      BY <3>2, <3>4 DEF Expected, Reading, Settled
    <3>6. QED
      BY <3>1, <3>5
  <2>3. QED
    BY <1>2, <2>1, <2>2
<1>6. PICK s : req' = [req EXCEPT ![q] = s] /\ (~disturbed[q] => Expected(q, s, b, chain'))
  BY <1>5
<1>7. Sent' = Sent /\ req'[q] = s /\ \A p \in Sent \ {q} : req'[p] = req[p]
  BY <1>1, <1>6 DEF Sent
<1>8. ASSUME NEW p \in Sent, ~disturbed'[p]
      PROVE  Expected(p, req'[p], begun'[p], chain')
  <2>1. CASE p = q
    BY <1>2, <1>3, <1>6, <1>7, <1>8, <2>1
  <2>2. CASE p # q
    <3>1. Expected(p, req[p], begun[p], chain')
      BY <1>3, <1>8, <2>2, ElsewhereExpected
    <3>2. QED
      BY <1>2, <1>7, <2>2, <3>1
  <2>3. QED
    BY <2>1, <2>2
<1>9. QED
  BY <1>7, <1>8 DEF OutcomeInv

LEMMA SubmitFailsExpected ==
  ASSUME SpotInv, OutcomeInv, NEW q \in Sent, SubmitFails(q)
  PROVE  OutcomeInv'
<1>1. /\ Finish(q, "aborted") /\ UNCHANGED <<chain, begun, disturbed>>
      /\ req[q].pc = "submitting" /\ ~Run(q, req[q].txs[req[q].next], chain).ok
  BY DEF SubmitFails
<1>2. ~disturbed[q] => Bad(req[q].kind, begun[q])
  BY <1>1, NextTransaction
<1>3. QED
  BY <1>1, <1>2, FinishExpected

LEMMA OutcomeInit == Init => OutcomeInv
<1> SUFFICES ASSUME Init
             PROVE  OutcomeInv
  OBVIOUS
<1>1. PICK s \in Situations : req = [q \in DOMAIN s.kinds |-> Idle(s.kinds[q])]
  BY DEF Init
<1>2. \A q \in Sent : req[q].pc = "idle"
  BY <1>1 DEF Sent, Idle
<1>3. QED
  BY <1>2 DEF OutcomeInv, Expected, Reading

LEMMA OutcomeInductive == SpotInv /\ OutcomeInv /\ [Next]_vars => OutcomeInv'
<1> SUFFICES ASSUME SpotInv, OutcomeInv, [Next]_vars
             PROVE  OutcomeInv'
  OBVIOUS
<1>1. CASE UNCHANGED vars
  BY <1>1 DEF vars, OutcomeInv, Sent
<1>2. ASSUME NEW q \in Sent,
             \/ Begin(q) \/ BankLoaded(q) \/ SourceLoaded(q) \/ AccountsLoaded(q)
             \/ AccountLoaded(q) \/ AtaLoaded(q) \/ MarketLoaded(q) \/ BookLoaded(q)
             \/ ReadRejected(q) \/ Submit(q) \/ SubmitFails(q)
      PROVE  OutcomeInv'
  BY <1>2, BeginExpected, BankLoadedExpected, SourceLoadedExpected,
     AccountsLoadedExpected, AccountLoadedExpected, AtaLoadedExpected,
     MarketLoadedExpected, BookLoadedExpected, ReadRejectedExpected, SubmitExpected,
     SubmitFailsExpected
<1>3. ASSUME NEW o \in Orders, Fill(o)
      PROVE  OutcomeInv'
  BY <1>3, FillExpected
<1>4. ASSUME NEW a \in Keys, ConsumeEvents(a)
      PROVE  OutcomeInv'
  BY <1>4, ConsumeEventsExpected
<1>5. QED
  BY <1>1, <1>2, <1>3, <1>4 DEF Next

(* A request under which nothing changed executes only if the wallet could *)
(* ask for it and fails only if it could not, under an account the chain   *)
(* may list: whatever the handlers find missing they create before they    *)
(* use it, and what exists they do not create again.                       *)
THEOREM OutcomeAsExpected == Spec => []UndisturbedOutcome
<1>1. Spec => []OutcomeInv
  BY OutcomeInit, OutcomeInductive, SpotInvariance, PTL DEF Spec
<1>2. QED
  BY <1>1, OutcomeGives, PTL
=============================================================================
