----------------------------- MODULE SaberPool -----------------------------
(***************************************************************************)
(* saber.client.ts, the pools: depositing into a two-token pool, taking one*)
(* token out, swapping.  A pool wants tokens of equal decimals, so one of  *)
(* its two tokens may be a wrapper around a token of fewer decimals; the   *)
(* requests wrap before they pay and unwrap what they receive.             *)
(*                                                                         *)
(* Amounts are counted in the pool's decimals.  The token accounts come    *)
(* from look-ups as in TokenAccounts; "underlying" is the account of the   *)
(* token that is wrapped.  The wrapper program's own account is looked up  *)
(* too, but for its address only: whatever the read says is thrown away.   *)
(*                                                                         *)
(* What the pool pays is the pool's affair: its fees, its balance and what *)
(* one of its own tokens is worth decide, and change with every trade.     *)
(***************************************************************************)
EXTENDS TokenAccounts, Integers, FiniteSets, SequencesExt

CONSTANTS
  Kind,     \* what each request does
  Side,     \* Side[q]: the token q withdraws, or pays to the swap
  Tagged,   \* the pool token tagged saber-decimal-wrapped, or "none":
            \* no pool of mainnetPools.json has two
  Unit,     \* what one unit of the underlying token is worth
  Markets,  \* the states the pool may be in
  Quote,    \* Quote[m][i]: what the pool pays for instruction i in state m
  Amounts,  \* bound: the amounts that clients ask for
  Situations, \* bound: which requests clients send, and the wallet before
  MaxOwned, \* bound: what it owns of a token before it asks for more
  InFlight  \* bound: the requests under way at the same time

Sides == {"A", "B"}
Kinds == {"deposit", "withdraw", "swap"}
Owned == Sides \cup {"lp", "underlying"}

Other(s) == CHOOSE t \in Sides : t # s

Pays(q, s) == Kind[q] = "deposit" \/ (Kind[q] = "swap" /\ Side[q] = s)

Receives(q, s) == \/ Kind[q] = "withdraw" /\ Side[q] = s
                  \/ Kind[q] = "swap" /\ Side[q] # s

Wraps(q) == Tagged \in Sides /\ Pays(q, Tagged)

Unwraps(q) == Tagged \in Sides /\ Receives(q, Tagged)

(* The look-ups of each service, in the order they are awaited.            *)
Look(m) == [mint |-> m, kept |-> TRUE]

PoolLookups(q) ==
  (IF Kind[q] = "swap"
     THEN <<Look(Side[q]), Look(Other(Side[q]))>>
     ELSE <<Look("A"), Look("B"), Look("lp")>>)
  \o (IF Wraps(q) \/ Unwraps(q)
        THEN <<Look("underlying")>>
        ELSE <<>>)

Minus(n, d) == IF n < d THEN 0 ELSE n - d

(* The instructions that a pool can be given.                              *)
Paid == {Minus(a, f) : a \in Amounts \cup {0}, f \in {0, 1}}

Trades == [op : {"deposit"}, n : [Sides -> Paid]]
            \cup [op : {"withdraw", "swap"}, side : Sides, n : Paid]

PoolAssumption ==
  /\ Kind \in [Requests -> Kinds]
  /\ Side \in [Requests -> Sides]
  /\ Tagged \in Sides \cup {"none"}
  /\ Owned \subseteq Mints \ {Native}
  /\ Unit \in Nat \ {0}
  /\ Quote \in [Markets -> [Trades -> Nat]]
  /\ Amounts \subseteq Nat
  /\ MaxOwned \in Nat
  /\ Situations \subseteq [sent : SUBSET Requests, purse : [Owned -> Nat]]
  /\ Calls = [q \in Requests |-> PoolLookups(q)]

VARIABLES
  ask,   \* the amounts each request names, and what conversion takes off
  sent,  \* the requests that clients send, over and over
  purse, \* the tokens in the wallet
  market \* the state of the pool

poolVars == <<vars, ask, sent, purse, market>>

NoAsk == [amount |-> [s \in Sides |-> 0], coarse |-> 0, fine |-> [s \in Sides |-> 0]]

Named(q) == IF Kind[q] = "deposit" THEN Sides ELSE {Side[q]}

(* The amounts a request may name.  getIntegerAmount cuts a float product  *)
(* down to an integer, and a product that should be whole may come out just*)
(* below: coarse is what that takes off at the underlying token's decimals,*)
(* fine at the pool's.  The same amount at the same decimals always loses  *)
(* the same.                                                               *)
Asks(q) ==
  {a \in [amount : [Sides -> Amounts \cup {0}], coarse : {0, 1}, fine : [Sides -> {0, 1}]] :
     /\ \A s \in Sides \ Named(q) : a.amount[s] = 0
     /\ \A s \in Sides : a.fine[s] = 1 => a.amount[s] > 0
     /\ a.coarse = 1 => Wraps(q) /\ a.amount[Tagged] > 0}

PoolInit ==
  /\ Init
  /\ accounts = Mints \ {Native}
  /\ ask = [q \in Requests |-> NoAsk]
  /\ \E s \in Situations : sent = s.sent /\ purse = s.purse
  /\ market \in Markets

-----------------------------------------------------------------------------
(* The instructions of an answer.                                          *)

PoolAmount(q, s) == Minus(ask[q].amount[s], ask[q].fine[s])

(* Mutant: converted with the wrapped token's decimals.                    *)
WrapAmount_PoolDecimals(q) == PoolAmount(q, Tagged)

WrapAmount(q) == Minus(ask[q].amount[Tagged], ask[q].coarse) \div Unit

(* createWrapOrUnwrapInstruction is given the amount the client named: for *)
(* a withdrawal that of pool tokens, for a swap the one paid.              *)
UnwrapAmount(q) == PoolAmount(q, Side[q])

PoolInstruction(q) ==
  IF Kind[q] = "deposit"
    THEN [op |-> "deposit", n |-> [s \in Sides |-> PoolAmount(q, s)]]
    ELSE [op |-> Kind[q], side |-> Side[q], n |-> PoolAmount(q, Side[q])]

Wrapping(q) ==
  IF Wraps(q) THEN <<[op |-> "wrap", n |-> WrapAmount(q)]>> ELSE <<>>

Unwrapping(q) ==
  IF Unwraps(q) THEN <<[op |-> "unwrap", n |-> UnwrapAmount(q)]>> ELSE <<>>

(* Mutant: the other way round.                                            *)
PoolInstructions_Reversed(q) ==
  Unwrapping(q) \o <<PoolInstruction(q)>> \o Wrapping(q)

PoolInstructions(q) ==
  Wrapping(q) \o <<PoolInstruction(q)>> \o Unwrapping(q)

-----------------------------------------------------------------------------
(* The programs: the purse that comes out in state m of the pool, none when*)
(* the instruction is refused.                                             *)

(* The token accounts each instruction names.                              *)
Uses(i) ==
  IF i.op = "deposit" THEN {"A", "B", "lp"}
  ELSE IF i.op = "withdraw" THEN {i.side, "lp"}
  ELSE IF i.op = "swap" THEN {"A", "B"}
  ELSE {Tagged, "underlying"}

Results(i, p, m) ==
  CASE i.op = "wrap" ->
         {r \in {[p EXCEPT !["underlying"] = @ - i.n, ![Tagged] = @ + i.n * Unit]} :
            i.n > 0 /\ p["underlying"] >= i.n}
    [] i.op = "unwrap" ->
         {r \in {[p EXCEPT !["underlying"] = @ + (i.n \div Unit),
                           ![Tagged] = @ - (i.n \div Unit) * Unit]} :
            i.n > 0 /\ p[Tagged] >= i.n}
    [] i.op = "deposit" ->
         {r \in {[p EXCEPT !["A"] = @ - i.n["A"], !["B"] = @ - i.n["B"],
                           !["lp"] = @ + Quote[m][i]]} :
            i.n["A"] + i.n["B"] > 0 /\ p["A"] >= i.n["A"] /\ p["B"] >= i.n["B"]}
    [] i.op = "withdraw" ->
         {r \in {[p EXCEPT !["lp"] = @ - i.n, ![i.side] = @ + Quote[m][i]]} :
            i.n > 0 /\ p["lp"] >= i.n}
    [] i.op = "swap" ->
         {r \in {[p EXCEPT ![i.side] = @ - i.n, ![Other(i.side)] = @ + Quote[m][i]]} :
            i.n > 0 /\ p[i.side] >= i.n}

RunPool(q, m) ==
  FoldLeft(LAMBDA S, i : UNION {Results(i, p, m) : p \in S},
           {purse}, PoolInstructions(q))

AccountsThere(q) ==
  /\ creates[q] \cap accounts = {}
  /\ \A k \in 1..Len(PoolInstructions(q)) :
        Uses(PoolInstructions(q)[k]) \subseteq accounts \cup creates[q]

-----------------------------------------------------------------------------
(* The handlers.  A request that is over leaves nothing in the server.     *)
Finish(q, to) ==
  /\ pc' = [pc EXCEPT ![q] = to]
  /\ idx' = [idx EXCEPT ![q] = 1]
  /\ creates' = [creates EXCEPT ![q] = {}]
  /\ observed' = [observed EXCEPT ![q] = {}]
  /\ faulted' = [faulted EXCEPT ![q] = FALSE]
  /\ ask' = [ask EXCEPT ![q] = NoAsk]

PoolBegin(q) ==
  /\ q \in sent
  /\ Cardinality({r \in Requests : pc[r] \in {"preparing", "answered"}}) < InFlight
  /\ \A s \in Owned : purse[s] <= MaxOwned
  /\ Begin(q)
  /\ UNCHANGED <<ask, sent, purse, market>>

PoolLookup(q) == Lookup(q) /\ UNCHANGED <<ask, sent, purse, market>>

(* StableSwap.load, the registry or a mint may fail.                       *)
PoolReject(q) ==
  /\ pc[q] = "preparing"
  /\ Finish(q, "idle")
  /\ UNCHANGED <<accounts, sent, purse, market>>

PoolAnswer(q) ==
  /\ Answer(q)
  /\ \E a \in Asks(q) : ask' = [ask EXCEPT ![q] = a]
  /\ UNCHANGED <<sent, purse, market>>

PoolExecute(q) ==
  /\ pc[q] = "answered"
  /\ AccountsThere(q)
  /\ purse' \in RunPool(q, market)
  /\ accounts' = accounts \cup creates[q]
  /\ Finish(q, "done")
  /\ UNCHANGED <<sent, market>>

PoolRefuse(q) ==
  /\ pc[q] = "answered"
  /\ ~AccountsThere(q) \/ RunPool(q, market) = {}
  /\ Finish(q, "failed")
  /\ UNCHANGED <<accounts, sent, purse, market>>

PoolAbandon(q) ==
  /\ pc[q] = "answered"
  /\ Finish(q, "idle")
  /\ UNCHANGED <<accounts, sent, purse, market>>

(* The wallet's owner opens and closes accounts; only empty ones close.    *)
PoolElsewhere(m) ==
  /\ OpenElsewhere(m) \/ (CloseElsewhere(m) /\ m \in Owned /\ purse[m] = 0)
  /\ UNCHANGED <<ask, sent, purse, market>>

(* What it owns beyond the bound, it sends away.                           *)
PoolSpend(s) ==
  /\ purse[s] > MaxOwned
  /\ purse' = [purse EXCEPT ![s] = MaxOwned]
  /\ UNCHANGED <<vars, ask, sent, market>>

(* Others trade with the pool.                                             *)
PoolTraded ==
  /\ market' \in Markets
  /\ UNCHANGED <<vars, ask, sent, purse>>

PoolNext ==
  \/ \E q \in Requests : \/ PoolBegin(q) \/ PoolLookup(q) \/ PoolReject(q)
                         \/ PoolAnswer(q) \/ PoolExecute(q) \/ PoolRefuse(q)
                         \/ PoolAbandon(q)
  \/ \E m \in Mints \ {Native} : PoolElsewhere(m)
  \/ \E s \in Owned : PoolSpend(s)
  \/ PoolTraded

PoolSpec == PoolInit /\ [][PoolNext]_poolVars

-----------------------------------------------------------------------------
Executed(q) == pc[q] = "answered" /\ pc'[q] = "done"
Refused(q) == pc[q] = "answered" /\ pc'[q] = "failed"

Quoted(q) == Quote[market][PoolInstruction(q)]

(* What is unwrapped is the amount the client named, of pool tokens for a  *)
(* withdrawal and of the other token for a swap, and not what the pool paid*)
(* (saber.client.ts:339, :414): the difference stays wrapped, or is taken  *)
(* from what earlier requests have left wrapped.                           *)
LeftWrapped(q) == IF Unwraps(q) THEN Quoted(q) - ask[q].amount[Side[q]] ELSE 0

(* Nothing else stays wrapped: wrapping goes by the underlying token's     *)
(* decimals, paying and unwrapping by the pool's, and each conversion may  *)
(* lose its own part, but together never more than an underlying unit.     *)
WrappedByTheQuote ==
  [][\A q \in Requests :
        Executed(q) /\ Tagged \in Sides =>
           purse'[Tagged] - purse[Tagged] - LeftWrapped(q) \in -Unit..Unit]_poolVars

(* A refused answer met with one of these: a look-up that failed or went   *)
(* out of date; too little in the wallet; an amount that is not a whole    *)
(* positive number of underlying units, or that lost one in the conversion;*)
(* or a pool that pays less than what is to be unwrapped, by more than the *)
(* wallet has left wrapped from before.                                    *)
Funds(s) == IF s = Tagged THEN purse["underlying"] * Unit ELSE purse[s]

ShortOfFunds(q) ==
  \/ \E s \in Sides : Pays(q, s) /\ Funds(s) < ask[q].amount[s]
  \/ Kind[q] = "withdraw" /\ purse["lp"] < ask[q].amount[Side[q]]

LosesInWrapping(q) ==
  /\ Wraps(q)
  /\ \/ ask[q].coarse = 1
     \/ ask[q].amount[Tagged] = 0
     \/ ask[q].amount[Tagged] % Unit # 0

NothingToMove(q) ==
  IF Kind[q] = "deposit" THEN \A s \in Sides : ask[q].amount[s] <= 1
                         ELSE ask[q].amount[Side[q]] <= 1

PoolRefusalExplained ==
  [][\A q \in Requests :
        Refused(q) =>
           \/ faulted[q]
           \/ accounts \cap Looked(q) # observed[q]
           \/ ShortOfFunds(q)
           \/ NothingToMove(q)
           \/ LosesInWrapping(q)
           \/ Unwraps(q) /\ purse[Tagged] + LeftWrapped(q) < 0]_poolVars
=============================================================================
