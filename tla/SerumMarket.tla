---------------------------- MODULE SerumMarket ----------------------------
(***************************************************************************)
(* serum.service.market.ts, a new market.  The server answers with two     *)
(* transactions: one creates the five state accounts, the other creates the*)
(* two vaults and initialises the market.  Every key is made up for the    *)
(* answer; a client that asks again starts over with new ones, and pays    *)
(* their rent again.                                                       *)
(***************************************************************************)
EXTENDS Integers, FiniteSets, Sequences

CONSTANTS
  Requests,    \* the requests for a new market, each asked once
  Lots,        \* the lot sizes asked for, as numerators
  Ticks,       \* the tick sizes asked for, as numerators
  Scale,       \* the denominator of both
  BaseUnits,   \* 10^decimals of the base mint
  QuoteUnits,  \* 10^decimals of the quote mint
  MaxRent      \* bound: the wallet can pay for this many accounts

MarketAssumption ==
  /\ Lots \subseteq Int /\ Ticks \subseteq Int
  /\ Scale \in Nat \ {0}
  /\ BaseUnits \in Nat \ {0} /\ QuoteUnits \in Nat \ {0}
  /\ MaxRent \in Nat

StateRoles == <<"market", "requestQueue", "eventQueue", "bids", "asks">>
VaultRoles == <<"baseVault", "quoteVault">>

VARIABLES
  params,    \* what each request asks for
  pc,        \* where each request and its client are: idle, awaiting state,
             \* vaults or lots, answered, created, done or failed
  answer,    \* the two transactions
  existing,  \* the keys of the accounts on the chain
  markets,   \* the initialised markets
  rent,      \* what the wallet can still pay for
  stopped    \* history: whose client stopped before the end

vars == <<params, pc, answer, existing, markets, rent, stopped>>

(* Mutant: key pairs made up once, when the server starts.                 *)
Key_Shared(q, r) == [of |-> "server", role |-> r]

(* A key pair is known by the answer and the role it was made for.         *)
Key(q, r) == [of |-> q, role |-> r]
KeysOf(q, roles) == [i \in 1..Len(roles) |-> Key(q, roles[i])]
Elements(s) == {s[i] : i \in 1..Len(s)}

NoAnswer == [first |-> <<>>, second |-> <<>>, init |-> <<>>, lots |-> <<0, 0>>]

Init ==
  /\ params \in [Requests -> [lot : Lots, tick : Ticks]]
  /\ pc = [q \in Requests |-> "idle"]
  /\ answer = [q \in Requests |-> NoAnswer]
  /\ existing = {}
  /\ markets = {}
  /\ rent \in 0..MaxRent
  /\ stopped = {}

-----------------------------------------------------------------------------
(* The handler.                                                            *)

(* Math.round: halves go up.                                               *)
Round(n, d) == (2 * n + d) \div (2 * d)

BaseLotSize(p) == IF p.lot > 0 THEN Round(BaseUnits * p.lot, Scale) ELSE 0

QuoteLotSize(p) ==
  IF p.lot > 0 /\ p.tick > 0
    THEN Round(p.lot * QuoteUnits * p.tick, Scale * Scale) ELSE 0

(* Mutant: no test for a size that was rounded to zero.                    *)
LotSizesFail_Never(q) == FALSE

(* calcBaseAndQuoteLotSizes throws.                                        *)
LotSizesFail(q) == BaseLotSize(params[q]) = 0 \/ QuoteLotSize(params[q]) = 0

PrepareStateAccountsForNewMarket(q) ==
  /\ pc[q] = "idle"
  /\ pc' = [pc EXCEPT ![q] = "state"]
  /\ answer' = [answer EXCEPT ![q].first = KeysOf(q, StateRoles)]
  /\ UNCHANGED <<params, existing, markets, rent, stopped>>

PrepareVaultAccounts(q) ==
  /\ pc[q] = "state"
  /\ pc' = [pc EXCEPT ![q] = "vaults"]
  /\ answer' = [answer EXCEPT ![q].second = KeysOf(q, VaultRoles)]
  /\ UNCHANGED <<params, existing, markets, rent, stopped>>

CalcBaseAndQuoteLotSizes(q) ==
  /\ pc[q] = "vaults"
  /\ ~LotSizesFail(q)
  /\ pc' = [pc EXCEPT ![q] = "lots"]
  /\ answer' = [answer EXCEPT ![q].lots = <<BaseLotSize(params[q]), QuoteLotSize(params[q])>>]
  /\ UNCHANGED <<params, existing, markets, rent, stopped>>

(* Mutant: bids and asks change places.                                    *)
InitKeys_Swapped(a) ==
  <<a.first[1], a.first[2], a.first[3], a.first[5], a.first[4]>> \o a.second

(* The instruction takes the keys by their place among the signers.        *)
InitKeys(a) ==
  <<a.first[1], a.first[2], a.first[3], a.first[4], a.first[5],
    a.second[1], a.second[2]>>

PrepareInitMarketTransaction(q) ==
  /\ pc[q] = "lots"
  /\ pc' = [pc EXCEPT ![q] = "answered"]
  /\ answer' = [answer EXCEPT ![q].init = InitKeys(answer[q])]
  /\ UNCHANGED <<params, existing, markets, rent, stopped>>

(* A read of the rent or of a mint fails, or a lot size is nothing.        *)
Reject(q) ==
  /\ pc[q] \in {"state", "vaults"}
  /\ pc' = [pc EXCEPT ![q] = "failed"]
  /\ answer' = [answer EXCEPT ![q] = NoAnswer]
  /\ UNCHANGED <<params, existing, markets, rent, stopped>>

-----------------------------------------------------------------------------
(* The client sends the first transaction, waits until it is confirmed,    *)
(* and then sends the second; it stops when either is refused or lost, or  *)
(* when it ends itself.  A transaction that the client takes for lost may  *)
(* have run.                                                               *)

CanCreate(keys) == Cardinality(keys) <= rent /\ keys \cap existing = {}

Create(keys) ==
  /\ CanCreate(keys)
  /\ existing' = existing \cup keys
  /\ rent' = rent - Cardinality(keys)

(* Mutant: the transactions are answered in the other order.               *)
RunFirst_Vaults(q) ==
  /\ pc[q] = "answered"
  /\ Create(Elements(answer[q].second))
  /\ pc' = [pc EXCEPT ![q] = "created"]
  /\ UNCHANGED <<params, answer, markets, stopped>>

RunFirst(q) ==
  /\ pc[q] = "answered"
  /\ Create(Elements(answer[q].first))
  /\ \/ pc' = [pc EXCEPT ![q] = "created"] /\ UNCHANGED stopped
     \/ pc' = [pc EXCEPT ![q] = "failed"] /\ stopped' = stopped \cup {q}
  /\ UNCHANGED <<params, answer, markets>>

(* Serum wants the state accounts there and not yet used by any market.    *)
Initialisable(a) ==
  /\ Elements(a.first) \subseteq existing
  /\ \A m \in markets : Elements(m.keys) \cap Elements(a.init) = {}

RunSecond(q) ==
  /\ pc[q] = "created"
  /\ Initialisable(answer[q])
  /\ Create(Elements(answer[q].second))
  /\ markets' = markets \cup {[keys |-> answer[q].init, lots |-> answer[q].lots,
                               for |-> params[q], by |-> q]}
  /\ pc' = [pc EXCEPT ![q] = "done"]
  /\ UNCHANGED <<params, answer, stopped>>

Refused(q) ==
  /\ \/ pc[q] = "answered" /\ ~CanCreate(Elements(answer[q].first))
     \/ /\ pc[q] = "created"
        /\ ~(Initialisable(answer[q]) /\ CanCreate(Elements(answer[q].second)))
  /\ pc' = [pc EXCEPT ![q] = "failed"]
  /\ UNCHANGED <<params, answer, existing, markets, rent, stopped>>

GiveUp(q) ==
  /\ pc[q] \in {"answered", "created"}
  /\ pc' = [pc EXCEPT ![q] = "failed"]
  /\ stopped' = stopped \cup {q}
  /\ UNCHANGED <<params, answer, existing, markets, rent>>

-----------------------------------------------------------------------------
Handle(q) ==
  \/ PrepareStateAccountsForNewMarket(q)
  \/ PrepareVaultAccounts(q)
  \/ CalcBaseAndQuoteLotSizes(q)
  \/ PrepareInitMarketTransaction(q)

Next ==
  \E q \in Requests :
     Handle(q) \/ Reject(q) \/ RunFirst(q) \/ RunSecond(q) \/ Refused(q) \/ GiveUp(q)

Spec == Init /\ [][Next]_vars

(* Handlers go on when their reads return, and transactions are confirmed. *)
Fairness ==
  \A q \in Requests : WF_vars(Handle(q)) /\ WF_vars(RunFirst(q) \/ RunSecond(q) \/ Refused(q))

FairSpec == Spec /\ Fairness

-----------------------------------------------------------------------------
(* A market is initialised with the accounts that were created for it, each*)
(* in its own role, all of one answer; the first key of the answer is the  *)
(* market's (e2e/serum/serum.tester.ts:72).                                *)
MarketIsWhole ==
  \A m \in markets :
    m.keys = KeysOf(m.by, StateRoles \o VaultRoles) /\ Elements(m.keys) \subseteq existing

(* Lot sizes are whole and positive, and within half a unit of what was    *)
(* asked for, however small that was.                                      *)
LotsAsAsked ==
  \A m \in markets :
    LET b == m.lots[1] * Scale - BaseUnits * m.for.lot
        q == m.lots[2] * Scale * Scale - m.for.lot * QuoteUnits * m.for.tick
    IN /\ m.lots[1] > 0 /\ m.lots[2] > 0
       /\ 2 * b \in -Scale..Scale
       /\ 2 * q \in -(Scale * Scale)..(Scale * Scale)

(* Accounts whose rent is lost: there without their market.  That takes a  *)
(* client that stopped between the two transactions, or a wallet that could*)
(* pay for the first but not for the second; vaults are never left over.   *)
Orphans(q) == {k \in existing : k.of = q} # {} /\ \A m \in markets : m.by # q

OrphansExplained ==
  \A q \in Requests :
    Orphans(q) =>
      /\ {k.role : k \in {j \in existing : j.of = q}} = Elements(StateRoles)
      /\ \/ pc[q] = "created"
         \/ q \in stopped
         \/ rent < Len(VaultRoles)

(* Answers do not get in each other's way: their keys are their own, so an *)
(* answer whose client goes on, with enough in the wallet for all, becomes *)
(* a market.                                                               *)
AnswerBecomesMarket ==
  \A q \in Requests :
    pc[q] = "answered" /\ rent >= 7 * Cardinality(Requests) ~>
       q \in stopped \/ \E m \in markets : m.by = q
=============================================================================
