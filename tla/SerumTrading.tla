--------------------------- MODULE SerumTrading ----------------------------
(***************************************************************************)
(* serum.client.ts, placing orders and settling funds of one wallet on one *)
(* market, and the open-orders accounts in between.  An order needs such an*)
(* account; market.makePlaceOrderTransaction takes the first that the node *)
(* returns and otherwise adds a new one, with a fresh key, to the          *)
(* transaction.  Settling empties the first one the node returns.          *)
(*                                                                         *)
(* The token accounts both look up are the subject of TokenAccounts.       *)
(***************************************************************************)
EXTENDS Naturals, FiniteSets, FiniteSetsExt

CONSTANTS
  Places,    \* the requests to place an order, a token's worth each
  Settles,   \* the requests to settle
  Keys,      \* keys of open-orders accounts; the node returns the lower first
  None,      \* no account
  MaxTokens  \* bound: the tokens of the wallet

Handlers == Places \cup Settles

TradingAssumption ==
  /\ Places \cap Settles = {}
  /\ Keys \subseteq Nat
  /\ IsFiniteSet(Keys)
  /\ None \notin Keys
  /\ MaxTokens \in Nat

VARIABLES
  wallet,  \* the tokens in the wallet
  orders,  \* orders[k], for the accounts that exist: what is resting in the
           \* book, filled but with its event not consumed, and free to settle
  pc,      \* where each request is: idle, loading, answered, done or failed
  target,  \* the account its answer uses
  raced    \* history: a first order was prepared while another one was

vars == <<wallet, orders, pc, target, raced>>

Existing == DOMAIN orders

First == IF Existing = {} THEN None ELSE Min(Existing)

Fresh == Keys \ (Existing \cup {target[q] : q \in Handlers})

Init ==
  /\ wallet = MaxTokens
  /\ orders = [k \in {} |-> [resting |-> 0, filled |-> 0, free |-> 0]]
  /\ pc = [q \in Handlers |-> "idle"]
  /\ target = [q \in Handlers |-> None]
  /\ raced = FALSE

-----------------------------------------------------------------------------
(* The handlers.                                                           *)

Begin(q) ==
  /\ pc[q] \in {"idle", "done", "failed"}
  /\ pc' = [pc EXCEPT ![q] = "loading"]
  /\ target' = [target EXCEPT ![q] = None]
  /\ UNCHANGED <<wallet, orders, raced>>

Prepared(q, k) ==
  /\ pc[q] = "loading"
  /\ pc' = [pc EXCEPT ![q] = "answered"]
  /\ target' = [target EXCEPT ![q] = k]
  /\ UNCHANGED <<wallet, orders>>

(* Loading the market or the accounts fails, or the SDK rejects the order: *)
(* the answer is an error.                                                 *)
Reject(q) ==
  /\ pc[q] = "loading"
  /\ pc' = [pc EXCEPT ![q] = "failed"]
  /\ UNCHANGED <<wallet, orders, target, raced>>

(* Another order is prepared with an account that is yet to be created.    *)
Opening(q) == \E p \in Places \ {q} : pc[p] = "answered" /\ target[p] \notin Existing

PlaceInFirst(q) ==
  /\ Existing # {}
  /\ Prepared(q, First)
  /\ UNCHANGED raced

(* Mutant: every order gets an account of its own.                         *)
PlaceInNew_Always(q) ==
  /\ \E k \in Fresh : Prepared(q, k)
  /\ raced' = (raced \/ Opening(q))

PlaceInNew(q) ==
  /\ Existing = {}
  /\ \E k \in Fresh : Prepared(q, k)
  /\ raced' = (raced \/ Opening(q))

PreparePlaceOrder(q) == PlaceInFirst(q) \/ PlaceInNew(q)

(* Mutant: a single account does not count.                                *)
PrepareSettleFunds_ButOne(q) ==
  /\ Prepared(q, IF Cardinality(Existing) <= 1 THEN None ELSE First)
  /\ UNCHANGED raced

(* An empty answer when there is no account yet.                           *)
PrepareSettleFunds(q) ==
  /\ Prepared(q, First)
  /\ UNCHANGED raced

-----------------------------------------------------------------------------
(* The client and the Serum program.  A new account is created in the      *)
(* transaction that uses it; an order is paid from what is free in the     *)
(* account, then from the wallet.                                          *)

Finish(q, to) ==
  /\ pc' = [pc EXCEPT ![q] = to]
  /\ target' = [target EXCEPT ![q] = None]

Now(k) == IF k \in Existing THEN orders[k]
                            ELSE [resting |-> 0, filled |-> 0, free |-> 0]

Holds(k, h) == [j \in Existing \cup {k} |-> IF j = k THEN h ELSE orders[j]]

PlaceOrder(q) ==
  LET k == target[q]
      h == Now(k)
  IN /\ pc[q] = "answered"
     /\ \/ /\ h.free > 0
           /\ orders' = Holds(k, [h EXCEPT !.resting = @ + 1, !.free = @ - 1])
           /\ UNCHANGED wallet
        \/ /\ h.free = 0 /\ wallet > 0
           /\ orders' = Holds(k, [h EXCEPT !.resting = @ + 1])
           /\ wallet' = wallet - 1
     /\ Finish(q, "done")
     /\ UNCHANGED raced

SettleFunds(q) ==
  LET k == target[q]
  IN /\ pc[q] = "answered"
     /\ \/ k = None /\ UNCHANGED <<wallet, orders>>
        \/ /\ k # None
           /\ wallet' = wallet + orders[k].free
           /\ orders' = [orders EXCEPT ![k].free = 0]
     /\ Finish(q, "done")
     /\ UNCHANGED raced

(* Too little money, a lost transaction, or a user who does not sign.      *)
GiveUp(q) ==
  /\ pc[q] = "answered"
  /\ Finish(q, "failed")
  /\ UNCHANGED <<wallet, orders, raced>>

(* An order is matched or cancelled; its money is free once the event is   *)
(* consumed, by a crank that belongs to somebody else.                     *)
Match(k) ==
  /\ orders[k].resting > 0
  /\ orders' = [orders EXCEPT ![k].resting = @ - 1, ![k].filled = @ + 1]
  /\ UNCHANGED <<wallet, pc, target, raced>>

CancelElsewhere(k) ==
  /\ orders[k].resting > 0
  /\ orders' = [orders EXCEPT ![k].resting = @ - 1, ![k].free = @ + 1]
  /\ UNCHANGED <<wallet, pc, target, raced>>

ConsumeEvents(k) ==
  /\ orders[k].filled > 0
  /\ orders' = [orders EXCEPT ![k].filled = 0, ![k].free = @ + orders[k].filled]
  /\ UNCHANGED <<wallet, pc, target, raced>>

-----------------------------------------------------------------------------
PlaceStep(q) == PreparePlaceOrder(q) \/ PlaceOrder(q)
SettleStep(q) == PrepareSettleFunds(q) \/ SettleFunds(q)

Next ==
  \/ \E q \in Handlers : Begin(q) \/ Reject(q) \/ GiveUp(q)
  \/ \E q \in Places : PlaceStep(q)
  \/ \E q \in Settles : SettleStep(q)
  \/ \E k \in Existing : Match(k) \/ CancelElsewhere(k) \/ ConsumeEvents(k)

Spec == Init /\ [][Next]_vars

(* A handler whose reads came back goes on, the crank consumes events, and *)
(* the client asks for settlement again and again.  Nothing makes anybody  *)
(* place or match an order.                                                *)
Fairness ==
  /\ \A q \in Settles : /\ WF_vars(Begin(q))
                        /\ WF_vars(PrepareSettleFunds(q))
                        /\ WF_vars(SettleFunds(q))
  /\ \A k \in Keys : WF_vars(k \in Existing /\ ConsumeEvents(k))

FairSpec == Spec /\ Fairness

-----------------------------------------------------------------------------
(* A wallet gets a second open-orders account, the one serum.client.ts:162 *)
(* never looks at, only when two first orders were prepared side by side.  *)
SecondAccountOnlyByRace == Cardinality(Existing) > 1 => raced

(* The first settlement may be prepared before the first order has run and *)
(* then settles nothing (serum.client.ts:153, "run this twice"); but a     *)
(* client that goes on asking gets its money back, unless a race has left  *)
(* some in an account that is never looked at.                             *)
FreeMoneyReturns ==
  []~raced /\ <>[][~\E q \in Settles : Reject(q) \/ GiveUp(q)]_vars =>
     \A k \in Keys : (k \in Existing /\ orders[k].free > 0) ~>
                        (k \in Existing /\ orders[k].free = 0)
=============================================================================
