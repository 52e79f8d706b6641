-------------------------- MODULE MangoPerpOrders --------------------------
(***************************************************************************)
(* Orders on a Mango perp market: the conversion of a price and a size to  *)
(* whole lots, cancelling one order, and cancelling all of them.           *)
(*                                                                         *)
(* A request names a Mango account by its number, the position in the list *)
(* of the wallet's accounts as the node returns it; that list may change   *)
(* under the client.  Orders are filled while requests are under way.      *)
(***************************************************************************)
EXTENDS Integers, FiniteSets, SequencesExt, FiniteSetsExt

CONSTANTS
  Places,    \* requests of one wallet to place an order, asked repeatedly
  Cancels,   \* its requests to cancel one order or all, asked repeatedly
  Accounts,  \* Mango accounts the wallet has or may get
  First,     \* the one it has to begin with
  Orders,    \* orders that may be placed (bound)
  Asks,      \* pairs <<price, size>> that a placing may name
  Fine,      \* prices and sizes are in 1/Fine of a native unit
  BaseUnit,  \* native units in a unit of the base token
  BaseLot,   \* native base units in a base lot
  QuoteLot,  \* native quote units in a quote lot
  Slots,     \* orders an account can have in the book
  Limit,     \* the orders a cancel-all instruction may remove
  Failures   \* reads that may fail (bound)

Requests == Places \cup Cancels

(* A lot's price is a whole number of native units, as on every market of  *)
(* the group.                                                              *)
MarketAssumption ==
  /\ Places \cap Cancels = {}
  /\ First \in Accounts
  /\ {Fine, BaseUnit, BaseLot, QuoteLot, Slots, Limit} \subseteq Nat \ {0}
  /\ (QuoteLot * BaseUnit) % BaseLot = 0
  /\ Orders \subseteq Nat \ {0}
  /\ Asks \subseteq Nat \X Nat

VARIABLES
  accounts,  \* the wallet's accounts as the node lists them
  open,      \* open[a]: the orders of a in the book
  gone,      \* history: orders filled or cancelled
  via,       \* history: via[o], the number o was placed under, 0 before
  moved,     \* history: an account was listed before another
  failures,  \* reads that failed
  req        \* req[r]: how far r is (loading, loaded, answered, or over, as
             \* in Resting), what it asks and what it has found

vars == <<accounts, open, gone, via, moved, failures, req>>

Resting == {"idle", "done", "refused", "failed", "notFound"}

NoOrder == 0
NoAccount == "none"
NoAsk == <<0, 0>>

Idle == [phase |-> "idle", number |-> 0, account |-> NoAccount,
         order |-> NoOrder, ask |-> NoAsk, lots |-> <<0, 0>>,
         full |-> FALSE]

Init ==
  /\ accounts = <<First>>
  /\ open = [a \in Accounts |-> {}]
  /\ gone = {}
  /\ via = [o \in Orders |-> 0]
  /\ moved = FALSE
  /\ failures = 0
  /\ req = [r \in Requests |-> Idle]

-----------------------------------------------------------------------------
(* Lots.  BN drops the fraction of a float, and div the remainder.         *)

Native(x) == x \div Fine

NativePrice(price) == (Native(price) * BaseLot) \div (QuoteLot * BaseUnit)

(* Mutant: divided by the unit where the lot is meant.                     *)
NativeQuantity_Unit(size) == Native(size) \div BaseUnit

(* Mutant: rounded up.                                                     *)
NativeQuantity_Up(size) == (Native(size) + BaseLot - 1) \div BaseLot

NativeQuantity(size) == Native(size) \div BaseLot

-----------------------------------------------------------------------------
(* The handlers.                                                           *)

Ask(r, n, o, ask) ==
  req' = [req EXCEPT ![r] = [Idle EXCEPT !.phase = "loading", !.number = n,
                                         !.order = o, !.ask = ask]]

(* An order is cancelled under the number it was placed under.             *)
Begin(r) ==
  /\ req[r].phase \in Resting
  /\ \E n \in 1..Cardinality(Accounts) :
       \/ r \in Places /\ \E ask \in Asks : Ask(r, n, NoOrder, ask)
       \/ r \in Cancels /\ \E o \in Orders : via[o] = n /\ Ask(r, n, o, NoAsk)
       \/ r \in Cancels /\ Ask(r, n, NoOrder, NoAsk)
  /\ UNCHANGED <<accounts, open, gone, via, moved, failures>>

AccountOf(n) == accounts[n]

(* A number past the list's end is undefined, and reading its key throws.  *)
LoadAccount(r) ==
  /\ req[r].phase = "loading"
  /\ req' = IF req[r].number \in DOMAIN accounts
              THEN [req EXCEPT ![r].phase = "loaded",
                               ![r].account = AccountOf(req[r].number)]
              ELSE [req EXCEPT ![r].phase = "failed"]
  /\ UNCHANGED <<accounts, open, gone, via, moved, failures>>

AnswerPlace(r) ==
  /\ r \in Places
  /\ req[r].phase = "loaded"
  /\ req' = [req EXCEPT ![r].phase = "answered",
                        ![r].lots = <<NativePrice(req[r].ask[1]),
                                      NativeQuantity(req[r].ask[2])>>]
  /\ UNCHANGED <<accounts, open, gone, via, moved, failures>>

AsksAll(r) == req[r].order = NoOrder

(* Mutant: the account's first order instead of a search for the one named.*)
Found_First(r) ==
  open[req[r].account] # {} /\ req[r].order = Min(open[req[r].account])

Found(r) == req[r].order \in open[req[r].account]

(* One order has to be in the book still, by a second read; all orders are *)
(* cancelled without looking.                                              *)
AnswerCancel(r) ==
  /\ r \in Cancels
  /\ req[r].phase = "loaded"
  /\ req' = [req EXCEPT ![r].phase =
               IF AsksAll(r) \/ Found(r) THEN "answered" ELSE "notFound"]
  /\ UNCHANGED <<accounts, open, gone, via, moved, failures>>

(* The reads of the group, the market, the account and the book.           *)
ReadFails(r) ==
  /\ failures < Failures
  /\ \/ req[r].phase = "loading"
     \/ req[r].phase = "loaded" /\ r \in Cancels /\ ~AsksAll(r)
  /\ req' = [req EXCEPT ![r].phase = "failed"]
  /\ failures' = failures + 1
  /\ UNCHANGED <<accounts, open, gone, via, moved>>

-----------------------------------------------------------------------------
(* The Mango program.                                                      *)

Settle(r, phase) == req' = [req EXCEPT ![r].phase = phase]

Executed(r) == req' = [req EXCEPT ![r] = [Idle EXCEPT !.phase = "done"]]

Leave(a, orders) ==
  /\ open' = [open EXCEPT ![a] = @ \ orders]
  /\ gone' = gone \cup orders

Full(r) == Cardinality(open[req[r].account]) = Slots

(* An order rests in the book, or trades at once and never gets there.     *)
ExecutePlace(r) ==
  LET account == req[r].account IN
  /\ r \in Places
  /\ req[r].phase = "answered"
  /\ req[r].lots[1] > 0 /\ req[r].lots[2] > 0
  /\ ~Full(r)
  /\ \E o \in Orders :
       /\ via[o] = 0
       /\ \A p \in Orders : via[p] = 0 => o <= p
       /\ via' = [via EXCEPT ![o] = req[r].number]
       /\ \/ open' = [open EXCEPT ![account] = @ \cup {o}] /\ UNCHANGED gone
          \/ gone' = gone \cup {o} /\ UNCHANGED open
  /\ Executed(r)
  /\ UNCHANGED <<accounts, moved, failures>>

RefusePlace(r) ==
  /\ r \in Places
  /\ req[r].phase = "answered"
  /\ \/ req[r].lots[1] = 0 \/ req[r].lots[2] = 0
     \/ Full(r)
  /\ req' = [req EXCEPT ![r].phase = "refused", ![r].full = Full(r)]
  /\ UNCHANGED <<accounts, open, gone, via, moved, failures>>

(* Mutant: the instruction names an account by its number once more.       *)
Target_Renumbered(r) == accounts[req[r].number]

Target(r) == req[r].account

ExecuteCancelOne(r) ==
  /\ r \in Cancels /\ ~AsksAll(r)
  /\ req[r].phase = "answered"
  /\ req[r].order \in open[Target(r)]
  /\ Leave(Target(r), {req[r].order})
  /\ Executed(r)
  /\ UNCHANGED <<accounts, via, moved, failures>>

(* invalidIdOk is false.                                                   *)
RefuseCancelOne(r) ==
  /\ r \in Cancels /\ ~AsksAll(r)
  /\ req[r].phase = "answered"
  /\ req[r].order \notin open[Target(r)]
  /\ Settle(r, "refused")
  /\ UNCHANGED <<accounts, open, gone, via, moved, failures>>

(* Mutant: the instruction is built and not pushed.                        *)
Removed_None(a) == {{}}

(* As many as the limit allows, and all if that is enough.                 *)
Removed(a) ==
  {s \in SUBSET open[a] : Cardinality(s) = Min({Limit, Cardinality(open[a])})}

ExecuteCancelAll(r) ==
  /\ r \in Cancels /\ AsksAll(r)
  /\ req[r].phase = "answered"
  /\ \E orders \in Removed(Target(r)) : Leave(Target(r), orders)
  /\ Executed(r)
  /\ UNCHANGED <<accounts, via, moved, failures>>

Abandon(r) ==
  /\ r \in Places \/ ~AsksAll(r)
  /\ req[r].phase = "answered"
  /\ Settle(r, "idle")
  /\ UNCHANGED <<accounts, open, gone, via, moved, failures>>

(* Others trade with an order of the wallet.                               *)
Fill ==
  /\ \E a \in Accounts : \E o \in open[a] : Leave(a, {o})
  /\ UNCHANGED <<accounts, via, moved, failures, req>>

(* Another client of the wallet opens an account, listed anywhere.         *)
NewAccount ==
  /\ \E a \in Accounts \ ToSet(accounts), i \in 1..Len(accounts) + 1 :
       /\ accounts' = InsertAt(accounts, i, a)
       /\ moved' = (moved \/ i <= Len(accounts))
  /\ UNCHANGED <<open, gone, via, failures, req>>

-----------------------------------------------------------------------------
Next ==
  \/ \E r \in Requests :
       \/ Begin(r) \/ LoadAccount(r) \/ ReadFails(r)
       \/ AnswerPlace(r) \/ AnswerCancel(r)
       \/ ExecutePlace(r) \/ RefusePlace(r) \/ Abandon(r)
       \/ ExecuteCancelOne(r) \/ RefuseCancelOne(r) \/ ExecuteCancelAll(r)
  \/ Fill
  \/ NewAccount

Spec == Init /\ [][Next]_vars

(* A client that repeats cancel-all on every account it has: each account  *)
(* gets its turn, reads end, and the transaction is sent.                  *)
AskAll(r, n) ==
  /\ req[r].phase \in Resting
  /\ Ask(r, n, NoOrder, NoAsk)
  /\ UNCHANGED <<accounts, open, gone, via, moved, failures>>

Fairness ==
  \A r \in Cancels :
    /\ \A n \in 1..Cardinality(Accounts) : SF_vars(AskAll(r, n))
    /\ WF_vars(LoadAccount(r))
    /\ WF_vars(AnswerCancel(r))
    /\ WF_vars(ExecuteCancelOne(r) \/ RefuseCancelOne(r) \/ ExecuteCancelAll(r))

FairSpec == Spec /\ Fairness

-----------------------------------------------------------------------------
(* mango.client.ts:505: an order that is answered is for what was asked,   *)
(* cut down by less than one lot in price and in size.  For a sell that is *)
(* a price a little under the one asked.                                   *)
WithinALot ==
  \A r \in Requests :
    r \in Places /\ req[r].phase = "answered" =>
      LET asked == req[r].ask  lots == req[r].lots  perLot == QuoteLot * BaseUnit
      IN /\ lots[1] * perLot * Fine <= asked[1] * BaseLot
         /\ asked[1] * BaseLot < (lots[1] + 1) * perLot * Fine
         /\ lots[2] * BaseLot * Fine <= asked[2]
         /\ asked[2] < (lots[2] + 1) * BaseLot * Fine

(* A transaction is refused for a reason the client can see: it asked for  *)
(* less than one lot, the account was full, or the order it cancels was    *)
(* filled or cancelled after the handler saw it in the book.               *)
RefusalExplained ==
  \A r \in Requests :
    req[r].phase = "refused" =>
      \/ /\ r \in Places
         /\ \/ req[r].full
            \/ req[r].ask[1] * BaseLot < QuoteLot * BaseUnit * Fine
            \/ req[r].ask[2] < BaseLot * Fine
      \/ r \in Cancels /\ req[r].order \in gone

(* "Could not find perp order" (mango.client.ts:552) is answered for an    *)
(* order that is no longer there, or because the accounts were renumbered  *)
(* since it was placed.                                                    *)
NotFoundExplained ==
  \A r \in Requests :
    req[r].phase = "notFound" => req[r].order \in gone \/ moved

(* mango.client.ts:575: one cancel-all removes a limited number of orders, *)
(* fewer than an account can have; repeated, it empties every account once *)
(* nothing more is placed.                                                 *)
CancelAllEmpties == \A a \in Accounts : <>[](open[a] = {})
=============================================================================
