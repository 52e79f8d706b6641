----------------------------- MODULE MangoSpot -----------------------------
(***************************************************************************)
(* One wallet's Mango accounts and its orders on one spot market: the      *)
(* deposit, withdraw, placeSpot, cancelSpot and settleSpot services with   *)
(* MangoClient, from their reads of the chain to the transactions they     *)
(* answer with and what the chain does with them.                          *)
(*                                                                         *)
(* A handler creates what it does not find - the Mango account, the open   *)
(* orders account, the associated token account, a temporary account that  *)
(* wraps SOL - and every new account but the associated one has a key the  *)
(* handler has just generated: the chain cannot tell that two handlers     *)
(* meant the same account.                                                 *)
(***************************************************************************)
EXTENDS Naturals, FiniteSets, InstructionLists

CONSTANTS
  Requests,   \* handlers that may be in flight together, one use each
  Situations, \* the wallets, and what is asked for them, at the start
  OldOrders,  \* orders the wallet may have on the book at the start
  Foreign,    \* an order of another user of the Mango group
  None,       \* no open orders account; no order id
  Cap         \* instructions that fit into one transaction

Ops == {"deposit", "withdraw", "place", "cancel", "settle"}

(* `number' is mangoAccountNumber; `sol' tells SOL from another token;     *)
(* `order' is the order id to cancel, None for all of them; `valid' says   *)
(* whether price and size round to at least one lot.                       *)
Kind == [op : Ops, number : 0..1, sol : BOOLEAN,
         order : OldOrders \cup {Foreign, None}, valid : BOOLEAN]

VARIABLES
  chain,      \* Mango accounts, order book, token accounts
  req,        \* each request: handler and answer
  begun,      \* history: the chain when the request arrived
  disturbed   \* history: the chain changed under the request, or a read failed

vars == <<chain, req, begun, disturbed>>

(* An order that a request places is named after the request, and so is    *)
(* every key that its handler generates.                                   *)
Orders == OldOrders \cup Requests
Keys == Requests \cup {"old"}

(* A Mango account.  oo: its open orders account on this market; slots:    *)
(* the orders it lists, until the events that end them are consumed.       *)
Account == [oo : Keys \cup {None}, slots : SUBSET Orders]
NewAccount == [oo |-> None, slots |-> {}]

(* The accounts, once there is one under the key k.                        *)
With(accounts, k) ==
  [a \in DOMAIN accounts \cup {k} |-> IF a \in DOMAIN accounts THEN accounts[a] ELSE NewAccount]

(* What a wallet may have on the chain: nothing, an account, or an account *)
(* with orders, some of which may be filled.                               *)
Wallets ==
  {w \in [accounts : {<<>>, With(<<>>, "old")}
                        \cup {[a \in {"old"} |-> [oo |-> "old", slots |-> S]] :
                               S \in SUBSET OldOrders},
          book : {B \cup {Foreign} : B \in SUBSET OldOrders},
          ata : BOOLEAN, wrapped : {{}}] :
     w.book \ {Foreign} \subseteq UNION {w.accounts[k].slots : k \in DOMAIN w.accounts}}

ASSUME MangoSpotAssumption ==
  /\ Cap \in Nat \ {0}
  /\ IsFiniteSet(Requests) /\ IsFiniteSet(OldOrders)
  /\ "old" \notin Requests
  /\ Foreign \notin OldOrders \cup Requests
  /\ None \notin OldOrders \cup Requests \cup {Foreign}
  /\ \A s \in Situations :
       /\ s.wallet \in Wallets
       /\ DOMAIN s.kinds \subseteq Requests /\ Range(s.kinds) \subseteq Kind

PCs == {"idle", "bank", "source", "accounts", "account", "ata", "market",
        "book", "submitting", "executed", "aborted", "error500"}

TypeOK ==
  /\ chain.accounts \in [DOMAIN chain.accounts -> Account]
  /\ DOMAIN chain.accounts \subseteq Keys
  /\ chain.book \subseteq Orders \cup {Foreign} /\ chain.wrapped \subseteq Keys
  /\ chain.ata \in BOOLEAN
  /\ DOMAIN req \subseteq Requests
  /\ \A q \in DOMAIN req :
       /\ req[q].pc \in PCs /\ req[q].kind \in Kind
       /\ req[q].group \in BOOLEAN
       /\ req[q].key \in Keys /\ req[q].account \in Account
       /\ req[q].next \in 1..Len(req[q].txs) + 1
  /\ disturbed \in [DOMAIN req -> BOOLEAN]

-----------------------------------------------------------------------------
(* Instructions; a is a Mango account's key, k a generated key.            *)
I(type, a, k) == [type |-> type, account |-> a, arg |-> k]

(* prepareCreateMangoAccountTransaction and the two wrapped SOL helpers.   *)
CreateMangoAccount(k) == <<I("createMango", k, k), I("initMango", k, k)>>
CreateWrapped(k) == <<I("createWrapped", k, k)>>
CloseWrapped(k) == <<I("closeWrapped", k, k)>>

(* The programs.  A token instruction's argument is the wrapped account it *)
(* uses, or None for the wallet's own token account.                       *)
Accepts(c, i) ==
  CASE i.type = "createMango"   -> i.account \notin DOMAIN c.accounts
    [] i.type = "initMango"     -> TRUE
    [] i.type = "createWrapped" -> i.arg \notin c.wrapped
    [] i.type = "closeWrapped"  -> i.arg \in c.wrapped
    [] i.type = "createAta"     -> ~c.ata
    [] OTHER ->
         /\ i.account \in DOMAIN c.accounts
         /\ CASE i.type \in {"deposit", "withdraw"} ->
                   IF i.arg = None THEN c.ata ELSE i.arg \in c.wrapped
              [] i.type = "initOpenOrders" -> c.accounts[i.account].oo = None
              [] i.type = "place"  -> c.accounts[i.account].oo = i.arg /\ i.arg # None
              [] i.type = "cancel" ->
                   i.arg \in c.book \cap c.accounts[i.account].slots
              [] i.type = "settle" -> c.accounts[i.account].oo # None

Effect(q, c, i) ==
  CASE i.type = "createMango"   -> [c EXCEPT !.accounts = With(@, i.account)]
    [] i.type = "createWrapped" -> [c EXCEPT !.wrapped = @ \cup {i.arg}]
    [] i.type = "closeWrapped"  -> [c EXCEPT !.wrapped = @ \ {i.arg}]
    [] i.type = "createAta"     -> [c EXCEPT !.ata = TRUE]
    [] i.type = "initOpenOrders" ->
         [c EXCEPT !.accounts[i.account].oo = i.arg]
    [] i.type = "place" ->
         [c EXCEPT !.book = @ \cup {q},
                   !.accounts[i.account].slots = @ \cup {q}]
    [] i.type = "cancel" -> [c EXCEPT !.book = @ \ {i.arg}]
    [] OTHER -> c

Run(q, tx, c) ==
  FoldLeft(LAMBDA st, i : IF st.ok /\ Accepts(st.chain, i)
                          THEN [st EXCEPT !.chain = Effect(q, @, i)]
                          ELSE [st EXCEPT !.ok = FALSE],
           [ok |-> TRUE, chain |-> c], tx)

-----------------------------------------------------------------------------
Idle(k) == [pc |-> "idle", kind |-> k, group |-> FALSE, key |-> "old",
            account |-> NewAccount, txs |-> <<>>, next |-> 1]

Init ==
  \E s \in Situations :
    /\ chain = s.wallet
    /\ req = [q \in DOMAIN s.kinds |-> Idle(s.kinds[q])]
    /\ begun = [q \in DOMAIN s.kinds |-> chain]
    /\ disturbed = [q \in DOMAIN s.kinds |-> FALSE]

(* The requests that are sent, now or later.                               *)
Sent == DOMAIN req

Op(q) == req[q].kind.op
InFlight(q) == req[q].pc \notin {"idle", "executed", "aborted", "error500"}

Goto(q, pc) == req' = [req EXCEPT ![q].pc = pc]
Finish(q, end) == req' = [req EXCEPT ![q] = [Idle(@.kind) EXCEPT !.pc = end]]

(* An answer of one transaction, or of as many as the Builder needs.  An   *)
(* instruction that mentions the group throws unless it was loaded.        *)
AnswerWith(q, txs) ==
  IF req[q].group
  THEN req' = [req EXCEPT ![q] = [Idle(@.kind) EXCEPT !.pc = "submitting",
                                                      !.key = req[q].key, !.txs = txs]]
  ELSE Finish(q, "error500")

Begin(q) ==
  /\ req[q].pc = "idle"
  /\ Goto(q, CASE Op(q) \in {"deposit", "withdraw"} -> "bank"
               [] Op(q) = "place" -> "market"
               [] OTHER -> "accounts")
  /\ begun' = [begun EXCEPT ![q] = chain]
  /\ UNCHANGED <<chain, disturbed>>

(* Mutant: the bank is looked up without loading the group.                *)
BankLoaded_NoGroup(q) ==
  /\ req[q].pc = "bank"
  /\ Goto(q, IF Op(q) = "deposit" THEN "source" ELSE "accounts")
  /\ UNCHANGED <<chain, begun, disturbed>>

(* loadBankVaultInformation loads the group.                               *)
BankLoaded(q) ==
  /\ req[q].pc = "bank"
  /\ req' = [req EXCEPT ![q].group = TRUE,
                        ![q].pc = IF Op(q) = "deposit" THEN "source" ELSE "accounts"]
  /\ UNCHANGED <<chain, begun, disturbed>>

(* getTokenAccountsForOwner(...)[0].pubkey; SOL always has one.            *)
SourceLoaded(q) ==
  /\ req[q].pc = "source"
  /\ IF req[q].kind.sol \/ chain.ata THEN Goto(q, "accounts") ELSE Finish(q, "error500")
  /\ UNCHANGED <<chain, begun, disturbed>>

(* Mutant: the temporary account is left open.                             *)
DepositInstructions_NoClose(q, a) ==
  IF req[q].kind.sol
  THEN CreateWrapped(q) \o <<I("deposit", a, q)>>
  ELSE <<I("deposit", a, None)>>

(* prepareDepositTransaction: the instructions after the destination.      *)
DepositInstructions(q, a) ==
  IF req[q].kind.sol
  THEN CreateWrapped(q) \o <<I("deposit", a, q)>> \o CloseWrapped(q)
  ELSE <<I("deposit", a, None)>>

(* mangoAccounts[number], in whatever order the chain lists them; a number *)
(* beyond the list makes the handler throw.                                *)
Listed(q) ==
  IF req[q].kind.number < Cardinality(DOMAIN chain.accounts)
  THEN DOMAIN chain.accounts ELSE {}

(* loadUserAccounts, which loads the group if need be.                     *)
AccountsLoaded(q) ==
  /\ req[q].pc = "accounts"
  /\ \/ /\ Op(q) = "deposit" /\ DOMAIN chain.accounts = {}
        /\ AnswerWith(q, <<CreateMangoAccount(q) \o DepositInstructions(q, q)>>)
     \/ /\ Op(q) = "deposit"
        /\ \E a \in Listed(q) : AnswerWith(q, <<DepositInstructions(q, a)>>)
     \/ /\ Op(q) # "deposit"
        /\ \E a \in Listed(q) : req' = [req EXCEPT ![q].group = TRUE, ![q].key = a,
                                                   ![q].pc = "account"]
     \/ /\ Listed(q) = {} /\ (Op(q) = "deposit" => DOMAIN chain.accounts # {})
        /\ Finish(q, "error500")
  /\ UNCHANGED <<chain, begun, disturbed>>

(* Mutant: the market's key is passed for the open orders account's.       *)
PlaceInstructions_Swapped(q, acc) ==
  IF acc.oo = None
  THEN <<I("initOpenOrders", req[q].key, "market"), I("place", req[q].key, "market")>>
  ELSE <<I("place", req[q].key, acc.oo)>>

(* Mutant: a missing open orders account is not created.                   *)
PlaceInstructions_NoInit(q, acc) == <<I("place", req[q].key, acc.oo)>>

(* preparePlaceSpotOrderTransaction, from the Mango account it read.       *)
PlaceInstructions(q, acc) ==
  IF acc.oo = None
  THEN <<I("initOpenOrders", req[q].key, q), I("place", req[q].key, q)>>
  ELSE <<I("place", req[q].key, acc.oo)>>

(* nativeClient.getMangoAccount: the account as it is now.                 *)
AccountLoaded(q) ==
  LET acc == chain.accounts[req[q].key] IN
  /\ req[q].pc = "account"
  /\ CASE Op(q) = "withdraw" -> Goto(q, "ata")
       [] Op(q) = "place" ->
            IF req[q].kind.valid THEN AnswerWith(q, <<PlaceInstructions(q, acc)>>)
                                 ELSE Finish(q, "error500")
       [] OTHER -> req' = [req EXCEPT ![q].pc = "market", ![q].account = acc]
  /\ UNCHANGED <<chain, begun, disturbed>>

(* prepareWithdrawTransaction, from whether the wallet's account exists.   *)
WithdrawInstructions(q) ==
  LET a == req[q].key IN
  IF req[q].kind.sol
  THEN CreateWrapped(q) \o <<I("withdraw", a, q)>> \o CloseWrapped(q)
  ELSE (IF chain.ata THEN <<>> ELSE <<I("createAta", a, None)>>)
         \o <<I("withdraw", a, None)>>

AtaLoaded(q) ==
  /\ req[q].pc = "ata"
  /\ AnswerWith(q, <<WithdrawInstructions(q)>>)
  /\ UNCHANGED <<chain, begun, disturbed>>

(* loadSpotMarket: first for placing, last for settling; to cancel, the    *)
(* open orders account must be known by then.                              *)
MarketLoaded(q) ==
  /\ req[q].pc = "market"
  /\ CASE Op(q) = "place"  -> Goto(q, "accounts")
       [] Op(q) = "settle" ->
            AnswerWith(q, <<<<I("settle", req[q].key, None)>>>>)
       [] Op(q) = "cancel" ->
            IF req[q].account.oo = None THEN Finish(q, "error500") ELSE Goto(q, "book")
  /\ UNCHANGED <<chain, begun, disturbed>>

(* Mutant: find where filter is meant.                                     *)
ToCancel_First(q) ==
  LET found == IF req[q].kind.order # None THEN {req[q].kind.order} \cap chain.book
               ELSE req[q].account.slots \cap chain.book
  IN  IF found = {} THEN {} ELSE {CHOOSE o \in found : TRUE}

(* What to cancel: by id, any order of the group's users on this market;   *)
(* otherwise those the Mango account listed that are still on the book.    *)
ToCancel(q) ==
  IF req[q].kind.order # None
  THEN {req[q].kind.order} \cap chain.book
  ELSE req[q].account.slots \cap chain.book

CancelInstructions(q, orders) ==
  Append([n \in DOMAIN orders |-> I("cancel", req[q].key, orders[n])],
         I("settle", req[q].key, None))

(* prepareCancelSpotOrderTransaction after its second read: an id that is  *)
(* not on the book is `undefined', and reading its address throws.         *)
BookLoaded(q) ==
  /\ req[q].pc = "book"
  /\ IF req[q].kind.order # None /\ ToCancel(q) = {}
     THEN Finish(q, "error500")
     ELSE \E orders \in SetToSeqs(ToCancel(q)) :
            AnswerWith(q, Chunks(CancelInstructions(q, orders), Cap))
  /\ UNCHANGED <<chain, begun, disturbed>>

(* Mutant: a failed read of the accounts reads as an empty list, as the    *)
(* catch in loadUserAccounts has it.                                       *)
ReadRejected_Swallowed(q) ==
  /\ InFlight(q) /\ req[q].pc # "submitting"
  /\ IF req[q].pc = "accounts" /\ Op(q) = "deposit"
     THEN AnswerWith(q, <<CreateMangoAccount(q) \o DepositInstructions(q, q)>>)
     ELSE Finish(q, "error500")
  /\ disturbed' = [disturbed EXCEPT ![q] = TRUE]
  /\ UNCHANGED <<chain, begun>>

(* Any of the reads may be rejected.                                       *)
ReadRejected(q) ==
  /\ InFlight(q) /\ req[q].pc # "submitting"
  /\ Finish(q, "error500")
  /\ disturbed' = [disturbed EXCEPT ![q] = TRUE]
  /\ UNCHANGED <<chain, begun>>

-----------------------------------------------------------------------------
(* Every other handler under way in S works from a chain that has changed. *)
Outdated(S) == disturbed' = [q \in Sent |-> disturbed[q] \/ (q \in S /\ InFlight(q))]

(* The client submits the transactions in order, to the first that fails.  *)
Submit(q) ==
  LET run == Run(q, req[q].txs[req[q].next], chain) IN
  /\ req[q].pc = "submitting"
  /\ run.ok
  /\ chain' = run.chain
  /\ IF req[q].next = Len(req[q].txs) THEN Finish(q, "executed")
                                      ELSE req' = [req EXCEPT ![q].next = @ + 1]
  /\ IF run.chain = chain THEN UNCHANGED disturbed ELSE Outdated(Sent \ {q})
  /\ UNCHANGED begun

SubmitFails(q) ==
  /\ req[q].pc = "submitting"
  /\ ~Run(q, req[q].txs[req[q].next], chain).ok
  /\ Finish(q, "aborted")
  /\ UNCHANGED <<chain, begun, disturbed>>

(* An order fills; later its event is consumed and its slot is free.       *)
Fill(o) ==
  /\ o \in chain.book
  /\ chain' = [chain EXCEPT !.book = @ \ {o}]
  /\ Outdated(Sent)
  /\ UNCHANGED <<req, begun>>

ConsumeEvents(a) ==
  /\ a \in DOMAIN chain.accounts
  /\ ~(chain.accounts[a].slots \subseteq chain.book)
  /\ chain' = [chain EXCEPT !.accounts[a].slots = @ \cap chain.book]
  /\ UNCHANGED <<req, begun, disturbed>>

Next ==
  \/ \E q \in Sent :
       \/ Begin(q) \/ BankLoaded(q) \/ SourceLoaded(q) \/ AccountsLoaded(q)
       \/ AccountLoaded(q) \/ AtaLoaded(q) \/ MarketLoaded(q) \/ BookLoaded(q)
       \/ ReadRejected(q) \/ Submit(q) \/ SubmitFails(q)
  \/ \E o \in Orders : Fill(o)
  \/ \E a \in Keys : ConsumeEvents(a)

Spec == Init /\ [][Next]_vars

-----------------------------------------------------------------------------
(* What the wallet may ask, told without the handler's steps, if the chain *)
(* lists acc under the number asked for.                                   *)
Serviceable(k, c, acc) ==
  LET keys == DOMAIN c.accounts
      exists == k.number < Cardinality(keys)
  IN  CASE k.op = "deposit"  -> (exists \/ keys = {}) /\ (k.sol \/ c.ata)
        [] k.op = "withdraw" -> exists
        [] k.op = "place"    -> exists /\ k.valid
        [] k.op = "settle"   -> exists /\ acc.oo # None
        [] k.op = "cancel"   -> /\ exists /\ acc.oo # None
                                /\ k.order # None => k.order \in c.book \cap acc.slots

(* The accounts that the chain may list first or second, if there is any.  *)
Candidates(c) ==
  IF DOMAIN c.accounts = {} THEN {NewAccount}
  ELSE {c.accounts[a] : a \in DOMAIN c.accounts}

(* A request under which nothing changed executes exactly when the wallet  *)
(* could ask for it: whatever it finds missing is created before it is     *)
(* used, the group is loaded before any instruction names it, and nothing  *)
(* that exists is created again.                                           *)
UndisturbedOutcome ==
  \A q \in Sent : ~disturbed[q] =>
    /\ req[q].pc = "executed" =>
         \E acc \in Candidates(begun[q]) : Serviceable(req[q].kind, begun[q], acc)
    /\ req[q].pc \in {"aborted", "error500"} =>
         \E acc \in Candidates(begun[q]) : ~Serviceable(req[q].kind, begun[q], acc)

(* What the chain refuses was overtaken: the open orders account or the    *)
(* wallet's token account that the answer creates was missing when the     *)
(* request arrived and has been created by another request since, or an    *)
(* order it cancels is gone; or the client asked for an order that is not  *)
(* the account's, or to settle where no order was ever placed.  A deposit  *)
(* is never refused.                                                       *)
OpenedSince(q, a) ==
  /\ a \in DOMAIN begun[q].accounts => begun[q].accounts[a].oo = None
  /\ chain.accounts[a].oo # None

SpotRefusalExplained ==
  [][\A q \in Sent :
       LET k == req[q].kind
           a == req[q].key IN
       (req[q].pc = "submitting" /\ req'[q].pc = "aborted") =>
         \/ k.op = "place" /\ OpenedSince(q, a)
         \/ k.op = "withdraw" /\ ~begun[q].ata /\ chain.ata
         \/ k.op = "settle" /\ chain.accounts[a].oo = None
         \/ /\ k.op = "cancel"
            /\ IF k.order = None THEN disturbed[q]
               ELSE k.order \notin chain.book \cap chain.accounts[a].slots]_vars

(* A wallet that has a Mango account gets a second one only from a deposit *)
(* that arrived when it had none and was overtaken by another: deposits    *)
(* that follow one another share the account, and a failed read of the     *)
(* accounts is never taken for there being none.                           *)
SecondAccountOnlyByRace ==
  [][\A q \in Sent :
       (req[q].pc = "submitting" /\ req'[q].pc = "executed"
          /\ DOMAIN chain'.accounts # DOMAIN chain.accounts /\ DOMAIN chain.accounts # {})
         => DOMAIN begun[q].accounts = {}]_vars

(* Unless something interfered, "cancel all" leaves none of the account's  *)
(* orders on the book, although the list of orders and the book are read   *)
(* at different times and the cancellations are cut into transactions;     *)
(* and no cancellation ever touches an order of another user or account.   *)
CancelAllIsComplete ==
  [][\A q \in Sent :
       /\ (Op(q) = "cancel" /\ Foreign \in chain.book) => Foreign \in chain'.book
       /\ (req[q].pc = "submitting" /\ req'[q].pc = "executed" /\ ~disturbed[q]
             /\ Op(q) = "cancel" /\ req[q].kind.order = None) =>
            chain'.accounts[req[q].key].slots \cap chain'.book = {}]_vars

(* The account that wraps SOL for a deposit or a withdrawal never outlives *)
(* the transaction it was created in, whether that succeeds or not.        *)
WrappedSolIsTemporary == chain.wrapped = {}
=============================================================================
