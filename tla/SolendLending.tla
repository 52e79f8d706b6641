--------------------------- MODULE SolendLending ---------------------------
(***************************************************************************)
(* The Solend half of the server: SolendClient with its deposit, withdraw, *)
(* borrow and repay services, the transactions they answer with, and the   *)
(* lending program those transactions run on.                              *)
(*                                                                         *)
(* A handler takes several reads of the chain, one per await, and keeps    *)
(* what it learnt in its own SolendClient instance (obligationDeposits,    *)
(* obligationBorrows).  Its answer is a list of transactions: the token    *)
(* accounts first, then the refreshes and the operation, cut in pieces     *)
(* when they do not fit in one.  The client submits them in that order.    *)
(* All requests belong to one wallet, which has at most one obligation:    *)
(* its address is derived from the wallet's key.                           *)
(***************************************************************************)
EXTENDS Naturals, FiniteSets, InstructionLists

CONSTANTS
  Reserves,        \* the reserves of the lending market
  Listed,          \* those in solendReservesMainnet.json
  Native,          \* the SOL reserve's mint has no associated account
  Requests,        \* handlers that may be in flight together
  Caps,            \* instructions that fit into one transaction
  Situations,      \* the wallets, and what is asked for them, at the start
  Missing          \* the obligation that does not exist

Ops == {"deposit", "withdraw", "borrow", "repay"}

(* The quantity is reduced to what the obligation can tell apart: whether  *)
(* it empties the position in that reserve, and whether it is a whole      *)
(* number of the token's smallest unit.                                    *)
Kind == [op : Ops, reserve : Reserves, all : BOOLEAN, whole : BOOLEAN]

VARIABLES
  chain,      \* token accounts, obligation, what was refreshed in this slot
  req,        \* the handler and the answer of each request
  begun,      \* history: the chain when the request arrived
  disturbed   \* history: the request met a fault, a rival or a lost slot

vars == <<chain, req, begun, disturbed>>

LP(r) == <<"lp", r>>     \* the wallet's account for the reserve's collateral
Liq(r) == <<"liq", r>>   \* its account for the reserve's own token
Accounts == {LP(r) : r \in Reserves} \cup {Liq(r) : r \in Reserves \ Native}

Listings == {s \in SeqOf(Reserves, Cardinality(Reserves)) : IsInjective(s)}
Obligation == [deposits : Listings, borrows : Listings]
NewObligation == [deposits |-> <<>>, borrows |-> <<>>]

(* Nobody lends without a deposit.                                         *)
InitialObligations ==
  {o \in Obligation : o.borrows # <<>> => o.deposits # <<>>} \cup {Missing}

ASSUME SolendAssumption ==
  /\ IsFiniteSet(Reserves)
  /\ Missing \notin Obligation
  /\ Listed \subseteq Reserves
  /\ Native \subseteq Reserves
  /\ Caps \subseteq Nat \ {0}
  /\ \A s \in Situations :
       /\ s.accounts \subseteq Accounts /\ s.obligation \in InitialObligations
       /\ DOMAIN s.kinds \subseteq Requests /\ Range(s.kinds) \subseteq Kind

Chain == [accounts : SUBSET Accounts, obligation : Obligation \cup {Missing},
          fresh : SUBSET Reserves, current : BOOLEAN]

PCs == {"idle", "source", "lp", "obligation", "parse", "liq",
        "submitting", "executed", "aborted", "error500", "unanswered"}

TypeOK ==
  /\ chain \in Chain
  /\ DOMAIN req \subseteq Requests
  /\ \A q \in DOMAIN req :
       /\ req[q].pc \in PCs
       /\ req[q].obligationDeposits \in Listings
       /\ req[q].obligationBorrows \in Listings
       /\ req[q].next \in 1..Len(req[q].txs) + 1
  /\ disturbed \in [DOMAIN req -> BOOLEAN]

-----------------------------------------------------------------------------
(* Instructions.                                                           *)
CreateAccount(a) == [type |-> "createAccount", account |-> a]
CreateObligation == [type |-> "createObligation"]
InitObligation == [type |-> "initObligation"]
RefreshReserve(r) == [type |-> "refreshReserve", reserve |-> r]
RefreshObligation(D, B) == [type |-> "refreshObligation", deposits |-> D, borrows |-> B]
Operation(k) == [type |-> k.op, reserve |-> k.reserve, all |-> k.all]

(* The programs the instructions run on: the token program, the system     *)
(* program, and the lending program, which demands that everything an      *)
(* operation relies on was refreshed in the same slot.                     *)
Accepts(c, i) ==
  LET o == c.obligation IN
  CASE i.type = "createAccount"    -> i.account \notin c.accounts
    [] i.type = "createObligation" -> o = Missing
    [] i.type = "initObligation"   -> o = NewObligation
    [] i.type = "refreshReserve"   -> TRUE
    [] i.type = "refreshObligation" ->
         o # Missing /\ o.deposits = i.deposits /\ o.borrows = i.borrows
           /\ ToSet(i.deposits) \cup ToSet(i.borrows) \subseteq c.fresh
    [] i.type = "deposit" ->
         o # Missing /\ i.reserve \in c.fresh
           /\ {LP(i.reserve), Liq(i.reserve)} \subseteq c.accounts
    [] i.type = "withdraw" ->
         /\ o # Missing /\ c.current /\ i.reserve \in c.fresh
         /\ {LP(i.reserve), Liq(i.reserve)} \subseteq c.accounts
         /\ Contains(o.deposits, i.reserve)
         /\ i.all /\ o.borrows # <<>> => Len(o.deposits) > 1
    [] i.type = "borrow" ->
         o # Missing /\ c.current /\ i.reserve \in c.fresh
           /\ Liq(i.reserve) \in c.accounts /\ o.deposits # <<>>
    [] i.type = "repay" ->
         o # Missing /\ c.current /\ i.reserve \in c.fresh
           /\ Liq(i.reserve) \in c.accounts /\ Contains(o.borrows, i.reserve)

With(s, r) == IF Contains(s, r) THEN s ELSE Append(s, r)
Without(s, r, all) == IF all THEN RemoveFirst(s, r) ELSE s

(* An operation moves the reserve and the obligation, so both must be      *)
(* refreshed again before the next one.                                    *)
Operated(c, i, D, B) ==
  [c EXCEPT !.obligation = [deposits |-> D, borrows |-> B],
            !.fresh = @ \ {i.reserve}, !.current = FALSE]

Effect(c, i) ==
  LET o == c.obligation IN
  CASE i.type = "createAccount"    -> [c EXCEPT !.accounts = @ \cup {i.account}]
    [] i.type = "createObligation" -> [c EXCEPT !.obligation = NewObligation]
    [] i.type = "initObligation"   -> c
    [] i.type = "refreshReserve"   -> [c EXCEPT !.fresh = @ \cup {i.reserve}]
    [] i.type = "refreshObligation" -> [c EXCEPT !.current = TRUE]
    [] i.type = "deposit"  -> Operated(c, i, With(o.deposits, i.reserve), o.borrows)
    [] i.type = "withdraw" -> Operated(c, i, Without(o.deposits, i.reserve, i.all), o.borrows)
    [] i.type = "borrow"   -> Operated(c, i, o.deposits, With(o.borrows, i.reserve))
    [] i.type = "repay"    -> Operated(c, i, o.deposits, Without(o.borrows, i.reserve, i.all))

(* A transaction runs as a whole or not at all.                            *)
Run(tx, c) ==
  FoldLeft(LAMBDA st, i : IF st.ok /\ Accepts(st.chain, i)
                          THEN [st EXCEPT !.chain = Effect(@, i)]
                          ELSE [st EXCEPT !.ok = FALSE],
           [ok |-> TRUE, chain |-> c], tx)

-----------------------------------------------------------------------------
(* What the handler builds.                                                *)
Instructions(s) == [instructions |-> s, signers |-> <<>>]

(* getOrCreateAssociatedTokenAccountByMint, see TokenAccounts: SOL has no  *)
(* account to create; `answers' is FALSE when the look-up itself fails.    *)
LookupAccount(a, answers) ==
  IF a \in Accounts /\ ~(answers /\ a \in chain.accounts)
  THEN Instructions(<<CreateAccount(a)>>)
  ELSE NoInstructions

(* getOrCreateObligationAccount.                                           *)
ObligationInstructions ==
  IF chain.obligation = Missing
  THEN Instructions(<<CreateObligation, InitObligation>>)
  ELSE NoInstructions

(* Mutant: the reserves borrowed from are not refreshed.                   *)
AllRefreshInstructions_NoBorrows(D, B, target) ==
  [i \in 1..Len(D) |-> RefreshReserve(D[i])]
    \o <<RefreshReserve(target), RefreshObligation(D, B)>>

(* Mutant: the target is left to the obligation's own reserves.            *)
AllRefreshInstructions_NoTarget(D, B, target) ==
  [i \in 1..Len(D) |-> RefreshReserve(D[i])]
    \o [i \in 1..Len(B) |-> RefreshReserve(B[i])]
    \o <<RefreshObligation(D, B)>>

(* prepareAllRefreshInstructionss.  Each instruction is a fresh object, so *)
(* indexOf never finds it in the list and nothing is left out.             *)
AllRefreshInstructions(D, B, target) ==
  [i \in 1..Len(D) |-> RefreshReserve(D[i])]
    \o [i \in 1..Len(B) |-> RefreshReserve(B[i])]
    \o <<RefreshReserve(target), RefreshObligation(D, B)>>

(* The deposit service answers with one transaction.                       *)
DepositTransactions(k, lp, oblig) ==
  <<Merge(lp, oblig).instructions \o <<RefreshReserve(k.reserve), Operation(k)>>>>

(* Mutant: the token accounts come last.                                   *)
SplitTransactions_TokensLast(k, lp, liq, D, B, cap) ==
  LET solend == Append(AllRefreshInstructions(D, B, k.reserve), Operation(k))
      pieces == Split(Instructions(solend), cap)
  IN  [i \in DOMAIN pieces |-> pieces[i].instructions] \o <<Merge(lp, liq).instructions>>

(* The others answer with the token accounts, then the rest in pieces.     *)
SplitTransactions(k, lp, liq, D, B, cap) ==
  LET solend == Append(AllRefreshInstructions(D, B, k.reserve), Operation(k))
      pieces == Split(Instructions(solend), cap)
  IN  <<Merge(lp, liq).instructions>> \o [i \in DOMAIN pieces |-> pieces[i].instructions]

-----------------------------------------------------------------------------
Idle(k) == [pc |-> "idle", kind |-> k, lp |-> NoInstructions, liq |-> NoInstructions,
            obligationDeposits |-> <<>>, obligationBorrows |-> <<>>,
            txs |-> <<>>, next |-> 1]

Init ==
  \E s \in Situations :
    /\ chain = [accounts |-> s.accounts, obligation |-> s.obligation,
                fresh |-> {}, current |-> FALSE]
    /\ req = [q \in DOMAIN s.kinds |-> Idle(s.kinds[q])]
    /\ begun = [q \in DOMAIN s.kinds |-> chain]
    /\ disturbed = [q \in DOMAIN s.kinds |-> FALSE]

(* The requests that are sent, now or later.                               *)
Sent == DOMAIN req

IsDeposit(q) == req[q].kind.op = "deposit"
Handling(q) == req[q].pc \in {"source", "lp", "obligation", "parse", "liq"}
InFlight(q) == Handling(q) \/ req[q].pc = "submitting"

(* The handler's promise is rejected: Express answers 500, nothing is left. *)
Finish(q, end) == req' = [req EXCEPT ![q] = [Idle(@.kind) EXCEPT !.pc = end]]

Disturb(q, yes) == disturbed' = [disturbed EXCEPT ![q] = @ \/ yes]

(* deserializeSolendAmount scales the amount by the decimals of the        *)
(* reserve's listing, and BigInt takes nothing but whole numbers.          *)
Parses(k) == k.reserve \in Listed /\ k.whole

(* Mutant: the amount is parsed without the reserve's listing.             *)
Begin_Unlisted(q) ==
  /\ req[q].pc = "idle"
  /\ req' = [req EXCEPT ![q].pc = IF IsDeposit(q) THEN "source" ELSE "obligation"]
  /\ begun' = [begun EXCEPT ![q] = chain]
  /\ UNCHANGED <<chain, disturbed>>

Begin(q) ==
  /\ req[q].pc = "idle"
  /\ Parses(req[q].kind)
  /\ req' = [req EXCEPT ![q].pc = IF IsDeposit(q) THEN "source" ELSE "obligation"]
  /\ begun' = [begun EXCEPT ![q] = chain]
  /\ UNCHANGED <<chain, disturbed>>

(* What does not parse throws before the promise whose catch is next:      *)
(* nobody answers the request, and the unhandled rejection ends the Node   *)
(* process with every other handler.                                       *)
ParseThrows(q) ==
  /\ req[q].pc = "idle"
  /\ ~Parses(req[q].kind)
  /\ req' = [p \in Sent |->
               IF p = q \/ Handling(p)
               THEN [Idle(req[p].kind) EXCEPT !.pc = "unanswered"] ELSE req[p]]
  /\ begun' = [begun EXCEPT ![q] = chain]
  /\ disturbed' = [p \in Sent |-> disturbed[p] \/ Handling(p)]
  /\ UNCHANGED chain

(* prepareDepositTransaction: getTokenAccountsForOwner(...)[0].pubkey      *)
(* throws when the wallet has no account for the token.                    *)
ReadSource(q) ==
  LET r == req[q].kind.reserve IN
  /\ req[q].pc = "source"
  /\ IF r \in Native \/ Liq(r) \in chain.accounts
     THEN req' = [req EXCEPT ![q].pc = "lp"]
     ELSE Finish(q, "error500")
  /\ UNCHANGED <<chain, begun, disturbed>>

LookupLP(q) ==
  LET r == req[q].kind.reserve IN
  /\ req[q].pc = "lp"
  /\ \E answers \in BOOLEAN :
       /\ req' = [req EXCEPT ![q].lp = LookupAccount(LP(r), answers),
                             ![q].pc = IF IsDeposit(q) THEN "obligation" ELSE "liq"]
       /\ Disturb(q, ~answers /\ LP(r) \in chain.accounts)
  /\ UNCHANGED <<chain, begun>>

(* What the handler answers: the transactions the client is to submit.     *)
AnswerWith(q, txs) ==
  req' = [req EXCEPT ![q] = [Idle(@.kind) EXCEPT !.pc = "submitting", !.txs = txs]]

(* getOrCreateObligationAccount.  Depositing keeps its instructions and is *)
(* then complete; the others keep only the address ([_, pubkey]).          *)
ReadObligation(q) ==
  /\ req[q].pc = "obligation"
  /\ IF IsDeposit(q)
     THEN AnswerWith(q, DepositTransactions(req[q].kind, req[q].lp, ObligationInstructions))
     ELSE req' = [req EXCEPT ![q].pc = "parse"]
  /\ UNCHANGED <<chain, begun, disturbed>>

(* Mutant: the borrows are also kept with the deposits.                    *)
ParseObligation_Mixed(q) ==
  LET o == chain.obligation IN
  /\ req[q].pc = "parse"
  /\ IF o # Missing
     THEN req' = [req EXCEPT ![q].obligationDeposits = o.deposits \o o.borrows,
                             ![q].obligationBorrows = o.borrows,
                             ![q].pc = "lp"]
     ELSE Finish(q, "error500")
  /\ UNCHANGED <<chain, begun, disturbed>>

(* refreshObligDepositsAndBorrows reads the account a second time; `null'  *)
(* does not parse.                                                         *)
ParseObligation(q) ==
  LET o == chain.obligation IN
  /\ req[q].pc = "parse"
  /\ IF o # Missing
     THEN req' = [req EXCEPT ![q].obligationDeposits = o.deposits,
                             ![q].obligationBorrows = o.borrows,
                             ![q].pc = "lp"]
     ELSE Finish(q, "error500")
  /\ UNCHANGED <<chain, begun, disturbed>>

(* The last read; the refreshes need every reserve of the obligation to be *)
(* listed (findSolendReserveInfoByReservePubkey throws otherwise).         *)
LookupLiq(q) ==
  LET r == req[q].kind.reserve
      D == req[q].obligationDeposits
      B == req[q].obligationBorrows
  IN
  /\ req[q].pc = "liq"
  /\ \E answers \in BOOLEAN, cap \in Caps :
       /\ IF ToSet(D) \cup ToSet(B) \subseteq Listed
          THEN AnswerWith(q, SplitTransactions(req[q].kind, req[q].lp,
                                LookupAccount(Liq(r), answers), D, B, cap))
          ELSE Finish(q, "error500")
       /\ Disturb(q, ~answers /\ Liq(r) \in chain.accounts)
  /\ UNCHANGED <<chain, begun>>

(* Any read of the handler may be refused by the RPC node.  Only the token *)
(* account look-ups survive that (their catch clause creates instead).     *)
ReadRejected(q) ==
  /\ req[q].pc \in {"source", "obligation", "parse"}
  /\ Finish(q, "error500")
  /\ Disturb(q, TRUE)
  /\ UNCHANGED <<chain, begun>>

-----------------------------------------------------------------------------
(* The client submits the next transaction, and stops at the first that    *)
(* fails.                                                                  *)
Hurts(c, d) ==
  \/ <<c.accounts, c.obligation>> # <<d.accounts, d.obligation>>
  \/ ~(c.fresh \subseteq d.fresh)
  \/ c.current /\ ~d.current

Submit(q) ==
  LET run == Run(req[q].txs[req[q].next], chain) IN
  /\ req[q].pc = "submitting"
  /\ run.ok
  /\ chain' = run.chain
  /\ IF req[q].next = Len(req[q].txs)
     THEN Finish(q, "executed")
     ELSE req' = [req EXCEPT ![q].next = @ + 1]
  /\ disturbed' = [p \in Sent |->
                     \/ disturbed[p]
                     \/ p # q /\ InFlight(p) /\ Hurts(chain, run.chain)]
  /\ UNCHANGED begun

SubmitFails(q) ==
  /\ req[q].pc = "submitting"
  /\ ~Run(req[q].txs[req[q].next], chain).ok
  /\ Finish(q, "aborted")
  /\ UNCHANGED <<chain, begun, disturbed>>

(* The next slot: every refresh is stale.  It matters to a request only    *)
(* between two pieces of its refreshes and operation.                      *)
BetweenPieces(q) == req[q].pc = "submitting" /\ ~IsDeposit(q) /\ req[q].next > 2

NextSlot ==
  /\ chain' = [chain EXCEPT !.fresh = {}, !.current = FALSE]
  /\ disturbed' = [q \in Sent |-> disturbed[q] \/ BetweenPieces(q)]
  /\ UNCHANGED <<req, begun>>

Next ==
  \/ \E q \in Sent :
       \/ Begin(q) \/ ParseThrows(q) \/ ReadSource(q) \/ LookupLP(q) \/ ReadObligation(q)
       \/ ParseObligation(q) \/ LookupLiq(q) \/ ReadRejected(q)
       \/ Submit(q) \/ SubmitFails(q)
  \/ NextSlot

Spec == Init /\ [][Next]_vars

-----------------------------------------------------------------------------
(* What the wallet may ask of the market it sees, told without any of the  *)
(* handler's steps.  Native SOL never works (solend.client.ts:31), and one *)
(* unlisted position makes everything but deposits impossible.             *)
Serviceable(k, c) ==
  LET o == c.obligation
      hasSource == Liq(k.reserve) \in c.accounts
      positions == ToSet(o.deposits) \cup ToSet(o.borrows)
  IN
  /\ Parses(k) /\ k.reserve \notin Native
  /\ k.op = "deposit" => hasSource
  /\ k.op # "deposit" => o # Missing /\ positions \subseteq Listed
  /\ k.op = "withdraw" => /\ Contains(o.deposits, k.reserve)
                          /\ k.all /\ o.borrows # <<>> => Len(o.deposits) > 1
  /\ k.op = "borrow" => o.deposits # <<>>
  /\ k.op = "repay" => Contains(o.borrows, k.reserve)

(* A request nobody disturbs - no failed read, no transaction of another   *)
(* request that touches what it relies on, no new slot between the pieces  *)
(* of its refreshes, no other request that ends the process - executes     *)
(* exactly when the wallet could ask for it: the refreshes cover all the   *)
(* obligation needs, in time and in order, and every missing token account *)
(* is created first and only then.  In particular a new slot never hurts   *)
(* an operation that fits in one transaction                               *)
(* (solend.service.borrow.ts:16-18).                                       *)
UndisturbedOutcome ==
  \A q \in Sent : ~disturbed[q] =>
    /\ req[q].pc = "executed" => Serviceable(req[q].kind, begun[q])
    /\ req[q].pc \in {"aborted", "error500", "unanswered"} => ~Serviceable(req[q].kind, begun[q])

(* However an answer is cut into transactions, and wherever the sequence   *)
(* breaks off, the wallet's positions change only in the step that         *)
(* completes a request, and the way that request asked: a sequence that    *)
(* stops early leaves token accounts behind, never half an operation.      *)
Position(c, what) == IF c.obligation = Missing THEN {} ELSE ToSet(c.obligation[what])

PositionsChangeAtCompletion ==
  [][\A what \in {"deposits", "borrows"} :
       LET before == Position(chain, what)
           after == Position(chain', what)
       IN  before # after =>
             \E q \in Sent :
               LET k == req[q].kind IN
               /\ req[q].pc = "submitting" /\ req'[q].pc = "executed"
               /\ \/ /\ k.op = (IF what = "deposits" THEN "deposit" ELSE "borrow")
                     /\ after = before \cup {k.reserve}
                  \/ /\ k.op = (IF what = "deposits" THEN "withdraw" ELSE "repay")
                     /\ k.all /\ after = before \ {k.reserve}]_vars

(* solend.client.ts:238: "add target asset in case user never interacted   *)
(* with it before, and it doesn't get picked up by current deposits /      *)
(* borrows".  Read as a promise: an answer refreshes each reserve once.    *)
RefreshedOnce ==
  \A q \in Sent : req[q].pc = "submitting" =>
    LET all == FlattenSeq(req[q].txs) IN
    \A i, j \in DOMAIN all :
       all[i].type = "refreshReserve" /\ all[j] = all[i] => i = j
=============================================================================
