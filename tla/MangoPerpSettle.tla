-------------------------- MODULE MangoPerpSettle --------------------------
(***************************************************************************)
(* Settling the profit or loss of a Mango account on a perpetual market:   *)
(* MangoMarketService.settlePerp and prepareSettlePerpTransaction.         *)
(*                                                                         *)
(* The handler reads its own account, then the market and the caches, then *)
(* every other account, and picks counterparties greedily until its own    *)
(* profit is used up or the transaction is full.  A pnl is an integer in   *)
(* units of 0.000001, the constant the code clamps a loss to; position and *)
(* cached price are folded into it.                                        *)
(***************************************************************************)
EXTENDS Integers, FiniteSets, SequencesExt

CONSTANTS
  Accounts,         \* Mango accounts with the market in their basket
  Settlers,         \* those whose owners send a settle request
  MaxPnl,           \* bound on the profit or loss of an account
  MaxFees,          \* bound on the fees the market has accrued
  MaxInstructions,  \* instructions per transaction, 10 in the code
  MaxMoves          \* bound on how often prices or positions move

ASSUME MangoPerpAssumption ==
  /\ IsFiniteSet(Accounts) /\ Settlers \subseteq Accounts
  /\ MaxPnl \in Nat /\ MaxFees \in Nat /\ MaxMoves \in Nat
  /\ MaxInstructions \in Nat \ {0}

VARIABLES
  pnl,    \* profit or loss of every account, on the chain
  fees,   \* the market's accrued fees
  req,    \* the request of each settler
  moves,  \* how often something moved (bound)
  seen    \* history: per settler, the chain when it read its own account,
          \* until something else changes the chain

vars == <<pnl, fees, req, moves, seen>>

Chain == [pnl : [Accounts -> Int], fees : Nat]
Now == [pnl |-> pnl, fees |-> fees]
Unknown == [pnl |-> <<>>, fees |-> 0]

Abs(n) == IF n < 0 THEN -n ELSE n
Sign(n) == IF n > 0 THEN 1 ELSE -1

SettleFees == [type |-> "fees"]
SettlePnl(b) == [type |-> "pnl", with |-> b]
IsPnl(i) == i.type = "pnl"

PCs == {"idle", "group", "account", "market", "cache", "all",
        "submitting", "done", "error500"}

Idle == [pc |-> "idle", pnl |-> 0, fees |-> 0, instructions |-> <<>>]

TypeOK ==
  /\ pnl \in [Accounts -> Int]
  /\ fees \in Nat
  /\ moves \in 0..MaxMoves
  /\ \A a \in Settlers :
       /\ req[a].pc \in PCs
       /\ req[a].pnl \in Int /\ req[a].fees \in Nat
       /\ req[a].instructions \in
            Seq({SettleFees} \cup {SettlePnl(b) : b \in Accounts \ {a}})
       /\ Len(req[a].instructions) <= MaxInstructions

Init ==
  /\ pnl \in [Accounts -> -MaxPnl..MaxPnl]
  /\ fees \in 0..MaxFees
  /\ req = [a \in Settlers |-> Idle]
  /\ moves = 0
  /\ seen = [a \in Settlers |-> Unknown]

-----------------------------------------------------------------------------
(* The greedy loop over the sorted accounts.                               *)
Opposite(m, n) == (m > 0 /\ n < 0) \/ (m < 0 /\ n > 0)

(* Mutants: the limit off by one; no break; the own account not ignored.   *)
Visit_OneMore(a, sign, st, b, theirs) ==
  IF st.stop \/ b = a THEN st
  ELSE IF Opposite(st.pnl, theirs) /\ Len(st.instructions) <= MaxInstructions
       THEN [pnl |-> st.pnl + theirs,
             instructions |-> Append(st.instructions, SettlePnl(b)),
             stop |-> Sign(st.pnl + theirs) # sign]
       ELSE st

Visit_NoBreak(a, sign, st, b, theirs) ==
  IF b # a /\ Opposite(sign, theirs) /\ Len(st.instructions) < MaxInstructions
  THEN [st EXCEPT !.instructions = Append(@, SettlePnl(b))]
  ELSE st

Visit_Own(a, sign, st, b, theirs) ==
  IF ~st.stop /\ Opposite(st.pnl, theirs) /\ Len(st.instructions) < MaxInstructions
  THEN [pnl |-> st.pnl + theirs,
        instructions |-> Append(st.instructions, SettlePnl(b)),
        stop |-> Sign(st.pnl + theirs) # sign]
  ELSE st

(* One pass of the loop: settle against b unless it is the requester, has   *)
(* the same sign, or would not fit; stop once the sign has changed.         *)
Visit(a, sign, st, b, theirs) ==
  IF st.stop \/ b = a THEN st
  ELSE IF Opposite(st.pnl, theirs) /\ Len(st.instructions) < MaxInstructions
       THEN [pnl |-> st.pnl + theirs,
             instructions |-> Append(st.instructions, SettlePnl(b)),
             stop |-> Sign(st.pnl + theirs) # sign]
       ELSE st

(* Mutant: always ascending.                                               *)
Sorted_Ascending(order, sign, p) ==
  \A i, j \in DOMAIN order : i < j => p[order[i]] <= p[order[j]]

(* sort((x, y) => sign * x.pnl.cmp(y.pnl)); ties keep the node's order.    *)
Sorted(order, sign, p) ==
  \A i, j \in DOMAIN order : i < j => sign * p[order[i]] <= sign * p[order[j]]

Orderings(sign, p) == {s \in SetToSeqs(Accounts) : Sorted(s, sign, p)}

(* What is left of a loss after the fees; the clamp keeps it negative, so  *)
(* the test for a changed sign that follows in the code never succeeds.    *)
AfterFees(p, f) == Min({p + f, -1})

(* Mutant: the fees are counted but not settled.                           *)
Pick_NoFees(a, p, f, order, theirs) ==
  LET sign == Sign(p)
      start == [pnl |-> IF sign = 1 THEN p ELSE AfterFees(p, f),
                instructions |-> <<>>, stop |-> FALSE]
  IN FoldLeft(LAMBDA st, b : Visit(a, sign, st, b, theirs[b]), start, order).instructions

(* prepareSettlePerpTransaction from the pnl it read to its instructions.  *)
Pick(a, p, f, order, theirs) ==
  LET sign == Sign(p)
      start == IF sign = 1
               THEN [pnl |-> p, instructions |-> <<>>, stop |-> FALSE]
               ELSE [pnl |-> AfterFees(p, f), instructions |-> <<SettleFees>>, stop |-> FALSE]
  IN FoldLeft(LAMBDA st, b : Visit(a, sign, st, b, theirs[b]), start, order).instructions

-----------------------------------------------------------------------------
Goto(a, pc) == req' = [req EXCEPT ![a].pc = pc]

(* The answer; an empty one is not submitted.                              *)
Answer(a, list) ==
  req' = [req EXCEPT ![a].pc = IF list = <<>> THEN "done" ELSE "submitting",
                     ![a].instructions = list]

Begin(a) ==
  /\ req[a].pc \in {"idle", "done", "error500"}
  /\ req' = [req EXCEPT ![a] = [Idle EXCEPT !.pc = "group"]]
  /\ seen' = [seen EXCEPT ![a] = Unknown]
  /\ UNCHANGED <<pnl, fees, moves>>

GroupLoaded(a) ==
  /\ req[a].pc = "group"
  /\ Goto(a, "account")
  /\ UNCHANGED <<pnl, fees, moves, seen>>

AccountLoaded(a) ==
  /\ req[a].pc = "account"
  /\ req' = [req EXCEPT ![a].pc = "market", ![a].pnl = pnl[a]]
  /\ seen' = [seen EXCEPT ![a] = Now]
  /\ UNCHANGED <<pnl, fees, moves>>

MarketLoaded(a) ==
  /\ req[a].pc = "market"
  /\ req' = [req EXCEPT ![a].pc = "cache", ![a].fees = fees]
  /\ UNCHANGED <<pnl, fees, moves, seen>>

(* Nothing to settle is known as soon as the cache is there.               *)
CacheLoaded(a) ==
  /\ req[a].pc = "cache"
  /\ IF req[a].pnl = 0 THEN Answer(a, <<>>) ELSE Goto(a, "all")
  /\ UNCHANGED <<pnl, fees, moves, seen>>

AllAccountsLoaded(a) ==
  /\ req[a].pc = "all"
  /\ \E order \in Orderings(Sign(req[a].pnl), pnl) :
       Answer(a, Pick(a, req[a].pnl, req[a].fees, order, pnl))
  /\ UNCHANGED <<pnl, fees, moves, seen>>

(* Each of these reads may be rejected, an account number may not exist,   *)
(* the group may lack its quote root bank.                                 *)
Rejected(a) ==
  /\ req[a].pc \in {"group", "account", "market", "cache", "all"}
  /\ Goto(a, "error500")
  /\ UNCHANGED <<pnl, fees, moves, seen>>

-----------------------------------------------------------------------------
(* The Mango program: fees pay a loss; two accounts of opposite sign       *)
(* settle the smaller amount; anything else moves nothing.                 *)
Effect(a, c, i) ==
  IF IsPnl(i)
  THEN LET b == i.with
           m == Min({Abs(c.pnl[a]), Abs(c.pnl[b])})
       IN  IF Opposite(c.pnl[a], c.pnl[b])
           THEN [c EXCEPT !.pnl[a] = @ - Sign(@) * m, !.pnl[b] = @ - Sign(@) * m]
           ELSE c
  ELSE LET m == Min({Abs(c.pnl[a]), c.fees})
       IN  IF c.pnl[a] < 0 THEN [c EXCEPT !.pnl[a] = @ + m, !.fees = @ - m] ELSE c

Run(a, c, list) == FoldLeft(LAMBDA d, i : Effect(a, d, i), c, list)

(* Everybody else's view of the chain is out of date.                      *)
Outdate(others) == seen' = [a \in Settlers |-> IF a \in others THEN Unknown ELSE seen[a]]

Submit(a) ==
  LET after == Run(a, Now, req[a].instructions) IN
  /\ req[a].pc = "submitting"
  /\ pnl' = after.pnl /\ fees' = after.fees
  /\ Goto(a, "done")
  /\ IF after = Now THEN UNCHANGED seen ELSE Outdate(Settlers \ {a})
  /\ UNCHANGED moves

(* A price moves or a trade fills: value goes from one account to another. *)
Move(a, b) ==
  /\ a # b /\ moves < MaxMoves
  /\ pnl[a] > -MaxPnl /\ pnl[b] < MaxPnl
  /\ pnl' = [pnl EXCEPT ![a] = @ - 1, ![b] = @ + 1]
  /\ moves' = moves + 1
  /\ Outdate(Settlers)
  /\ UNCHANGED <<fees, req>>

Next ==
  \/ \E a \in Settlers :
       \/ Begin(a) \/ GroupLoaded(a) \/ AccountLoaded(a) \/ MarketLoaded(a)
       \/ CacheLoaded(a) \/ AllAccountsLoaded(a) \/ Rejected(a) \/ Submit(a)
  \/ \E a, b \in Accounts : Move(a, b)

Spec == Init /\ [][Next]_vars

-----------------------------------------------------------------------------
(* The reference: how much of a's loss or profit any choice of few enough  *)
(* counterparties could settle, in any order.                              *)
SumOver(S, p) == FoldSet(LAMBDA b, n : Abs(p[b]) + n, 0, S)

Counterparties(a, p) == {b \in Accounts \ {a} : Opposite(p[a], p[b])}

Owed(a, c) == IF c.pnl[a] < 0 THEN Abs(Min({c.pnl[a] + c.fees, 0})) ELSE c.pnl[a]

Room(a, c) == IF c.pnl[a] < 0 THEN MaxInstructions - 1 ELSE MaxInstructions

Residual(a, c, S) == Abs(Min({SumOver(S, c.pnl) - Owed(a, c), 0}))

BestResidual(a, c) ==
  Min({Residual(a, c, S) : S \in {S \in SUBSET Counterparties(a, c.pnl) :
                                     Cardinality(S) <= Room(a, c)}})

(* If nothing moves between the handler's reads and the execution of its   *)
(* answer, the requester is left with as little unsettled profit or loss   *)
(* as any choice of counterparties that fits into one transaction could    *)
(* leave it: the greedy order of prepareSettlePerpTransaction is optimal.  *)
SettlesTheMost ==
  \A a \in Settlers :
    req[a].pc = "submitting" /\ seen[a] # Unknown =>
      Abs(Run(a, Now, req[a].instructions).pnl[a]) = BestResidual(a, seen[a])

(* And a profit is settled with as few counterparties as possible: leaving *)
(* any number of them out always leaves more of it behind.                 *)
FewestCounterparties ==
  \A a \in Settlers :
    req[a].pc = "submitting" /\ seen[a] # Unknown /\ seen[a].pnl[a] > 0 =>
      \A S \in SUBSET Counterparties(a, seen[a].pnl) :
        Cardinality(S) < Len(req[a].instructions) =>
          Residual(a, seen[a], S) > BestResidual(a, seen[a])

(* The requester's own account is in the list it picks from, read later    *)
(* than its own pnl and perhaps of the other sign by then; it is never a   *)
(* counterparty, no account is one twice, and a profit is never charged    *)
(* with fees ("ignore own account explicitly", mango.client.ts:652).       *)
NeverAgainstItself ==
  \A a \in Settlers :
    LET list == req[a].instructions IN
    /\ SettlePnl(a) \notin ToSet(list)
    /\ IsInjective(list)
    /\ req[a].pnl > 0 => SettleFees \notin ToSet(list)

(* mango.client.ts:632: "if pnl has changed sign, then we're done".  Read  *)
(* as a promise: when the fees are more than the loss, so that the sum is  *)
(* positive, no counterparty is settled against.                           *)
DoneWhenFeesPay ==
  \A a \in Settlers :
    req[a].pc = "submitting" /\ req[a].pnl < 0 /\ req[a].pnl + req[a].fees > 0 =>
      \A i \in DOMAIN req[a].instructions : ~IsPnl(req[a].instructions[i])
=============================================================================
