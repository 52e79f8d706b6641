------------------------------ MODULE MCSaber ------------------------------
(* The farm and a pool, which share no state: a behaviour is about the one *)
(* or the other, as its start decides.                                     *)
(*                                                                         *)
(* In the farm, two deposits may race for the miner while a withdrawal is  *)
(* under way, or a harvest goes on beside a deposit.  The pool's token A   *)
(* wraps a token with a decimal less; its requests deposit, withdraw or    *)
(* swap, one at a time, while the accounts of the wallet come and go.      *)
EXTENDS SaberFarm, Integers

CONSTANTS
  PoolMints, PoolRequests, PoolCalls, PoolKind, Side, Tagged, Unit, Markets, Quote,
  Amounts, Situations, MaxOwned, InFlight

VARIABLES about, pAccounts, pPc, pIdx, pCreates, pObserved, pFaulted, ask, pSent, pPurse,
          market

Pool == INSTANCE SaberPool
          WITH Mints <- PoolMints, Requests <- PoolRequests, Calls <- PoolCalls,
               Kind <- PoolKind, accounts <- pAccounts, pc <- pPc, idx <- pIdx,
               creates <- pCreates, observed <- pObserved, faulted <- pFaulted,
               sent <- pSent, purse <- pPurse

ASSUME PoolConstants == Pool!PoolAssumption

poolState == <<pAccounts, pPc, pIdx, pCreates, pObserved, pFaulted, ask, pSent, pPurse,
               market>>
all == <<about, farmVars, poolState>>

-----------------------------------------------------------------------------
MCKind == [a |-> "deposit", b |-> "deposit", c |-> "withdraw", h |-> "harvest"]
MCCalls == [q \in Requests |-> Lookups[Kind[q]]]
MCSenders == {{}, {"a", "b", "c"}, {"a", "h"}}

MCPoolKind == [d |-> "deposit", wa |-> "withdraw", wb |-> "withdraw",
               sa |-> "swap", sb |-> "swap"]
MCSide == [d |-> "A", wa |-> "A", wb |-> "B", sa |-> "A", sb |-> "B"]
Look(ms) == [i \in DOMAIN ms |-> [mint |-> ms[i], kept |-> TRUE]]
MCPoolCalls ==
  [d |-> Look(<<"A", "B", "lp", "underlying">>),
   wa |-> Look(<<"A", "B", "lp", "underlying">>), wb |-> Look(<<"A", "B", "lp">>),
   sa |-> Look(<<"A", "B", "underlying">>), sb |-> Look(<<"B", "A", "underlying">>)]

(* A pool whose tokens are worth twice the sum, and one that keeps a fee of*)
(* two smallest units.                                                     *)
MCMarkets == {"rich", "lean"}
MCTrades ==
  [op : {"deposit"}, n : [{"A", "B"} -> 0..3]]
    \cup [op : {"withdraw", "swap"}, side : {"A", "B"}, n : 0..3]

MCQuote ==
  [m \in MCMarkets |->
     [i \in MCTrades |->
        LET n == IF i.op = "deposit" THEN i.n["A"] + i.n["B"] ELSE i.n IN
        IF m = "lean" THEN (IF n < 2 THEN 0 ELSE n - 2)
        ELSE IF i.op = "deposit" THEN n \div 2 ELSE 2 * n]]

Owning(u, a, b, l) == [underlying |-> u, A |-> a, B |-> b, lp |-> l]
Nothing == [sent |-> {}, purse |-> Owning(0, 0, 0, 0)]
MCSituations ==
  {Nothing, [sent |-> {"d"}, purse |-> Owning(1, 1, 1, 1)],
   [sent |-> {"wa", "wb"}, purse |-> Owning(0, 1, 1, 3)],
   [sent |-> {"sa", "sb"}, purse |-> Owning(2, 1, 2, 1)]}

-----------------------------------------------------------------------------
MCInit ==
  /\ FarmInit
  /\ Pool!PoolInit
  /\ \/ about = "farm" /\ sent # {} /\ pSent = {} /\ market = "lean"
     \/ about = "pool" /\ pSent # {} /\ sent = {} /\ accounts = {"lp"}

MCNext ==
  \/ about = "farm" /\ FarmNext /\ UNCHANGED <<about, poolState>>
  \/ about = "pool" /\ Pool!PoolNext /\ UNCHANGED <<about, farmVars>>

MCSpec == MCInit /\ [][MCNext]_all /\ FarmFairness

WrappedByTheQuote == Pool!WrappedByTheQuote
PoolRefusalExplained == Pool!PoolRefusalExplained
=============================================================================
