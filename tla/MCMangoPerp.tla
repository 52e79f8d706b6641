---------------------------- MODULE MCMangoPerp ----------------------------
(* Settling on a Mango perp market, and orders on it, which share no state:*)
(* a behaviour is about one of them, as its start decides.                 *)
(*                                                                         *)
(* The accounts that do not settle are interchangeable.  Of orders, a lot's*)
(* price is 5 native units and its size 2; prices and sizes come in halves *)
(* of a native unit: under a lot, exactly one, and above.                  *)
EXTENDS MangoPerpSettle, TLC

CONSTANTS
  About,  \* what the behaviours of a run are about
  Places, Cancels, Mine, First, Orders, Asks,
  Fine, BaseUnit, BaseLot, QuoteLot, Slots, Limit, Failures

VARIABLES
  about,
  accounts, open, gone, via, moved, failures, reqs

Perp == INSTANCE MangoPerpOrders WITH Accounts <- Mine, req <- reqs

ASSUME PerpConstants == Perp!MarketAssumption

perpVars == <<accounts, open, gone, via, moved, failures, reqs>>

MCInit == about \in About /\ Init /\ Perp!Init

MCNext ==
  \/ about = "settling" /\ Next /\ UNCHANGED <<about, perpVars>>
  \/ about = "orders" /\ Perp!Next /\ UNCHANGED <<about, vars>>

MCSpec ==
  /\ MCInit
  /\ [][MCNext]_<<about, vars, perpVars>>
  /\ about = "orders" => Perp!Fairness

WithinALot == Perp!WithinALot
RefusalExplained == Perp!RefusalExplained
NotFoundExplained == Perp!NotFoundExplained
CancelAllEmpties == Perp!CancelAllEmpties

Bystanders == Permutations(Accounts \ Settlers)
MCAsks == {<<9, 4>>, <<10, 3>>, <<21, 11>>}
=============================================================================
