------------------------------ MODULE MCSerum ------------------------------
(* Cancelling, trading on a market, and new markets, which share no state: *)
(* a behaviour is about one of them, as its start decides.                 *)
(*                                                                         *)
(* One request cancels what it is told of three orders, by id, known or    *)
(* not, or all, while another cancels too and orders are filled and placed.*)
(* Two orders and a settlement of one wallet, with three keys whose order  *)
(* decides which account is the first.  Two requests for a market of mints *)
(* with one and with two decimals, with sizes of twentieths down to        *)
(* nothing, by a wallet that can pay for up to two markets.                *)
EXTENDS SerumCancel, Integers

CONSTANTS
  About,  \* what the behaviours of a run are about
  Places, Settles, Keys, None, MaxTokens,
  MarketRequests, Lots, Ticks, Scale, BaseUnits, QuoteUnits, MaxRent

VARIABLES
  about,
  wallet, orders, pc, target, raced,
  params, step, answer, existing, markets, rent, stopped

Trading == INSTANCE SerumTrading
Market == INSTANCE SerumMarket WITH Requests <- MarketRequests, pc <- step

ASSUME TradingConstants == Trading!TradingAssumption
ASSUME MarketConstants == Market!MarketAssumption

tradingVars == <<wallet, orders, pc, target, raced>>
marketVars == <<params, step, answer, existing, markets, rent, stopped>>
all == <<about, vars, tradingVars, marketVars>>

NothingAsked ==
  /\ rent = 0
  /\ \A q \in MarketRequests : params[q] = [lot |-> 0, tick |-> 0]

MCInit ==
  /\ about \in About
  /\ Init
  /\ Trading!Init
  /\ Market!Init
  /\ about # "market" => NothingAsked

MCNext ==
  \/ about = "cancelling" /\ Next /\ UNCHANGED <<about, tradingVars, marketVars>>
  \/ about = "trading" /\ Trading!Next /\ UNCHANGED <<about, vars, marketVars>>
  \/ about = "market" /\ Market!Next /\ UNCHANGED <<about, vars, tradingVars>>

MCSpec ==
  /\ MCInit
  /\ [][MCNext]_all
  /\ about = "cancelling" => Fairness
  /\ about = "trading" => Trading!Fairness
  /\ about = "market" => Market!Fairness

SecondAccountOnlyByRace == Trading!SecondAccountOnlyByRace
FreeMoneyReturns == Trading!FreeMoneyReturns
MarketIsWhole == Market!MarketIsWhole
LotsAsAsked == Market!LotsAsAsked
OrphansExplained == Market!OrphansExplained
AnswerBecomesMarket == Market!AnswerBecomesMarket
=============================================================================
