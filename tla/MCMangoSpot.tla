---------------------------- MODULE MCMangoSpot ----------------------------
(* The situations that MangoSpot is run from: three requests that create   *)
(* accounts, or withdraw, on a wallet without orders; and two orders that  *)
(* are placed, cancelled or settled on one that may have some.             *)
EXTENDS MangoSpot

CONSTANTS q1, q2, q3, o1, o2
MCOldOrders == {o1, o2}

Ask(op, n, sol, o, valid) ==
  [op |-> op, number |-> n, sol |-> sol, order |-> o, valid |-> valid]

(* Which request asks for what makes no difference, so they ask in the     *)
(* order of these lists.                                                   *)
Accounts ==
  <<Ask("deposit", 0, FALSE, None, TRUE), Ask("deposit", 0, TRUE, None, TRUE),
    Ask("deposit", 1, FALSE, None, TRUE), Ask("deposit", 1, TRUE, None, TRUE),
    Ask("withdraw", 0, FALSE, None, TRUE), Ask("withdraw", 0, TRUE, None, TRUE),
    Ask("withdraw", 1, FALSE, None, TRUE)>>

Trades ==
  <<Ask("place", 0, FALSE, None, TRUE), Ask("place", 0, FALSE, None, FALSE),
    Ask("cancel", 0, FALSE, o1, TRUE), Ask("cancel", 0, FALSE, Foreign, TRUE),
    Ask("cancel", 0, FALSE, None, TRUE), Ask("settle", 0, FALSE, None, TRUE)>>

Three(s) ==
  {q1 :> s[i] @@ q2 :> s[j] @@ q3 :> s[k] :
     <<i, j, k>> \in {t \in (DOMAIN s) \X (DOMAIN s) \X (DOMAIN s) : t[1] <= t[2] /\ t[2] <= t[3]}}
Two(s) ==
  {q1 :> s[i] @@ q2 :> s[j] :
     <<i, j>> \in {t \in (DOMAIN s) \X (DOMAIN s) : t[1] <= t[2]}}

WithoutOrders(w) == \A a \in DOMAIN w.accounts : w.accounts[a].slots = {}

MCSituations ==
  {[wallet |-> w, kinds |-> f] : w \in {v \in Wallets : WithoutOrders(v)}, f \in Three(Accounts)}
    \cup {[wallet |-> w, kinds |-> f] : w \in Wallets, f \in Two(Trades)}
=============================================================================
