-------------------------- MODULE MCSolendLending --------------------------
(* The situations that SolendLending is run from: two requests that race   *)
(* for one wallet's two reserves; two, one of which may name a mint that is*)
(* not listed; and one of any kind, on a wallet with positions in a listed,*)
(* a native and an unlisted reserve.                                       *)
EXTENDS SolendLending

CONSTANTS q1, q2, usdc, eth, sol, new

On(o, R) == o = Missing \/ Range(o.deposits) \cup Range(o.borrows) \subseteq R
Wallets(As, R) ==
  {[accounts |-> A, obligation |-> o] : A \in As, o \in {p \in InitialObligations : On(p, R)}}
Situation(w, kinds) == [accounts |-> w.accounts, obligation |-> w.obligation, kinds |-> kinds]

(* Only the borrowing operations empty a position in a race.  Exchanging   *)
(* the two requests, or the two reserves, makes no difference, nor does    *)
(* what is asked for a reserve that is not listed.                         *)
RaceKinds(R) == {k \in Kind : k.reserve \in R /\ k.all = (k.op = "repay") /\ k.whole}
Order == <<"deposit", "withdraw", "borrow", "repay">>
NotAfter(k, l) == \E i, j \in DOMAIN Order : k.op = Order[i] /\ l.op = Order[j] /\ i <= j
Pairs(R) ==
  {f \in [{q1, q2} -> RaceKinds(R)] : f[q1].reserve = usdc /\ NotAfter(f[q1], f[q2])}

RaceSituations ==
  UNION {{Situation(w, f) : w \in Wallets({{Liq(usdc), Liq(eth), Liq(new)}}, R), f \in Pairs(R)} :
         R \in {{usdc, eth}, {usdc, new}}}

(* The token accounts of the one reserve that can be asked for may each be *)
(* there or not.                                                           *)
AloneKinds ==
  {k \in Kind : k.reserve # eth /\ (k.op \in {"deposit", "borrow"} => ~k.all)}
AloneAccounts == {{LP(sol), Liq(new)} \cup A : A \in SUBSET {LP(usdc), Liq(usdc)}}
AloneSituations ==
  {Situation(w, q1 :> k) : w \in Wallets(AloneAccounts, {usdc, sol, new}), k \in AloneKinds}

MCSituations == RaceSituations \cup AloneSituations
=============================================================================
