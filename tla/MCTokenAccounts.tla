-------------------------- MODULE MCTokenAccounts --------------------------
(* One wallet, two tokens and SOL; a settlement (base, then quote), a      *)
(* placed order whose payer account is dropped, and a settlement on a      *)
(* SOL-quoted market.                                                      *)
EXTENDS TokenAccounts

CONSTANTS base, quote, sol, settle, place, settleSol

MCMints == {base, quote, sol}
MCRequests == {settle, place, settleSol}

Keep(m) == [mint |-> m, kept |-> TRUE]
Drop(m) == [mint |-> m, kept |-> FALSE]

MCCalls == [q \in MCRequests |->
              CASE q = settle    -> <<Keep(base), Keep(quote)>>
                [] q = place     -> <<Drop(quote)>>
                [] q = settleSol -> <<Keep(base), Keep(sol)>>]
=============================================================================
