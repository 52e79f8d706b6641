--------------------------- MODULE EnsureAccounts ---------------------------
(***************************************************************************)
(* What the server promises about the accounts a request needs, without    *)
(* saying how it reads the chain: a prepared request either brings all the *)
(* accounts it wants into being, in one step that changes nothing else, or *)
(* is refused and changes nothing.  It is refused only when it is stale,   *)
(* and a good answer goes stale only when somebody changes an account that *)
(* the request relied on.                                                  *)
(***************************************************************************)
CONSTANTS
  Accounts,  \* the accounts that may exist
  Requests,  \* the requests that may be under way at the same time
  Want,      \* Want[q]: the accounts that exist once q is executed
  Reads      \* Reads[q]: the accounts whose presence q's answer depends on

VARIABLES
  accounts,  \* the accounts that exist
  state,     \* what has become of each request
  stale      \* the prepared requests that may be refused

vars == <<accounts, state, stale>>

States == {"none", "prepared", "executed", "refused"}

TypeOK ==
  /\ accounts \subseteq Accounts
  /\ state \in [Requests -> States]
  /\ stale \in [Requests -> BOOLEAN]

Init ==
  /\ accounts \subseteq Accounts
  /\ state = [q \in Requests |-> "none"]
  /\ stale = [q \in Requests |-> FALSE]

(* The prepared requests of others keep their freshness as long as nobody  *)
(* touches what they read.                                                 *)
OthersStayFresh(S) ==
  \A p \in Requests \ S :
     accounts' \cap Reads[p] = accounts \cap Reads[p] => stale'[p] = stale[p]

Move(q, from, to) ==
  /\ state[q] \in from
  /\ state' = [state EXCEPT ![q] = to]

(* A request is made, for the first time or again.                         *)
Ask(q) ==
  /\ Move(q, {"none", "executed", "refused"}, "none")
  /\ UNCHANGED <<accounts, stale>>

(* Reads may have failed or gone out of date by the time of the answer.    *)
Prepare(q) ==
  /\ Move(q, {"none"}, "prepared")
  /\ \E b \in BOOLEAN : stale' = [stale EXCEPT ![q] = b]
  /\ UNCHANGED accounts

Forget(q) ==
  /\ Move(q, {"prepared"}, "none")
  /\ stale' = [stale EXCEPT ![q] = FALSE]
  /\ UNCHANGED accounts

Execute(q) ==
  /\ Move(q, {"prepared"}, "executed")
  /\ accounts' = accounts \cup Want[q]
  /\ stale' \in [Requests -> BOOLEAN]
  /\ ~stale'[q]
  /\ OthersStayFresh({q})

Refuse(q) ==
  /\ stale[q]
  /\ Move(q, {"prepared"}, "refused")
  /\ stale' = [stale EXCEPT ![q] = FALSE]
  /\ UNCHANGED accounts

(* Somebody else opens or closes accounts.                                 *)
Elsewhere ==
  /\ accounts' \in SUBSET Accounts
  /\ stale' \in [Requests -> BOOLEAN]
  /\ OthersStayFresh({})
  /\ UNCHANGED state

Next ==
  \/ \E q \in Requests : Ask(q) \/ Prepare(q) \/ Forget(q) \/ Execute(q) \/ Refuse(q)
  \/ Elsewhere

Spec == Init /\ [][Next]_vars
=============================================================================
