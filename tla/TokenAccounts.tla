--------------------------- MODULE TokenAccounts ---------------------------
(***************************************************************************)
(* The associated token accounts that SolClient's                          *)
(* getOrCreateAssociatedTokenAccountByMint looks up for every protocol of  *)
(* the server, and what becomes of the transactions built from its answer. *)
(*                                                                         *)
(* The server never writes to the chain.  A request handler awaits one     *)
(* look-up per mint (each await lets other handlers and other wallets act),*)
(* answers with a transaction made of the missing create instructions and  *)
(* of the instruction the user asked for, and forgets everything.  The     *)
(* client signs and submits that transaction later; the chain runs it      *)
(* entirely or not at all.  All requests below belong to one wallet:       *)
(* accounts of different wallets never meet.                               *)
(***************************************************************************)
EXTENDS Naturals, Sequences

CONSTANTS
  Mints,     \* the token mints that requests name
  Native,    \* the mint So111..112, whose "token account" is the wallet itself
  Requests,  \* the handlers that may be in flight at the same time
  Calls      \* Calls[q]: the look-ups the service behind q awaits, in order

(* A service either merges the create instruction of a look-up into its    *)
(* transaction or, as SerumOrderService.place does, drops it ([_, payer]). *)
Call == [mint : Mints, kept : BOOLEAN]

ASSUME CallsAssumption ==
  /\ Calls \in [Requests -> Seq(Call)]
  /\ \A q \in Requests : \A i, j \in 1..Len(Calls[q]) :
        Calls[q][i].mint = Calls[q][j].mint => i = j

VARIABLES
  accounts,  \* the mints for which the wallet's associated account exists
  pc,        \* where each request is
  idx,       \* the look-up each handler awaits
  creates,   \* the accounts the answer's transaction will create
  observed,  \* history: the accounts that existed when the handler looked
  faulted    \* history: some look-up of the handler failed for another reason

vars == <<accounts, pc, idx, creates, observed, faulted>>

PCs == {"idle", "preparing", "answered", "done", "failed"}

TypeOK ==
  /\ accounts \subseteq Mints \ {Native}
  /\ pc \in [Requests -> PCs]
  /\ idx \in [Requests -> Nat \ {0}]
  /\ creates \in [Requests -> SUBSET (Mints \ {Native})]
  /\ observed \in [Requests -> SUBSET (Mints \ {Native})]
  /\ faulted \in [Requests -> BOOLEAN]

-----------------------------------------------------------------------------
Asked(q, i) == Calls[q][i]

(* The accounts q has looked up so far, and those whose creation it keeps. *)
Looked(q) == {m \in Mints \ {Native} :
                \E i \in 1..Len(Calls[q]) : i < idx[q] /\ Asked(q, i).mint = m}

Kept(q) == {m \in Mints \ {Native} :
              \E i \in 1..Len(Calls[q]) :
                 i < idx[q] /\ Asked(q, i).mint = m /\ Asked(q, i).kept}

Init ==
  /\ accounts \in SUBSET (Mints \ {Native})
  /\ pc = [q \in Requests |-> "idle"]
  /\ idx = [q \in Requests |-> 1]
  /\ creates = [q \in Requests |-> {}]
  /\ observed = [q \in Requests |-> {}]
  /\ faulted = [q \in Requests |-> FALSE]

(* Mutant: one list of instructions shared by all requests of a service.   *)
Begin_SharedList(q) ==
  /\ pc[q] \in {"idle", "done", "failed"}
  /\ pc' = [pc EXCEPT ![q] = "preparing"]
  /\ idx' = [idx EXCEPT ![q] = 1]
  /\ observed' = [observed EXCEPT ![q] = {}]
  /\ faulted' = [faulted EXCEPT ![q] = FALSE]
  /\ UNCHANGED <<accounts, creates>>

(* A request reaches its service; a client whose last request is over may  *)
(* send it again.                                                          *)
Begin(q) ==
  /\ pc[q] \in {"idle", "done", "failed"}
  /\ pc' = [pc EXCEPT ![q] = "preparing"]
  /\ idx' = [idx EXCEPT ![q] = 1]
  /\ creates' = [creates EXCEPT ![q] = {}]
  /\ observed' = [observed EXCEPT ![q] = {}]
  /\ faulted' = [faulted EXCEPT ![q] = FALSE]
  /\ UNCHANGED accounts

Awaiting(q) == pc[q] = "preparing" /\ idx[q] <= Len(Calls[q])

(* Mutant: the services do not merge what the look-up hands back.          *)
Prepend_Dropped(q) == UNCHANGED creates

(* Mutant: the list is assigned where it should be merged.                 *)
Prepend_LastOnly(q) ==
  creates' = [creates EXCEPT ![q] =
                IF Asked(q, idx[q]).kept THEN {Asked(q, idx[q]).mint} ELSE @]

(* What the look-up hands back: the create instruction joins the           *)
(* transaction when the service keeps it.                                  *)
Prepend(q) ==
  creates' = [creates EXCEPT ![q] =
                @ \cup (IF Asked(q, idx[q]).kept THEN {Asked(q, idx[q]).mint} ELSE {})]

(* Mutant: no early return for SOL.                                        *)
LookupNative_Creates(q) ==
  /\ Awaiting(q)
  /\ Asked(q, idx[q]).mint = Native
  /\ idx' = [idx EXCEPT ![q] = @ + 1]
  /\ Prepend(q)
  /\ UNCHANGED <<accounts, pc, observed, faulted>>

(* SOL: the wallet's own key is returned, nothing is read.                 *)
LookupNative(q) ==
  /\ Awaiting(q)
  /\ Asked(q, idx[q]).mint = Native
  /\ idx' = [idx EXCEPT ![q] = @ + 1]
  /\ UNCHANGED <<accounts, pc, creates, observed, faulted>>

(* Mutant: no return inside the try block.                                 *)
LookupFound_Creates(q) ==
  /\ Awaiting(q)
  /\ Asked(q, idx[q]).mint \in accounts
  /\ idx' = [idx EXCEPT ![q] = @ + 1]
  /\ Prepend(q)
  /\ observed' = [observed EXCEPT ![q] = @ \cup {Asked(q, idx[q]).mint}]
  /\ UNCHANGED <<accounts, pc, faulted>>

(* deserializeTokenAccount succeeds: nothing to create.                    *)
LookupFound(q) ==
  /\ Awaiting(q)
  /\ Asked(q, idx[q]).mint \in accounts
  /\ idx' = [idx EXCEPT ![q] = @ + 1]
  /\ observed' = [observed EXCEPT ![q] = @ \cup {Asked(q, idx[q]).mint}]
  /\ UNCHANGED <<accounts, pc, creates, faulted>>

(* It throws because there is no such account.                             *)
LookupMissing(q) ==
  /\ Awaiting(q)
  /\ Asked(q, idx[q]).mint \notin accounts \cup {Native}
  /\ idx' = [idx EXCEPT ![q] = @ + 1]
  /\ Prepend(q)
  /\ UNCHANGED <<accounts, pc, observed, faulted>>

(* It throws because the RPC node does not answer properly (rate limit,    *)
(* time-out).  The catch clause does not tell the two apart.               *)
LookupFails(q) ==
  /\ Awaiting(q)
  /\ Asked(q, idx[q]).mint # Native
  /\ idx' = [idx EXCEPT ![q] = @ + 1]
  /\ Prepend(q)
  /\ observed' = [observed EXCEPT ![q] =
                    @ \cup ({Asked(q, idx[q]).mint} \cap accounts)]
  /\ faulted' = [faulted EXCEPT ![q] = TRUE]
  /\ UNCHANGED <<accounts, pc>>

(* The service merges what it kept with its own instruction and answers.   *)
Answer(q) ==
  /\ pc[q] = "preparing"
  /\ idx[q] > Len(Calls[q])
  /\ pc' = [pc EXCEPT ![q] = "answered"]
  /\ UNCHANGED <<accounts, idx, creates, observed, faulted>>

-----------------------------------------------------------------------------
(* The chain.  Creating an account that exists is an error, and so is      *)
(* using one that does not.                                                *)
Executable(q) ==
  /\ creates[q] \cap accounts = {}
  /\ Looked(q) \subseteq accounts \cup creates[q]

Execute(q) ==
  /\ pc[q] = "answered"
  /\ Executable(q)
  /\ accounts' = accounts \cup creates[q]
  /\ pc' = [pc EXCEPT ![q] = "done"]
  /\ UNCHANGED <<idx, creates, observed, faulted>>

Abort(q) ==
  /\ pc[q] = "answered"
  /\ ~Executable(q)
  /\ pc' = [pc EXCEPT ![q] = "failed"]
  /\ UNCHANGED <<accounts, idx, creates, observed, faulted>>

(* The user does not sign.                                                 *)
Abandon(q) ==
  /\ pc[q] = "answered"
  /\ pc' = [pc EXCEPT ![q] = "idle"]
  /\ UNCHANGED <<accounts, idx, creates, observed, faulted>>

(* Whatever else the wallet's owner uses opens and closes accounts too.    *)
OpenElsewhere(m) ==
  /\ m \notin accounts
  /\ accounts' = accounts \cup {m}
  /\ UNCHANGED <<pc, idx, creates, observed, faulted>>

CloseElsewhere(m) ==
  /\ m \in accounts
  /\ accounts' = accounts \ {m}
  /\ UNCHANGED <<pc, idx, creates, observed, faulted>>

-----------------------------------------------------------------------------
Lookup(q) ==
  LookupNative(q) \/ LookupFound(q) \/ LookupMissing(q) \/ LookupFails(q)

Next ==
  \/ \E q \in Requests : \/ Begin(q)
                         \/ Lookup(q)
                         \/ Answer(q)
                         \/ Execute(q)
                         \/ Abort(q)
                         \/ Abandon(q)
  \/ \E m \in Mints \ {Native} : OpenElsewhere(m) \/ CloseElsewhere(m)

Spec == Init /\ [][Next]_vars

(* Node's event loop resumes every handler whose look-up has come back, so *)
(* a handler is never starved.  A client that sends, submits and retries   *)
(* without end is what RetriesConverge is about; nothing forces faults,    *)
(* abandoned transactions or other wallets.                                *)
Fairness ==
  \A q \in Requests : /\ WF_vars(Lookup(q))
                      /\ WF_vars(Answer(q))
                      /\ WF_vars(Execute(q) \/ Abort(q))
                      /\ WF_vars(Begin(q))

FairSpec == Spec /\ Fairness

-----------------------------------------------------------------------------
(* A transaction fails only for a reason the handler could not have known: *)
(* a look-up that failed, an account that appeared or went away after the  *)
(* handler looked at it, or a missing account whose creation the service   *)
(* drops (placing an order from an account that was never opened).  With   *)
(* nobody else around, what getOrCreateAssociatedTokenAccountByMint and    *)
(* mergeInstructionsAndSigners put together always executes.               *)
FailureHasCause ==
  [][\A q \in Requests :
        pc[q] = "answered" /\ pc'[q] = "failed" =>
           \/ faulted[q]
           \/ accounts \cap Looked(q) # observed[q]
           \/ ~(Looked(q) \ Kept(q) \subseteq observed[q])]_vars

(* While look-ups have not failed, the accounts a handler will create are  *)
(* exactly the ones it saw missing, whatever the other handlers did in the *)
(* meantime: nothing seen present is created again and nothing seen        *)
(* missing is forgotten across the awaits.                                 *)
CreatesMatchObservation ==
  \A q \in Requests :
    pc[q] \in {"preparing", "answered"} /\ ~faulted[q] =>
      creates[q] = Kept(q) \ observed[q]

(* Two requests that both see an account missing both try to create it and *)
(* one of them aborts; but the abort leaves the account in place, so a     *)
(* client that asks again cannot lose the same race for ever.  Once no     *)
(* look-up fails, no account is closed and every answer is submitted, each *)
(* request that keeps its create instructions executes again and again.    *)
Disturbance ==
  \/ \E q \in Requests : LookupFails(q) \/ Abandon(q)
  \/ \E m \in Mints \ {Native} : CloseElsewhere(m)

RetriesConverge ==
  <>[][~Disturbance]_vars =>
     \A q \in Requests :
        (\A i \in 1..Len(Calls[q]) : Calls[q][i].kept) => []<>(pc[q] = "done")

(* common.client.ts:167: "if the call succeeds, then an account already    *)
(* exists - otherwise we need to create one".  Read as a promise: a create *)
(* instruction is prepared only for an account that is missing.            *)
CreateOnlyMissing ==
  [][\A q \in Requests : pc[q] = "preparing" /\ pc'[q] = "preparing" =>
        (creates'[q] \ creates[q]) \cap accounts = {}]_vars
-----------------------------------------------------------------------------
(* The same handlers seen from outside: the accounts a request asks for,   *)
(* what has become of it, and whether its answer may still be refused.     *)
AllLooked(q) == {m \in Mints \ {Native} :
                   \E i \in 1..Len(Calls[q]) : Calls[q][i].mint = m}

AllKept(q) == {m \in Mints \ {Native} :
                 \E i \in 1..Len(Calls[q]) :
                    Calls[q][i].mint = m /\ Calls[q][i].kept}

Outcome == [idle |-> "none", preparing |-> "none", answered |-> "prepared",
            done |-> "executed", failed |-> "refused"]

StateOf(q) == Outcome[pc[q]]

Stale(q) ==
  /\ pc[q] = "answered"
  /\ \/ faulted[q]
     \/ accounts \cap AllLooked(q) # observed[q]
     \/ ~(AllLooked(q) \ AllKept(q) \subseteq observed[q])

StateMap == [q \in Requests |-> StateOf(q)]
StaleMap == [q \in Requests |-> Stale(q)]

Ensure == INSTANCE EnsureAccounts WITH
  Accounts <- Mints \ {Native},
  Want     <- [q \in Requests |-> AllKept(q)],
  Reads    <- [q \in Requests |-> AllLooked(q)],
  state    <- StateMap,
  stale    <- StaleMap

(* The read-then-create protocol of getOrCreateAssociatedTokenAccountByMint*)
(* and its callers, awaits, races and failures included, amounts to one    *)
(* step: an answer that is executed leaves exactly the accounts the        *)
(* service asked for in addition to those there were, and an answer nobody *)
(* interfered with is not refused.                                         *)
ImplementsEnsure == Ensure!Spec
=============================================================================
