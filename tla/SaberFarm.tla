----------------------------- MODULE SaberFarm -----------------------------
(***************************************************************************)
(* saber.client.ts, the farm: staking pool tokens with a Quarry miner,     *)
(* taking them back, and harvesting the rewards.  One wallet, one pool.    *)
(*                                                                         *)
(* The requests look token accounts up as in TokenAccounts, where "vault"  *)
(* is the miner's vault, "iou" and "sbr" the wallet's accounts for the two *)
(* reward tokens.  The miner itself is never read: the code takes a        *)
(* missing vault as the sign that the miner has to be registered.  "lp" is *)
(* the wallet's account for the pool tokens, which no request looks up:    *)
(* withdrawing pays into it, and fails when it has been closed.            *)
(***************************************************************************)
EXTENDS TokenAccounts

CONSTANTS
  Kind,      \* what each request asks for
  Senders,   \* bound: the sets of requests that clients may be sending
  MaxTokens  \* bound: the pool tokens of the wallet, and the rewards it gets

Kinds == {"deposit", "withdraw", "harvest"}

Lookups == [deposit  |-> <<[mint |-> "vault", kept |-> TRUE]>>,
            withdraw |-> <<>>,
            harvest  |-> <<[mint |-> "iou", kept |-> TRUE],
                           [mint |-> "sbr", kept |-> TRUE]>>]

ASSUME FarmAssumption ==
  /\ MaxTokens \in Nat
  /\ Mints \ {Native} = {"vault", "iou", "sbr", "lp"}
  /\ Kind \in [Requests -> Kinds]
  /\ Senders \subseteq SUBSET Requests
  /\ Calls = [q \in Requests |-> Lookups[Kind[q]]]

VARIABLES
  miner,    \* the miner is registered
  pool,     \* pool tokens: those in the wallet and those staked
  purse,    \* rewards: due to the miner, claimed as IOU, redeemed as SBR
  usurped,  \* history: someone opened the vault without registering the miner
  sent      \* the requests that clients send, over and over

farm == <<miner, pool, purse, usurped, sent>>
farmVars == <<vars, farm>>

FarmInit ==
  /\ Init
  /\ "lp" \in accounts
  /\ miner = ("vault" \in accounts)
  /\ pool = [wallet |-> MaxTokens, staked |-> 0]
  /\ purse = [due |-> 0, iou |-> 0, sbr |-> 0]
  /\ usurped = FALSE
  /\ sent \in Senders

-----------------------------------------------------------------------------
(* The handlers.                                                           *)

(* Reading the mint or the quarry, or the SDK's own reads, can fail.       *)
Reject(q) ==
  /\ pc[q] = "preparing"
  /\ pc' = [pc EXCEPT ![q] = "failed"]
  /\ UNCHANGED <<accounts, idx, creates, observed, faulted>>

Ask(q) == q \in sent /\ Begin(q)

Handle(q) ==
  /\ Ask(q) \/ Lookup(q) \/ Answer(q) \/ Reject(q) \/ Abandon(q)
  /\ UNCHANGED farm

(* Mutant: createMiner is forgotten.                                       *)
RegistersMiner_Never(q) == FALSE

(* Mutant: it is prepared for every deposit.                               *)
RegistersMiner_Always(q) == Kind[q] = "deposit"

(* createMiner joins the answer exactly when the vault has to be created.  *)
RegistersMiner(q) == Kind[q] = "deposit" /\ "vault" \in creates[q]

(* claim, then redeemAllTokensFromMintProxy.                               *)
Harvested(p) ==
  [due |-> 0, iou |-> 0, sbr |-> p.sbr + p.iou + p.due]

-----------------------------------------------------------------------------
(* The quarry program.  Registering needs a vault and no miner, the others *)
(* need the miner; each request moves one token.                           *)
FarmAccepts(q) ==
  \/ Kind[q] = "deposit" /\ pool.wallet > 0 /\ (miner <=> ~RegistersMiner(q))
  \/ Kind[q] = "withdraw" /\ pool.staked > 0 /\ miner /\ "lp" \in accounts
  \/ Kind[q] = "harvest" /\ miner

Stake(q) ==
  /\ Kind[q] = "deposit"
  /\ miner' = TRUE
  /\ pool' = [wallet |-> pool.wallet - 1, staked |-> pool.staked + 1]
  /\ UNCHANGED <<purse, usurped, sent>>

Unstake(q) ==
  /\ Kind[q] = "withdraw"
  /\ pool' = [wallet |-> pool.wallet + 1, staked |-> pool.staked - 1]
  /\ UNCHANGED <<miner, purse, usurped, sent>>

Harvest(q) ==
  /\ Kind[q] = "harvest"
  /\ purse' = Harvested(purse)
  /\ UNCHANGED <<miner, pool, usurped, sent>>

FarmExecute(q) ==
  /\ FarmAccepts(q)
  /\ Execute(q)
  /\ Stake(q) \/ Unstake(q) \/ Harvest(q)

(* Mutant: the accounts are created by a transaction of their own, after   *)
(* which the second one may still be refused or lost.                      *)
FarmRefuse_Apart(q) ==
  /\ pc[q] = "answered"
  /\ Executable(q)
  /\ pc' = [pc EXCEPT ![q] = "failed"]
  /\ accounts' = accounts \cup creates[q]
  /\ UNCHANGED <<idx, creates, observed, faulted, farm>>

(* Each service answers one transaction, so nothing is left of one that is *)
(* refused.                                                                *)
FarmRefuse(q) ==
  /\ pc[q] = "answered"
  /\ ~(Executable(q) /\ FarmAccepts(q))
  /\ pc' = [pc EXCEPT ![q] = "failed"]
  /\ UNCHANGED <<accounts, idx, creates, observed, faulted, farm>>

(* Anybody can open the vault, and the wallet's owner the other accounts.  *)
FarmOpenElsewhere(m) ==
  /\ OpenElsewhere(m)
  /\ usurped' = (usurped \/ (m = "vault"))
  /\ UNCHANGED <<miner, pool, purse, sent>>

(* Only empty accounts close, and nobody can close the vault.              *)
FarmCloseElsewhere(m) ==
  /\ m # "vault"
  /\ IF m = "lp" THEN pool.wallet = 0 ELSE purse[m] = 0
  /\ CloseElsewhere(m)
  /\ UNCHANGED farm

(* The wallet's owner registers the miner, or claims, with another client. *)
RegisterElsewhere ==
  /\ ~miner
  /\ miner' = TRUE
  /\ accounts' = accounts \cup {"vault"}
  /\ UNCHANGED <<pc, idx, creates, observed, faulted, pool, purse, usurped, sent>>

ClaimElsewhere ==
  /\ purse.due > 0
  /\ "iou" \in accounts
  /\ purse' = [due |-> 0, iou |-> purse.iou + purse.due, sbr |-> purse.sbr]
  /\ UNCHANGED <<vars, miner, pool, usurped, sent>>

Accrue ==
  /\ pool.staked > 0
  /\ purse.due + purse.iou + purse.sbr < MaxTokens
  /\ purse' = [due |-> purse.due + 1, iou |-> purse.iou, sbr |-> purse.sbr]
  /\ UNCHANGED <<vars, miner, pool, usurped, sent>>

-----------------------------------------------------------------------------
FarmNext ==
  \/ \E q \in Requests : Handle(q) \/ FarmExecute(q) \/ FarmRefuse(q)
  \/ \E m \in Mints \ {Native} : FarmOpenElsewhere(m) \/ FarmCloseElsewhere(m)
  \/ RegisterElsewhere
  \/ ClaimElsewhere
  \/ Accrue

FarmSpec == FarmInit /\ [][FarmNext]_farmVars

(* As in TokenAccounts: handlers resume, clients submit and ask again.     *)
FarmFairness ==
  \A q \in Requests : /\ WF_farmVars((Lookup(q) \/ Answer(q)) /\ UNCHANGED farm)
                      /\ WF_farmVars(FarmExecute(q) \/ FarmRefuse(q))
                      /\ WF_farmVars(Ask(q) /\ UNCHANGED farm)

FarmFairSpec == FarmSpec /\ FarmFairness

-----------------------------------------------------------------------------
(* Vault and miner come into being together: the only vault without a      *)
(* miner is one that someone else opened.                                  *)
MinerAndVault ==
  /\ miner => "vault" \in accounts
  /\ "vault" \in accounts /\ ~miner => usurped

(* saber.client.ts:451 reads the vault, never the miner: once the vault is *)
(* there without a miner, no answer of the server registers one.           *)
MinerOnlyWithVault ==
  [][\A q \in Requests :
        pc[q] = "answered" /\ pc'[q] = "done" /\ miner' # miner =>
           "vault" \notin accounts]_farmVars

(* A refused farm transaction met with one of these: a failed look-up, an  *)
(* account that changed since its look-up, an usurped vault, too few       *)
(* tokens, no miner to withdraw or harvest from, or an account for the pool*)
(* tokens that was closed while they were all staked.                      *)
FarmRefusalExplained ==
  [][\A q \in Requests :
        pc[q] = "answered" /\ pc'[q] = "failed" =>
           \/ faulted[q]
           \/ accounts \cap Looked(q) # observed[q]
           \/ Kind[q] = "deposit" /\ (pool.wallet = 0 \/ (usurped /\ ~miner))
           \/ Kind[q] = "withdraw" /\ (pool.staked = 0 \/ ~miner \/ "lp" \notin accounts)
           \/ Kind[q] = "harvest" /\ ~miner]_farmVars

(* First deposits may race for the miner, and only one wins; but as long   *)
(* as nobody usurps the vault, a client that retries gets its tokens       *)
(* staked once reads stop failing.                                         *)
FarmDisturbance ==
  \/ \E q \in Requests : LookupFails(q) \/ Reject(q) \/ Abandon(q)
  \/ \E m \in Mints \ {Native} : CloseElsewhere(m)

DepositsConverge ==
  []~usurped /\ <>[][~FarmDisturbance]_farmVars =>
     \A q \in Requests :
        Kind[q] = "deposit" =>
           []<>(q \in sent => pc[q] = "done" \/ pool.wallet = 0)
=============================================================================
