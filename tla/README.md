# dbricks-server in TLA+

dbricks-server is a stateless Express server. It turns a REST request ("deposit 5 USDC
into Solend") into lists of Solana instructions, which the client packs into
transactions, signs and submits. The server itself writes nothing to the chain. What
makes it hard to get right is the distance between the two: a handler reads the chain
several times, one `await` after another, and what it prepares runs seconds later,
in one transaction or several, on a chain that others have changed meanwhile.

So every module here models three things together: the handler (one action per
stretch of code between two awaits), the transactions it answers with, and the
programs that accept or refuse them. Programs and libraries are not in this
repository; they are modelled only as far as the handlers depend on them, and are
marked external in `PROJECT.json`.

## Inventory

| component | source (under `src/src`) | state | operations | what makes it correct |
|---|---|---|---|---|
| `SolClient` | `common/client/common.client.ts` | none; reads token accounts | look up or create an associated token account, list a wallet's accounts | a creation is prepared for exactly the accounts that are missing |
| instruction lists | `common/util/common.util.ts` | none | merge, split | order is kept, no signer is duplicated, and no cut separates a creation from a use that comes before it |
| Solend | `solend/` | `obligationDeposits`, `obligationBorrows` of a client instance | deposit, withdraw, borrow, repay | everything the operation relies on is created and refreshed before it, in the same slot |
| Serum orders | `serum/client`, `serum.service.order.ts` | none | place, cancel one, cancel all | "cancel all" answers every order although the callbacks are not awaited |
| Serum settling | `serum.service.market.ts`, `serum/client` 140-180 | none; an open-orders account per wallet on the chain | settle | all funds come back; one open-orders account is enough |
| Serum markets | `serum.service.market.ts`, `serum/client` 180-371 | keys generated on the way | init, in two transactions | the second transaction fits the first; lot sizes are what was asked for |
| Mango accounts and spot | `mango/` | `group` of a client instance | deposit, withdraw, place, cancel, settle | missing accounts are created once and before use; temporary accounts do not survive |
| Mango perp | `mango/client` 480-690 | as above | place, cancel, settle | lots are what was asked for; an order is found under its account; counterparties settle as much as a transaction can |
| Saber pools | `saber/client` 1-440 | SDK objects of a client instance | deposit, withdraw one token, swap | what is wrapped is what is paid; only the difference between what the pool pays and what was asked stays wrapped |
| Saber farm | `saber/client` 440-553 | as above | deposit, withdraw, harvest | the miner exists when it is used |
| HTTP server | `app.ts`, `server.ts`, controllers, serializers, routes | rate limiter windows; handlers in flight | route, parse, call a service, answer | every request is answered, a failure reaches only its own request, no client exceeds its rate |
| configuration, mint look-up, docs generator, testers | `config/`, `common/services`, `../docs`, `../e2e` | none | | no ordering or state of their own |

Interactions: a route calls a controller method, which parses the body, makes a new
service object (a subclass of its protocol's client, a subclass of `SolClient`) and
sends what the service's promise resolves to, or a 500 through `next` when it
rejects. Handlers share the Node process and its event loop, and nothing else:
all they can do to each other is through the chain, and by ending the process.
Inside a handler, Serum and Saber services call the token account look-ups of
`SolClient` before they build their own instructions; cancellations and Solend's
answers pass through the split of the instruction lists.

Hard behaviours, with their lines, are the `hazards` of `PROJECT.json`. The main ones:

* what was read is stale when its transaction runs (everywhere);
* an error of a read taken for an answer (`common.client.ts:172`; `mango.client.ts:717`
  would, if its `catch` could ever run);
* a `forEach` with an async callback that nobody awaits (`serum.client.ts:132`);
* refreshes that must share a slot with the operation they serve, in an answer that is
  cut into transactions (`solend.service.borrow.ts:16`);
* keys generated per request, so that two requests can each create "the" account
  (`mango.client.ts:119`, Serum's open-orders accounts), after which later requests
  only ever see the first;
* one account's existence taken as a sign of another's (`saber.client.ts:451`);
* accounts named by their position in a list that changes (`mango.client.ts:732`);
* amounts converted from floats, twice, at different numbers of decimals
  (`saber.client.ts:394`, `serum.client.ts:252`, `mango.client.ts:505`);
* two transactions of which only the first may run (`serum.service.market.ts:57`);
* exceptions outside the promise chain, which leave a request without an answer and,
  on Node 16, end the process.

## Modules

| module | models | extends |
|---|---|---|
| `EnsureAccounts` | abstract: what a request for token accounts promises | |
| `TokenAccounts` | token account look-ups of a wallet's requests, and their transactions | |
| `TokenAccountsProofs` | theorems about it, that it implements `EnsureAccounts`, and about farm and pool | `MCSaber`, `FoldTheorems` |
| `InstructionLists` | merge and split | |
| `FoldTheorems` | theorems about folds of any step over any sequence or finite set | |
| `InstructionListsProofs` | lemmas: a split loses, repeats and reorders nothing | `InstructionLists` |
| `SolendLending` | the four Solend services, the obligation and the lending program | `InstructionLists` |
| `SolendLendingProofs` | theorems about it | `SolendLending`, `InstructionListsProofs` |
| `SerumCancel` | cancelling on Node's microtask queue | `InstructionLists` |
| `SerumTrading` | placing and settling, and open-orders accounts | |
| `SerumMarket` | a new market in two transactions | |
| `SerumProofs` | theorems about all three | `MCSerum`, `InstructionListsProofs` |
| `MangoSpot` | Mango accounts, deposits, withdrawals, spot orders | `InstructionLists` |
| `MangoSpotProofs` | theorems about it | `MangoSpot`, `InstructionListsProofs` |
| `MangoPerpOrders` | perp orders: lots, placing, cancelling one or all | |
| `MangoPerpSettle` | settling a perp market's profit or loss | |
| `MangoPerpProofs` | theorems about both | `MCMangoPerp`, `InstructionListsProofs` |
| `SaberPool` | pool deposits, withdrawals and swaps, with wrapping | `TokenAccounts` |
| `SaberFarm` | staking, unstaking and harvesting | `TokenAccounts` |
| `HttpServer` | limiter, parsing, answers, the process | |
| `HttpServerProofs` | theorems about it | `HttpServer` |
| `MCSerum` | the three of Serum side by side, and their instances | `SerumCancel` |
| `MCMangoPerp` | the two of perp markets side by side, and their instances | `MangoPerpSettle` |
| `MCSaber` | farm and pool side by side, and their instances | `SaberFarm` |
| other `MC...` | instances for TLC | the module they are named for |

`MCSerum`, `MCMangoPerp` and `MCSaber` each hold modules that share no state: the
variable `about`, chosen at the start, says which of them a behaviour is about, and the
variables of the others stand still. `About` says which a run chooses from; constants of
the others are then as small as their assumptions allow. All but one of the modules are
brought in there by `INSTANCE`, as `Trading`, `Market`, `Perp` and `Pool`, so what those
assume of their constants is a definition (`TradingAssumption`, `MarketAssumption`,
`PoolAssumption`) that the MC module assumes. The proofs about them extend the MC module,
but none uses what it says of `about`: theorems are about each module's own specification.

Definitions whose comment begins "Mutant:" are plausible mistakes in the definition
next to them. No specification uses them: each one replaces its original to confirm
that some property notices.

### TokenAccounts and EnsureAccounts

`accounts` is the set of mints for which the wallet's account exists. A request is
`idle`, then `preparing`: one `Lookup...` action per awaited
`getOrCreateAssociatedTokenAccountByMint`, in the order of `Calls[q]`. The four
look-ups are the four ways through that function: the early return for SOL, the
`return` in the `try`, and the `catch` reached for a missing account or for any other
error. `creates` are the instructions the service kept (`kept` is FALSE where
`[_, payer]` drops them). The answered transaction executes or aborts as a whole.
`observed` and `faulted` are history. `OpenElsewhere` and `CloseElsewhere` are the
wallet's other applications.

`EnsureAccounts` says what that amounts to for a client that does not see the reads:
a prepared request brings exactly the accounts it wants into being, in one step that
changes nothing else, or is refused and changes nothing; it is refused only when
stale; and a good answer becomes stale only when somebody touches an account it read.
The mapping (`ImplementsEnsure`) takes an answer to be stale when a creation
would meet an existing account or a use a missing one.

### SolendLending

`chain` holds the wallet's token accounts and obligation, which reserves are `fresh`
(refreshed in the current slot) and whether the obligation is `current`. `NextSlot`
forgets both. A request goes through the awaits of `prepareDepositTransaction` or
`prepareTokenAndRefreshInstructions`; `req[q].txs` is its answer, and `Submit` runs it
piece by piece, stopping at the first failure (`SubmitFails`). `ParseThrows` is the
exception outside the promise chain: the request stays unanswered and the handlers
under way are lost with the process; it takes a mint without a listing, or an amount
that does not scale to a whole number (`Parses`). Amounts are otherwise reduced to
whether they empty a position. A wallet's accounts for a mint are reduced to the associated one.
What is asked and the wallet it starts from come as one of `Situations`; the
requests are those that the situation names (`Sent`).
`disturbed` records that a read failed, that another request's transaction touched
what this one read, or that a slot passed between two pieces of its answer.

### SerumCancel

The event loop is explicit: `microtasks` is the queue of continuations, run one at a
time (`PushCancellation`, `ReturnFound`, `SplitBegins`); replies of the RPC node and
new requests are macrotasks that wait for the queue to be empty. That is the only
reason the un-awaited callbacks of "cancel all" are in time: they were queued before
the caller's continuation. It rests on `makeCancelOrderTransaction` not awaiting
anything itself; the mutant `CancelAll_CallerFirst` shows what one more `await` there
would do. Callers without a signer lose nothing in the split.

### SerumTrading

`orders` maps the wallet's open-orders accounts on one market to what rests, what is
filled but not yet consumed, and what is free to settle. Placing takes the first
account the node returns or adds a new one under a fresh key (`PlaceInFirst`,
`PlaceInNew`); settling takes the first, or answers nothing when there is none
(`target` is then `None`). Every order is one token. `raced` is history: two
first orders were prepared side by side.

### SerumMarket

A key pair is known by its request and role. The handler's three awaits build
`answer.first` (five state accounts), `answer.second` (two vaults) and the keys of the
initialisation, taken by position as the code does. Sizes are fractions over `Scale`,
so that rounding, and rounding to nothing, can be told exactly. The client runs the
first transaction, waits, and runs the second, but may stop, or take the first for
lost when it was not. `rent` is what the wallet can pay for.

### MangoSpot

`chain.accounts` maps a Mango account's key to its open-orders account and slots;
keys are named after the request that generated them. The Mango program fills and
consumes slots in two steps (`Fill`, `ConsumeEvents`), which is what lies between the
two snapshots "cancel all" intersects. `wrapped` are the temporary accounts that wrap
SOL. A request is used once: a second one is another member of `Requests`. As in
`SolendLending`, requests and wallet come from `Situations`. `UndisturbedOutcome` is
about requests that nothing disturbs; `SpotRefusalExplained` says of all of them that
what the chain refuses was created, or taken away, by somebody else since.

### MangoPerpOrders

`accounts` is the list the node returns; a request names an account by its number in
it. `open` are the orders in the book, `via[o]` the number under which an order was
placed, `moved` that an account was listed before an older one. A handler reads the
account by its number and then, to cancel one order, the book. Prices and sizes are in
the float's smallest step, `1 / Fine` of a native unit. A placed order rests in the
book or trades at once; a cancelled or filled one is `gone`.

### MangoPerpSettle

A profit or loss is an integer in units of 0.000001, the constant of the clamp. Own
account, market, cache and all accounts are read one after the other; `Pick` is the
greedy loop, as a fold over the sorted accounts. `seen` is the chain when the
requester's own account was read, until something else moves. `SettlesTheMost` and
`FewestCounterparties` compare the loop with every subset of counterparties.

### SaberPool

On top of the look-ups, `ask` is what an answer was asked for: an amount per token, and
what two float conversions may have taken off (`coarse` at the wrapped token's
decimals, `fine` at the pool's). `PoolInstructions` is the list the service builds:
wrap, then the pool's instruction, then unwrap. `Results` is what the programs make of
one instruction, and a transaction is the fold over the list. What the pool pays is
its own affair: `Quote` is any function of its state (`market`, which changes when others
trade) and of the instruction. The code does not know it either, and unwraps the amount that
the client named; `LeftWrapped` is the difference, which stays wrapped or is taken
from what earlier requests left. One token may be `Tagged` as wrapped: the code has an
`if` for each of the two, but no pool of the registry has both.

### SaberFarm

On top of the look-ups, `miner` says whether the miner is registered. The code reads
only the vault, and registers the miner exactly when it has to create the vault
(`RegistersMiner`). `usurped` is history: somebody opened the vault, which anybody can,
without registering the miner. Withdrawing unstakes into the wallet's pool-token account,
`"lp"`, which its handler neither looks up nor creates: closed since, it makes the chain
refuse. `sent` are the requests that clients send in this behaviour, over and over.

### HttpServer

A body that is no JSON is answered before the limiter counts it; the limiter counts
every other request, also the refused ones, in windows of `Ticks` instants that
start with the process; then come the routes and the controllers. Parsing happens
outside the promise chain (`ParseThrows`), and ends the process and every handler in
it; a container's supervisor restarts it. Between acceptance and answer a service is
a single await, whose detail is in the other modules. `recent` and `age` are history.
`ClientsGetThrough` is about the limiter: refused requests count, yet a client that never
slows down is let through again when the window ends, which no request can put off (the
mutant `Limited_Prolongs`).

## Runs

| run | module, cfg | shows | states |
|---|---|---|---|
| `token_accounts` | `MCTokenAccounts` | types, creations match observations, every failure has a cause, retries converge, and `EnsureAccounts` is implemented | 151 k |
| `token_create_only_missing` | `MCTokenCreateOnlyMissing` | violated: a creation for an account that exists | |
| `solend` | `MCSolendLending` | an undisturbed request succeeds exactly when it could; positions change only on completion: alone, racing, and beside a request that ends the process | 2,023 k |
| `solend_refreshed_once` | `MCSolendRefreshedOnce` | violated: the target reserve is refreshed twice | |
| `serum_cancel` | `MCSerum`, `MCSerumCancel` | complete answers, explained leftovers, every request answered | 151 k |
| `serum_markets` | `MCSerum` | trading: a second open-orders account only by a race, and free money returns; new markets: whole, with the lot sizes asked for, leftovers explained, and one for every answer that is seen through | 104 k |
| `mango_spot` | `MCMangoSpot` | orders go through undisturbed; "cancel all" is complete; second accounts only by a race; wrapped SOL is temporary; refusals explained | 659 k |
| `mango_perp_orders` | `MCMangoPerp`, `MCMangoPerpOrders` | lots within a lot of what was asked, refusals and "not found" explained, repeated cancel-all empties the accounts | 395 k |
| `mango_settle_perp` | `MCMangoPerp`, `MCMangoPerpSettle` | the greedy choice is optimal and minimal when undisturbed, and never against the own account | 935 k |
| `mango_fees_pay` | `MCMangoPerp`, `MCMangoFeesPay` | violated: fees above the loss do not end the handler | |
| `saber` | `MCSaber` | farm: vault and miner, explained refusals, deposits converge; pool: only the quote's difference stays wrapped, explained refusals | 558 k |
| `http_server` | `MCHttpServer` | at most twice the limit in any second, clients that go on sending get through, only parsing ends the process | 57 k |

Bounds, and why they are enough:

* Two requests give every order of two handlers' reads and transactions. Token accounts
  have three, one for each way a service uses the look-up; deposits to Mango have three
  so that a race for the first account can meet a later deposit; the farm has three at
  a time, two deposits that race and a withdrawal that finds the miner or does not.
* Two mints and SOL are all that a service ever looks up at once. Solend's situations
  are every obligation over two reserves, one of them possibly unlisted, for two racing
  requests, and over three reserves, native and unlisted among them, for one request of
  any kind. `Caps` cut an answer into single instructions, into a few pieces, or
  not at all.
* Three orders and `Cap = 2` give full and partial cancel transactions. Two old orders
  and two new ones suffice for slots and book to differ in every way.
* Serum trading has three keys, in whose order accounts are found, two tokens, and a
  settlement that is asked for again and again. New markets have lot and tick sizes at zero,
  under a half, at a half and at one, and rent for none up to two markets.
* Perp orders: `Slots = 2` and `Limit = 1` make an account fuller than one cancel-all
  can empty, three orders fill it again; two accounts can be renumbered once. Asks lie
  under, at and above a lot.
* Perp settlement: four accounts with a profit or loss of at most 2 and two instructions
  make the limit, the change of sign and ties in the sort all occur; `MaxMoves` lets
  one account move between the reads, or before the transaction.
* Pools: amounts of 2 and 3 with a wrapper unit of 2 are a whole and a fractional
  number of units; what conversion takes off is 0 or 1; the pool pays double in one of its
  two states and keeps 2 in the other, more than a unit either way; one request is under way at
  a time (`InFlight`), as races for the accounts are those of `token_accounts`, and its
  wallet owns at most 3 of a token.
* The farm's wallet has one token, and so have its rewards: that a second deposit finds
  none left is one of its cases.
* The server has one request of each kind, two clients, a limit of 2 and two instants in
  a second.
* Symmetry is used only for accounts of `mango_settle_perp` that never settle
  themselves (`Bystanders`), in a run of invariants.

`CHECK_DEADLOCK FALSE` appears with `MangoSpot` and in `serum_markets`: requests of the first,
and requests for a market, are used once, so when all are over nothing remains to
happen. Everywhere else a state without a successor would be an error.

Fairness. Node's event loop resumes every handler whose reply has come, and a reply
always comes, be it an error, so a handler's next step is weakly fair wherever
liveness is stated. What is added, per module:

* `TokenAccounts`, `SaberFarm`: a client that keeps asking and submitting. `RetriesConverge`
  and `DepositsConverge` say what follows once failures, closures and abandoned
  answers have ceased, the latter only where nobody usurps the vault.
* `SerumCancel`: replies wait for an empty microtask queue, which comes and goes, hence
  strong fairness for replies and weak fairness for microtasks.
* `SerumTrading`: the client keeps asking for settlement, and Serum's crank consumes
  events. `FreeMoneyReturns` assumes that no two first orders raced.
* `SerumMarket`: clients submit what they were answered, unless they stop.
* `MangoPerpOrders`: a client that repeats cancel-all for every account number; numbers
  take turns, hence strong fairness for each. Placing is bounded by `Orders`, so
  `CancelAllEmpties` says what happens once nothing more is placed.
* `HttpServer`: time passes, a service's await ends, one way or the other, and a client goes on
  sending. `ClientsGetThrough` says what follows once the process stays up.

The chain's other users, matching, failures and restarts are never forced.

Three runs are violated, and `findings` in `PROJECT.json` quotes what they contradict:

* `CreateOnlyMissing`: `common.client.ts:172` takes any error of the read for a missing
  account, and answers a creation that must fail;
* `RefreshedOnce`: `solend.client.ts:240` looks a fresh object up by identity and never
  finds it, so the target reserve is refreshed a second time;
* `DoneWhenFeesPay`: the clamp of `mango.client.ts:629` makes the early return three
  lines below it unreachable, even when the fees are more than the loss.

## Proofs

Every theorem is about all values of the constants that meet the module's assumption,
and TLC checked each inductive invariant as an invariant of the run's instance before
it was proved. What the assumptions say beyond the run's constants, the code says too:
a service looks a mint up once, the lists a node returns are finite, a transaction has
room for something, an order's name is not the word for "all of them", an obligation is
not the mark for a missing one. Where one module of proofs is about several, `Trading!Spec`, `Market!Spec`,
`Perp!Spec` and `Pool!PoolSpec` are the specifications of those that `MCSerum`, `MCMangoPerp`
and `MCSaber` instantiate.

`TokenAccountsProofs` proves, for every set of mints, any number of requests and every
list of look-ups that names a mint at most once (`CallsAssumption`, which every
service meets because a market's two mints differ):

* `TypeCorrect`: `Spec => []TypeOK`;
* `ObservationAgrees`: `Spec => []CreatesMatchObservation`;
* `FailuresAreCaused`: `Spec => FailureHasCause`, an action property;
* `Refinement`: `Spec => ImplementsEnsure`;
* `Invariance`: the inductive invariant behind them.

`CreatesMatchObservation` is not inductive: when a look-up adds its mint to what is
kept, one has to know that the mint was not observed before, or a creation could be
missing from the list. `Snapshot` adds that what was observed was also looked at;
together with "a mint is looked up once" this gives `LookedGrows`, the lemma that the
awaited mint is new. `IInv` is `TypeOK` and every request's `Snapshot`. Steps of other
requests and wallets are handled by one frame lemma, `SnapshotFrame`: they leave a
request's own fields alone. `FailuresAreCaused` then follows from the invariant in the
state before the abort, where the transaction is not executable. The refinement
mapping needs more than `IInv`: that an answered handler has made every
look-up and creates nothing its service did not keep (`Complete`, with `IInv` the
invariant `RInv`). Then every action has its counterpart, one lemma each: `Begin` asks,
a look-up stutters, `Answer` prepares, `Execute` and `Abort` execute and refuse,
`Abandon` forgets, and the wallet's other applications are `Elsewhere`. `OthersFrame`
carries the part that all of them share: nobody else's answer goes stale unless an
account it read is touched.

Of the farm the same module proves, for any number of requests and tokens, `VaultComesWithMiner`
(`FarmSpec => []MinerAndVault`, inductive as it stands), `RegistersOnlyWithVault`
(`FarmSpec => MinerOnlyWithVault`: once the vault is there, no answer of the server
registers the miner; proved only, not a property of a run) and
`FarmRefusalsAreExplained` (`FarmRefusalExplained`). The last rests on `FarmInvariance`:
the look-ups' `IInv`, carried over to the farm's steps, that an answer has looked up
what its kind looks up, that pool and purse are natural numbers, and `MinerAndVault`.

Of the pool it proves, for any requests and amounts, any unit of the wrapper (or no wrapped
token at all) and whatever the pool pays in whatever state: `OnlyTheQuoteStaysWrapped`
(`WrappedByTheQuote`) and `PoolRefusalsAreExplained` (`PoolRefusalExplained`). The list of an
answer has one instruction, or two when something is wrapped (`PoolLists`), and running
it is a fold (`RunOne`, `RunTwo`). What each instruction makes of a purse is a lemma
(`WrapRuns`, `MiddleRuns`, `UnwrapRuns`): `Moved` says what becomes of a pool token,
`Affords` when the pool's instruction is accepted. `WrapperSettles` adds the two roundings
up: what is wrapped is within a unit of what is paid, the conversion's loss on either side
included (`WrappedAmount`), and what is unwrapped is less than a unit below what was asked,
so that what came in differs from it by what the pool quoted beyond (`LeftWrapped`) and at most a
unit. `RunsThrough` is the converse of a refusal: a wallet with enough passes every
instruction, unless what the pool pays and the remains of earlier requests do not reach the
amount that is to be unwrapped. For the accounts,
`PoolInv` says that an answer creates what its handler saw missing, which is all that it
will name (`UsesLookedUp`) but for what was there.

Of perp orders `MangoPerpProofs` proves, for any accounts, orders, requests and lot sizes:
`ConversionIsClose` (`WithinALot`: what is answered is less than a lot below what was asked,
in price and in size), `RefusalsAreExplained` and `NotFoundIsExplained`. The
invariant, `Invariance`, starts from `InItsAccount`: an order that is not gone is open in the
account its number named when it was placed, unless accounts were renumbered. That alone
says nothing of a handler that has read already, so `Sound` relates each request to it: what a
cancellation names was placed under that number, what was loaded is what the number stands for, what was
found is there until it is gone, and the lots of an answer are the conversion of what was
asked. The conversion's bounds come from lemmas about `div` (`QuantityIsWhole`,
`PriceIsWhole`).

Of trading and of new markets `SerumProofs` proves, for any requests, keys and sizes: `SecondAccountTakesARace`, from the invariant
that without a race all existing accounts and all those that answers will create are one
(`OneAccount`). Markets: `MarketsAreWhole`, `OrphansHaveAReason` and `SizesAreAsAsked`, from
`MarketInvariance`: `AnswerSoFar` says which keys an answer holds at each await, `OnChain` which
accounts of a request exist at each step, and `Made` that a market's seven accounts are
the ones its answer listed, by position. That the keys end up in their roles is
`KeysInPlace`; that five accounts and no more remain without a market is counted in
`FiveStates`.

`FoldTheorems` is about `FoldLeft` of any step over any sequence: the fold is a chain of
applications (`FoldIsChain`), and what holds of the base and survives each step holds of
the result (`FoldKeeps`). Step and invariant are constants of the module, which is
instantiated for each use, so this is the induction over data that the library's
induction theorems, with their operator parameters, cannot give here; it rests on every set of numbers having a least
element. For folds over finite sets, whose first element the definition leaves open,
`SetFoldAdds` says that any element can be taken last if the order of two steps does not
matter. `InstructionListsProofs` uses `FoldKeeps` to prove of `Chunks`, for every list and every
size, that the pieces cover the list (`ChunksCover`), joined give it back (`ChunksJoin`), and
repeat nothing (`ChunkPlaces`).

Of cancelling `SerumProofs` proves, for any number of orders and requests and every `Cap`: `TypeCorrect`, `AnswersAreComplete`,
`LeftoversHaveAReason` and `OnlyAskedIsCancelled` (`CancelsOnlyAsked`: a request takes no order off
the book that it was not asked for; proved only, not a property of a run). That the un-awaited callbacks are in time
is a statement about the queue. `CancelInv` says what the queue is at any moment: empty, with nobody
preparing; or the search for one order; or, for exactly one request, the
callbacks of the orders not yet pushed, in order, and then the caller (`Queue`, `Collecting`).
So a caller resumes when its list is complete. `Stage` says what a request has at each step,
and `Outcome` what its transactions did: those sent have taken their orders off the
book for good, those aborted missed one.

`MangoSpotProofs`, for any requests, situations and `Cap`: `TypeCorrect`, `NothingStaysWrapped`,
`SecondAccountTakesARace`, `CancelAllCompletes` and `OutcomeAsExpected` (`UndisturbedOutcome`).
A transaction is a fold of `Effect` over
its instructions, and `RunRan` says what any run does to the chain: which accounts
grow or lose what, and that the wrapped accounts left are those opened and not closed (`LeftOpen`). What each service answers
closes what it opens (`Closes`, one lemma per service). `SpotInv` adds what a request knows at each await and, for "cancel all",
that what is still to be cancelled is in the account's slots that were read or in a
transaction not sent yet (`CancelsAll`). Requests disturb each other only by
shrinking or by setting `disturbed` (`Shrinks`, `Bystander`).

`UndisturbedOutcome` needs the other half: that a transaction is accepted. `Traced` gives
the states a run goes through, and one lemma per service (`DepositRuns`, `NewAccountRuns`,
`WithdrawRuns`, `PlaceRuns`, `SettleRuns`, `CancelsRun`) that every instruction finds what it
needs, on every chain that equals the one read but for slots whose orders have left the book
(`Same`). `OutcomeInv` says of an undisturbed request that it still works on such a chain,
what it knows of it (`Knows`), and of an answer that it is settled (`Settled`): it will be
accepted and the wallet could ask for it, or fails at once and the wallet could not, or is
a cancellation of which each remaining order is on the book and named once (`Cancels`).

Of settling `MangoPerpProofs` proves, for any finite set of accounts, every profit, loss and fee and every
size of a transaction: `TypeCorrect`, `SettlesMost` (`SettlesTheMost`), `TakesFewest`
(`FewestCounterparties`) and `NeverOwnAccount` (`NeverAgainstItself`). The argument has
three parts. An exchange argument, `Heaviest`: a set none of whose members is outweighed
by an account outside amounts to at least as much as any set of no more members
(`Outweighs`). The loop, whose invariant `Chosen` says of the accounts visited
that those chosen are the largest on the other side, that one is passed over only when
there was enough or no room, and that the last one chosen was needed (`VisitKeeps`,
`PickIsGreedy`). And the transaction, another fold, whose invariant `Settled` says what
is left of the requester after each instruction (`SettlingKeeps`, `GreedyPays`).
`GreedyIsBest` and `GreedyIsFewest` put them together for one chain; `SettleInv` carries that
over the handler's awaits: every answer is a greedy choice for some state of the others,
and as long as `seen` is known, what was read and chosen is about the chain as it is.

`SolendLendingProofs`, for any reserves, obligations and requests, and every place where the
builder may cut an answer: `TypeCorrect`, `UndisturbedRequests` (`UndisturbedOutcome`) and
`PositionsAtCompletion` (`PositionsChangeAtCompletion`). Neither follows from what a request
has been sent alone, so `SolendInv` describes the list `L` that was cut into its transactions
and the places `s` where (`Cut`). Every such list consists of preparing steps and then
the request's operation (`Ordered`); that is enough for the positions, since a run of
preparing steps changes none (`SamePositions`). If nobody disturbed the
request, the handler knows the wallet as the request found it (`Knows`), each step of the list finds what it
needs when its turn comes and nothing the operation needs is missing (`Planned`: `Sound`, `Covers`), and the chain
stands where the list has got to (`Followed`). A transaction is a fold over its
instructions, so `FoldKeeps` carries `Followed` from one end of a piece to the other (`RanStep`). From it,
the next piece is accepted if the wallet could ask for the request, and refused otherwise. An
answer in several pieces survives a slot between them only as long as all of
the first is creations of token accounts, which is what `Planned` says of it.

`HttpServerProofs`, for any clients and requests, every limit and every division of a second:
`AtMostTwice` (`TwiceTheLimit`) and `OnlyParsingEnds` (`OnlyParsingEndsTheProcess`). What got
through in a second is a sum over instants, taken apart by `SetFoldAdds` (`SumGrows`, `OneMore`).
`TwiceTheLimit` says nothing of the window a second falls in; `LimiterInv` does: the part since the present window began is no more
than it has counted and than the limit, and the part before it, as long as this
process has lived, is no more than one window's worth.

Out of the proof system's reach, and only model-checked, is liveness under fairness:
`RetriesConverge`, `DepositsConverge`, `CancelAnswered`, `FreeMoneyReturns`,
`AnswerBecomesMarket`, `CancelAllEmpties` and `ClientsGetThrough`. `SpotRefusalExplained`, a
safety property, has been left to TLC as well. No module uses `RECURSIVE`.

## Not modelled

* Configuration, name tables, and the services that look a mint or a market's mints up:
  constant data, or one read without a consequence. Their controllers are among
  `HttpServer`'s.
* `SolClient`'s helpers for tests (airdrops, funding, transfers), the testers and the
  docs generator: not part of the server. The testers show how a client behaves:
  transactions in order, stop at the first failure.
* Saber's pools with SOL: for SOL the look-up answers the wallet's own address, which
  the pool program is then given as a token account; what becomes of that is decided
  outside this repository.
* Perp markets of tokens without a spot market: a comment in the code leaves them out.
* Sizes in bytes, fees and, but for new markets, rent and balances: a transaction's room
  is a number of instructions, and a wallet can pay.
* Logging and CORS headers.
