---------------------------- MODULE SerumCancel ----------------------------
(***************************************************************************)
(* Cancelling orders on a Serum market: SerumOrderService.cancel,          *)
(* prepareCancelOrderTransaction and splitInstructionsAndSigners on Node's *)
(* event loop, and the fate of the cancellations on the chain.             *)
(*                                                                         *)
(* To cancel all orders the code calls forEach with an async callback and  *)
(* returns the array that the callbacks are still to fill.  Nothing awaits *)
(* the callbacks: whether the array is complete when the service reads it  *)
(* depends on the order in which the microtask queue resumes them.  Replies *)
(* of the RPC node are macrotasks: they run when that queue is empty.      *)
(***************************************************************************)
EXTENDS Naturals, InstructionLists

CONSTANTS
  Orders,     \* the orders one wallet ever has on the market
  Requests,   \* cancel requests that may be in flight together
  All,        \* no order id: cancel every order
  Ids,        \* what requests ask for: order ids, known or not, or All
  Cap         \* cancellations that fit into one transaction

ASSUME SerumCancelAssumption ==
  /\ IsFiniteSet(Orders)
  /\ All \in Ids \ Orders
  /\ Cap \in Nat \ {0}

VARIABLES
  book,       \* the wallet's orders on the book
  placed,     \* the orders placed so far, on the book or gone
  microtasks, \* the event loop's queue of continuations
  req         \* each request: handler, answer and what was submitted

vars == <<book, placed, microtasks, req>>

PCs == {"idle", "market", "orders", "preparing", "sizing",
        "submitting", "done", "error500"}

(* Continuations: of a forEach callback, of the await for the one order    *)
(* asked for, and of the service that awaits the list.  The library's      *)
(* makeCancelOrderTransaction does not await anything itself, so a         *)
(* continuation is queued as soon as it is called.                         *)
Push(q, o) == [task |-> "push", of |-> q, order |-> o]
Found(q, o) == [task |-> "found", of |-> q, order |-> o]
Resume(q) == [task |-> "resume", of |-> q]

Tasks == {Push(q, o) : q \in Requests, o \in Orders}
           \cup {Found(q, o) : q \in Requests, o \in Orders}
           \cup {Resume(q) : q \in Requests}

TypeOK ==
  /\ book \subseteq placed /\ placed \subseteq Orders
  /\ microtasks \in Seq(Tasks)
  /\ \A q \in Requests :
       /\ req[q].pc \in PCs
       /\ req[q].wanted \in Ids
       /\ req[q].loaded \subseteq placed
       /\ req[q].instructions \in Seq(Orders)
       /\ req[q].bricks \in Seq(Orders)
       /\ req[q].txs \in Seq(Seq(Orders))
       /\ req[q].aborted \subseteq 1..Len(req[q].txs)

Idle(id) == [pc |-> "idle", wanted |-> id, loaded |-> {}, instructions |-> <<>>,
             bricks |-> <<>>, txs |-> <<>>, next |-> 1, aborted |-> {}]

Init ==
  /\ book \in SUBSET Orders
  /\ placed = book
  /\ microtasks = <<>>
  /\ req = [q \in Requests |-> Idle(All)]

-----------------------------------------------------------------------------
(* Macrotasks: a request or a reply, when no continuation is waiting.      *)
LoopIdle == microtasks = <<>>

Goto(q, pc) == req' = [req EXCEPT ![q].pc = pc]

(* A request arrives, perhaps from a client whose last one is over.        *)
Begin(q) ==
  /\ LoopIdle /\ req[q].pc \in {"idle", "done", "error500"}
  /\ \E id \in Ids : req' = [req EXCEPT ![q] = [Idle(id) EXCEPT !.pc = "market"]]
  /\ UNCHANGED <<book, placed, microtasks>>

(* loadSerumMarket.                                                        *)
MarketLoaded(q) ==
  /\ LoopIdle /\ req[q].pc = "market"
  /\ Goto(q, "orders")
  /\ UNCHANGED <<book, placed, microtasks>>

(* A failure outside the try block rejects the handler's promise.          *)
Rejected(q) ==
  /\ LoopIdle /\ req[q].pc \in {"market", "sizing"}
  /\ Goto(q, "error500")
  /\ UNCHANGED <<book, placed, microtasks>>

(* Mutant: a promise that is never settled.                                *)
ReturnEmpty_Never(q) ==
  /\ Goto(q, "preparing")
  /\ UNCHANGED microtasks

(* prepareCancelOrderTransaction returns an empty list, so that its caller *)
(* is the only continuation queued.                                        *)
ReturnEmpty(q) ==
  /\ Goto(q, "preparing")
  /\ microtasks' = <<Resume(q)>>

OrdersNotLoaded(q) ==
  /\ LoopIdle /\ req[q].pc = "orders"
  /\ ReturnEmpty(q)
  /\ UNCHANGED <<book, placed>>

(* The reply of loadOrdersForOwner holds the wallet's orders of now.       *)
NothingToCancel(q) ==
  /\ LoopIdle /\ req[q].pc = "orders"
  /\ book = {} \/ req[q].wanted \notin book \cup {All}
  /\ ReturnEmpty(q)
  /\ UNCHANGED <<book, placed>>

(* Mutant: an order that is not found is cancelled all the same.           *)
CancelOne_Unchecked(q) ==
  /\ LoopIdle /\ req[q].pc = "orders"
  /\ req[q].wanted # All
  /\ req' = [req EXCEPT ![q].pc = "preparing", ![q].loaded = {req[q].wanted} \cap book]
  /\ microtasks' = <<Found(q, req[q].wanted)>>
  /\ UNCHANGED <<book, placed>>

CancelOne(q) ==
  /\ LoopIdle /\ req[q].pc = "orders"
  /\ req[q].wanted \in book
  /\ req' = [req EXCEPT ![q].pc = "preparing", ![q].loaded = {req[q].wanted}]
  /\ microtasks' = <<Found(q, req[q].wanted)>>
  /\ UNCHANGED <<book, placed>>

(* Mutant: the library awaits once more, so the caller goes on first.      *)
CancelAll_CallerFirst(q) ==
  /\ LoopIdle /\ req[q].pc = "orders"
  /\ req[q].wanted = All /\ book # {}
  /\ req' = [req EXCEPT ![q].pc = "preparing", ![q].loaded = book]
  /\ \E orders \in SetToSeqs(book) :
       microtasks' = <<Resume(q)>> \o [i \in DOMAIN orders |-> Push(q, orders[i])]
  /\ UNCHANGED <<book, placed>>

(* forEach starts one callback per order; each stops at its await.  The    *)
(* function then returns, which queues its caller's continuation.          *)
CancelAll(q) ==
  /\ LoopIdle /\ req[q].pc = "orders"
  /\ req[q].wanted = All /\ book # {}
  /\ req' = [req EXCEPT ![q].pc = "preparing", ![q].loaded = book]
  /\ \E orders \in SetToSeqs(book) :
       microtasks' = [i \in DOMAIN orders |-> Push(q, orders[i])] \o <<Resume(q)>>
  /\ UNCHANGED <<book, placed>>

-----------------------------------------------------------------------------
(* Microtasks run one at a time, first in first out.                       *)
Task == Head(microtasks)

(* Mutant: a copy of the array was returned, as everywhere else.           *)
PushCancellation_OldArray ==
  /\ microtasks # <<>> /\ Task.task = "push"
  /\ microtasks' = Tail(microtasks)
  /\ UNCHANGED <<book, placed, req>>

(* The callback of forEach pushes onto the array already returned.         *)
PushCancellation ==
  /\ microtasks # <<>> /\ Task.task = "push"
  /\ req' = [req EXCEPT ![Task.of].instructions = Append(@, Task.order)]
  /\ microtasks' = Tail(microtasks)
  /\ UNCHANGED <<book, placed>>

(* The one order asked for: the function returns only now.                 *)
ReturnFound ==
  /\ microtasks # <<>> /\ Task.task = "found"
  /\ req' = [req EXCEPT ![Task.of].instructions = <<Task.order>>]
  /\ microtasks' = Append(Tail(microtasks), Resume(Task.of))
  /\ UNCHANGED <<book, placed>>

(* SerumOrderService.cancel goes on: splitInstructionsAndSigners maps the  *)
(* array, as it is now, to bricks, and awaits the Builder.                 *)
SplitBegins ==
  /\ microtasks # <<>> /\ Task.task = "resume"
  /\ req' = [req EXCEPT ![Task.of].bricks = req[Task.of].instructions,
                        ![Task.of].pc = "sizing"]
  /\ microtasks' = Tail(microtasks)
  /\ UNCHANGED <<book, placed>>

Answered(q, txs) ==
  req' = [req EXCEPT ![q].txs = txs,
                     ![q].pc = IF txs = <<>> THEN "done" ELSE "submitting"]

(* The Builder has sized the transactions; the answer is sent.             *)
SplitEnds(q) ==
  /\ LoopIdle /\ req[q].pc = "sizing"
  /\ Answered(q, Chunks(req[q].bricks, Cap))
  /\ UNCHANGED <<book, placed, microtasks>>

-----------------------------------------------------------------------------
(* The chain: a transaction cancels all its orders or none.                *)
Tx(q) == req[q].txs[req[q].next]
Executable(q) == ToSet(Tx(q)) \subseteq book /\ IsInjective(Tx(q))

Submit(q) ==
  /\ req[q].pc = "submitting"
  /\ book' = IF Executable(q) THEN book \ ToSet(Tx(q)) ELSE book
  /\ req' = [req EXCEPT ![q].next = @ + 1,
                        ![q].aborted = IF Executable(q) THEN @ ELSE @ \cup {req[q].next},
                        ![q].pc = IF req[q].next = Len(req[q].txs) THEN "done" ELSE @]
  /\ UNCHANGED <<placed, microtasks>>

(* Orders come and go without the server.                                  *)
Place(o) ==
  /\ o \in Orders \ placed
  /\ book' = book \cup {o} /\ placed' = placed \cup {o}
  /\ UNCHANGED <<microtasks, req>>

Fill(o) ==
  /\ o \in book
  /\ book' = book \ {o}
  /\ UNCHANGED <<placed, microtasks, req>>

-----------------------------------------------------------------------------
Microtask == PushCancellation \/ ReturnFound \/ SplitBegins

Reply(q) ==
  \/ MarketLoaded(q) \/ Rejected(q) \/ OrdersNotLoaded(q) \/ NothingToCancel(q)
  \/ CancelOne(q) \/ CancelAll(q) \/ SplitEnds(q)

Next ==
  \/ Microtask
  \/ \E q \in Requests : Begin(q) \/ Reply(q) \/ Submit(q)
  \/ \E o \in Orders : Place(o) \/ Fill(o)

Spec == Init /\ [][Next]_vars

(* The event loop runs its microtasks to the end, then serves the replies  *)
(* in the order they arrived: a reply that finds the loop idle again and   *)
(* again is served in the end (strong fairness).  The RPC node answers, or *)
(* the connection fails.                                                   *)
Fairness == WF_vars(Microtask) /\ \A q \in Requests : SF_vars(Reply(q))

FairSpec == Spec /\ Fairness

-----------------------------------------------------------------------------
(* Although nobody awaits the callbacks, the answer to "cancel all" holds  *)
(* every order the book had when it was read, each exactly once; the       *)
(* answer to one order id holds that order alone.  This is what the        *)
(* un-awaited forEach of serum.client.ts:132 puts at risk.                 *)
AnswerIsComplete ==
  \A q \in Requests : req[q].pc \in {"submitting", "done"} =>
    LET all == FlattenSeq(req[q].txs) IN
    IsInjective(all) /\ ToSet(all) = req[q].loaded

(* When a request is over, an order it was to cancel is still on the book  *)
(* only if its transaction aborted because another order in the same       *)
(* transaction had left the book first: one filled order never costs more  *)
(* than the transaction it is in.                                          *)
LeftoversAreExplained ==
  \A q \in Requests : req[q].pc = "done" =>
    \A o \in req[q].loaded \cap book :
      \E t \in req[q].aborted :
        o \in ToSet(req[q].txs[t]) /\ ~(ToSet(req[q].txs[t]) \subseteq book)

(* A request never cancels an order it was not asked to, nor one that was  *)
(* placed after it read the book: proved, and not checked by a run.        *)
CancelsOnlyAsked ==
  [][\A q \in Requests : req'[q].next # req[q].next =>
        \A o \in book \ book' :
          o \in req[q].loaded /\ req[q].wanted \in {o, All}]_vars

(* Every cancel request is answered, also when the order id does not exist *)
(* or the orders cannot be loaded (serum.test.ts:34-35).                   *)
CancelAnswered ==
  \A q \in Requests :
    req[q].pc = "market" ~> req[q].pc \in {"submitting", "done", "error500"}
=============================================================================
