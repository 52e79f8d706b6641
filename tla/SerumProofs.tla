---------------------------- MODULE SerumProofs -----------------------------
(***************************************************************************)
(* Serum for any number of orders, accounts and requests.  Cancelling, for *)
(* any size of a transaction: the callbacks that nobody awaits complete    *)
(* the answer all the same, and what an answer leaves on the book.  Then   *)
(* open-orders accounts when orders are placed for the first time, and     *)
(* what becomes of a new market's two transactions: the modules            *)
(* SerumTrading and SerumMarket, as MCSerum instantiates them.             *)
(***************************************************************************)
EXTENDS MCSerum, InstructionListsProofs, FiniteSetTheorems,
        WellFoundedInduction, TLAPS

-----------------------------------------------------------------------------
(* A list that holds every order of a set exactly once.                    *)
Lists(list, S) ==
  list \in Seq(Orders) /\ IsInjective(list) /\ ToSet(list) = S

LEMMA OrderingsList ==
  ASSUME NEW S \in SUBSET Orders, NEW list \in SetToSeqs(S)
  PROVE  Lists(list, S)
BY SerumCancelAssumption, FS_Subset, Listing DEF Lists

-----------------------------------------------------------------------------
(* The event loop: whoever is preparing its answer has the queue to        *)
(* itself, and what is queued is the rest of the list of the orders that   *)
(* were loaded, then the caller.                                           *)
RequestType == [pc : PCs, wanted : Ids, loaded : SUBSET Orders,
                instructions : Seq(Orders), bricks : Seq(Orders),
                txs : Seq(Seq(Orders)), next : Nat, aborted : SUBSET Nat]

Typed ==
  /\ book \subseteq placed /\ placed \subseteq Orders
  /\ microtasks \in Seq(Tasks)
  /\ req \in [Requests -> RequestType]

OnlyPreparing(Q) == \A q \in Requests : req[q].pc = "preparing" <=> q \in Q

Searching(q) ==
  \E o \in Orders :
    /\ microtasks = <<Found(q, o)>>
    /\ req[q].instructions = <<>> /\ req[q].loaded = {o}

(* The callbacks for all but the first n orders of a list, then the caller. *)
Rest(q, list, n, tasks) ==
  LET left == Len(list) - n IN
  /\ n \in Nat /\ left \in Nat /\ Len(tasks) = left + 1
  /\ \A i \in 1..left : tasks[i] = Push(q, list[n + i])
  /\ tasks[left + 1] = Resume(q)

Collecting(q, list) ==
  LET done == Len(req[q].instructions) IN
  /\ Lists(list, req[q].loaded)
  /\ \A i \in 1..done : req[q].instructions[i] = list[i]
  /\ Rest(q, list, done, microtasks)

Queue ==
  \/ microtasks = <<>> /\ OnlyPreparing({})
  \/ \E q \in Requests :
       OnlyPreparing({q}) /\ (Searching(q) \/ \E list : Collecting(q, list))

(* A request, with the orders that are on the book and those ever placed.  *)
Unsent(r) == r.txs = <<>> /\ r.next = 1 /\ r.aborted = {}

Stage(r) ==
  /\ r.pc \in {"idle", "market", "orders"} => r.loaded = {} /\ r.instructions = <<>>
  /\ r.pc \notin {"submitting", "done"} => Unsent(r)
  /\ r.pc \in {"sizing", "submitting", "done"} => Lists(r.bricks, r.loaded)
  /\ r.pc \in {"submitting", "done"} => r.txs = Chunks(r.bricks, Cap)
  /\ r.pc = "submitting" => r.next \in 1..Len(r.txs)
  /\ r.pc = "done" => r.next = Len(r.txs) + 1
  /\ \A o \in r.loaded : r.wanted \in {o, All}
  /\ r.aborted \subseteq 1..r.next - 1

(* Of the transactions sent, an aborted one misses an order, and the       *)
(* orders of the others are gone for good.                                 *)
Outcome(r, onBook, ever) ==
  /\ r.loaded \subseteq ever
  /\ \A t \in 1..r.next - 1 :
       IF t \in r.aborted THEN ~(ToSet(r.txs[t]) \subseteq onBook)
                         ELSE ToSet(r.txs[t]) \cap onBook = {}

CancelInv ==
  /\ Typed
  /\ Queue
  /\ \A q \in Requests : Stage(req[q]) /\ Outcome(req[q], book, placed)
-----------------------------------------------------------------------------
(* Between macrotasks nobody is preparing an answer, and a queue that is   *)
(* not empty is that of one request.                                       *)
LEMMA LoopIdleMeansNobodyPrepares ==
  ASSUME Queue, LoopIdle
  PROVE  OnlyPreparing({})
<1>1. ASSUME NEW q \in Requests, Searching(q)
      PROVE  FALSE
  BY <1>1 DEF Searching, LoopIdle
<1>2. ASSUME NEW q \in Requests, NEW list, Collecting(q, list)
      PROVE  FALSE
  <2>1. Len(microtasks) # 0
    BY <1>2 DEF Collecting, Rest
  <2>2. QED
    BY <2>1 DEF LoopIdle
<1>3. QED
  BY <1>1, <1>2 DEF Queue

(* What a step of one request has to show, the book staying as it is.      *)
LEMMA OneRequest ==
  ASSUME CancelInv, NEW q \in Requests, NEW r \in RequestType,
         Stage(r), Outcome(r, book, placed),
         req' = [req EXCEPT ![q] = r], UNCHANGED <<book, placed>>,
         (microtasks \in Seq(Tasks))', Queue'
  PROVE  CancelInv'
<1>1. req \in [Requests -> RequestType]
  BY DEF CancelInv, Typed
<1>2. \A p \in Requests : req'[p] = IF p = q THEN r ELSE req[p]
  BY <1>1
<1>3. Typed'
  BY <1>1 DEF CancelInv, Typed
<1>4. ASSUME NEW p \in Requests
      PROVE  Stage(req'[p]) /\ Outcome(req'[p], book', placed')
  <2>1. Stage(req[p]) /\ Outcome(req[p], book, placed)
    BY DEF CancelInv
  <2>2. CASE p = q
    BY <1>2, <2>2
  <2>3. CASE p # q
    BY <1>2, <2>1, <2>3
  <2>4. QED
    BY <2>2, <2>3
<1>5. QED
  BY <1>3, <1>4 DEF CancelInv

(* The same between macrotasks, when the request does not prepare.         *)
LEMMA OneReply ==
  ASSUME CancelInv, NEW q \in Requests, NEW r \in RequestType, r.pc # "preparing",
         Stage(r), Outcome(r, book, placed),
         LoopIdle, req' = [req EXCEPT ![q] = r], UNCHANGED <<book, placed, microtasks>>
  PROVE  CancelInv'
<1>1. req \in [Requests -> RequestType] /\ (microtasks \in Seq(Tasks))'
  BY DEF CancelInv, Typed
<1>2. OnlyPreparing({})
  BY LoopIdleMeansNobodyPrepares DEF CancelInv
<1>3. \A p \in Requests : req'[p] = IF p = q THEN r ELSE req[p]
  BY <1>1
<1>4. OnlyPreparing({})'
  BY <1>2, <1>3 DEF OnlyPreparing
<1>5. Queue'
  BY <1>4 DEF Queue, LoopIdle
<1>6. QED
  BY <1>1, <1>5, OneRequest

(* The orders on the book: none returns that has left it.                  *)
LEMMA BookMoves ==
  ASSUME NEW r, NEW onBook, NEW ever, NEW onBook2, NEW ever2,
         Stage(r), Outcome(r, onBook, ever),
         r \in RequestType, r.pc \in {"submitting", "done"} \/ r.next = 1,
         onBook2 \cap ever \subseteq onBook, ever \subseteq ever2
  PROVE  Outcome(r, onBook2, ever2)
<1>1. CASE r.next = 1
  BY <1>1 DEF Outcome
<1>2. CASE r.pc \in {"submitting", "done"}
  <2>1. r.txs = Chunks(r.bricks, Cap) /\ Lists(r.bricks, r.loaded)
    BY <1>2 DEF Stage
  <2>2. \A k \in DOMAIN r.txs : ToSet(r.txs[k]) \subseteq r.loaded
    BY <2>1, ChunksCover, SerumCancelAssumption DEF Lists
  <2>3. \A k \in 1..r.next - 1 : k \in DOMAIN r.txs
    <3>1. r.txs \in Seq(Seq(Orders)) /\ r.next \in Nat /\ r.next <= Len(r.txs) + 1
      BY <1>2 DEF Stage, RequestType
    <3> DEFINE S == Seq(Orders)
               n == Len(r.txs)
    <3>2. DOMAIN r.txs = 1..n /\ n \in Nat
      <4>1. r.txs \in Seq(S)
        BY <3>1
      <4> HIDE DEF S
      <4>2. QED
        BY <4>1
    <3> HIDE DEF n
    <3>3. r.next <= n + 1
      BY <3>1 DEF n
    <3>4. QED
      BY <3>1, <3>2, <3>3
  <2>4. r.loaded \subseteq ever
    BY DEF Outcome
  <2>5. QED
    BY <2>2, <2>3, <2>4 DEF Outcome
<1>3. QED
  BY <1>1, <1>2
-----------------------------------------------------------------------------
(* The actions.                                                            *)
LEMMA BeginKeeps ==
  ASSUME CancelInv, NEW q \in Requests, Begin(q)
  PROVE  CancelInv'
<1>1. PICK id \in Ids : req' = [req EXCEPT ![q] = [Idle(id) EXCEPT !.pc = "market"]]
  BY DEF Begin
<1> DEFINE i == Idle(id)
           r == [i EXCEPT !.pc = "market"]
<1>2. /\ i \in RequestType /\ i.loaded = {} /\ i.instructions = <<>>
      /\ i.txs = <<>> /\ i.next = 1 /\ i.aborted = {}
  BY DEF Idle, RequestType, PCs
<1> HIDE DEF i
<1>3. /\ r \in RequestType /\ r.pc = "market" /\ r.loaded = {} /\ r.instructions = <<>>
      /\ r.txs = <<>> /\ r.next = 1 /\ r.aborted = {}
  BY <1>2 DEF RequestType, PCs
<1> HIDE DEF r
<1>4. Stage(r) /\ Outcome(r, book, placed)
  BY <1>3 DEF Stage, Outcome, Unsent
<1>5. QED
  BY <1>1, <1>3, <1>4, OneReply DEF Begin, r, i

(* The handler goes on to wait for the market, the orders, or gives up.    *)
LEMMA GotoKeeps ==
  ASSUME CancelInv, NEW q \in Requests, NEW to, LoopIdle,
         <<req[q].pc, to>> \in {<<"market", "orders">>, <<"market", "error500">>,
                                <<"sizing", "error500">>},
         Goto(q, to), UNCHANGED <<book, placed, microtasks>>
  PROVE  CancelInv'
<1> DEFINE r == [req[q] EXCEPT !.pc = to]
<1>1. req[q] \in RequestType /\ Stage(req[q]) /\ Outcome(req[q], book, placed)
  BY DEF CancelInv, Typed
<1>2. /\ r \in RequestType /\ r.pc = to /\ r.loaded = req[q].loaded
      /\ r.instructions = req[q].instructions /\ r.txs = req[q].txs
      /\ r.next = req[q].next /\ r.aborted = req[q].aborted
      /\ r.bricks = req[q].bricks /\ r.wanted = req[q].wanted
  BY <1>1 DEF RequestType, PCs
<1>3. req' = [req EXCEPT ![q] = r]
  BY DEF Goto
<1> HIDE DEF r
<1>4. Stage(r) /\ Outcome(r, book, placed)
  <2>1. \/ req[q].pc = "market" /\ to \in {"orders", "error500"}
        \/ req[q].pc = "sizing" /\ to = "error500"
    OBVIOUS
  <2>2. QED
    BY <1>1, <1>2, <2>1 DEF Stage, Outcome, Unsent
<1>5. QED
  BY <1>2, <1>3, <1>4, OneReply

(* The orders have been read: the request alone prepares its answer.       *)
Prepares(q, read, tasks) ==
  \/ \E o \in Orders : tasks = <<Found(q, o)>> /\ read = {o}
  \/ \E list : Lists(list, read) /\ Rest(q, list, 0, tasks)

LEMMA PrepareKeeps ==
  ASSUME CancelInv, NEW q \in Requests, NEW read \in SUBSET book, LoopIdle,
         req[q].pc = "orders", \A o \in read : req[q].wanted \in {o, All},
         req' = [req EXCEPT ![q].pc = "preparing", ![q].loaded = read],
         UNCHANGED <<book, placed>>, (microtasks \in Seq(Tasks))',
         Prepares(q, read, microtasks')
  PROVE  CancelInv'
<1> DEFINE r == [req[q] EXCEPT !.pc = "preparing", !.loaded = read]
<1>1. /\ req \in [Requests -> RequestType] /\ req[q] \in RequestType
      /\ Stage(req[q]) /\ book \subseteq placed /\ placed \subseteq Orders
  BY DEF CancelInv, Typed
<1>2. /\ r \in RequestType /\ r.pc = "preparing" /\ r.loaded = read
      /\ r.instructions = req[q].instructions /\ r.txs = req[q].txs
      /\ r.next = req[q].next /\ r.aborted = req[q].aborted
      /\ r.wanted = req[q].wanted
  BY <1>1 DEF RequestType, PCs
<1>3. req' = [req EXCEPT ![q] = r]
  OBVIOUS
<1> HIDE DEF r
<1>4. Unsent(r) /\ r.instructions = <<>>
  BY <1>1, <1>2 DEF Stage, Unsent
<1>5. Stage(r) /\ Outcome(r, book, placed)
  BY <1>1, <1>2, <1>4 DEF Stage, Outcome, Unsent
<1>6. OnlyPreparing({})
  BY LoopIdleMeansNobodyPrepares DEF CancelInv
<1>7. req'[q] = r /\ \A p \in Requests : req'[p].pc = "preparing" <=> p = q
  BY <1>1, <1>2, <1>3, <1>6 DEF OnlyPreparing
<1>8. OnlyPreparing({q})'
  BY <1>7 DEF OnlyPreparing
<1>9. CASE \E o \in Orders : microtasks' = <<Found(q, o)>> /\ read = {o}
  <2>1. Searching(q)'
    BY <1>2, <1>4, <1>7, <1>9 DEF Searching
  <2>2. QED
    BY <1>2, <1>3, <1>5, <1>8, <2>1, OneRequest DEF Queue
<1>10. CASE \E list : Lists(list, read) /\ Rest(q, list, 0, microtasks')
  <2>1. PICK list : Lists(list, read) /\ Rest(q, list, 0, microtasks')
    BY <1>10
  <2> DEFINE u == req'
  <2>2. u[q] = r
    BY <1>7
  <2> HIDE DEF u
  <2>3. u[q].instructions = <<>> /\ u[q].loaded = read
    BY <1>2, <1>4, <2>2
  <2>4. Len(u[q].instructions) = 0
    BY <2>3
  <2>5. Collecting(q, list)'
    <3>1. \A i \in 1..Len(u[q].instructions) : u[q].instructions[i] = list[i]
      BY <2>4
    <3>2. Lists(list, u[q].loaded) /\ Rest(q, list, Len(u[q].instructions), microtasks')
      BY <2>1, <2>3, <2>4
    <3>3. QED
      BY ONLY <3>1, <3>2 DEF Collecting, u
  <2>6. Queue'
    BY <1>8, <2>5 DEF Queue
  <2>7. QED
    BY <1>2, <1>3, <1>5, <2>6, OneRequest
<1>11. QED
  BY <1>9, <1>10 DEF Prepares

LEMMA ReturnEmptyKeeps ==
  ASSUME CancelInv, NEW q \in Requests, OrdersNotLoaded(q) \/ NothingToCancel(q)
  PROVE  CancelInv'
<1>1. /\ LoopIdle /\ req[q].pc = "orders" /\ UNCHANGED <<book, placed>>
      /\ microtasks' = <<Resume(q)>> /\ req' = [req EXCEPT ![q].pc = "preparing"]
  BY DEF OrdersNotLoaded, NothingToCancel, ReturnEmpty, Goto
<1>2. req[q].loaded = {} /\ req[q] \in RequestType
  BY <1>1 DEF CancelInv, Stage, Typed
<1>3. req' = [req EXCEPT ![q].pc = "preparing", ![q].loaded = {}]
  <2>1. [req[q] EXCEPT !.pc = "preparing"] = [req[q] EXCEPT !.pc = "preparing", !.loaded = {}]
    BY <1>2 DEF RequestType
  <2>2. QED
    BY <1>1, <2>1
<1>4. Resume(q) \in Tasks /\ (microtasks \in Seq(Tasks))'
  BY <1>1 DEF Tasks
<1>5. Lists(<<>>, {})
  BY DEF Lists, IsInjective, ToSet
<1>6. Rest(q, <<>>, 0, microtasks')
  BY <1>1 DEF Rest
<1>7. Prepares(q, {}, microtasks')
  BY <1>5, <1>6 DEF Prepares
<1> DEFINE none == {}
<1>8. none \in SUBSET book /\ \A o \in none : req[q].wanted \in {o, All}
  OBVIOUS
<1>9. Prepares(q, none, microtasks')
  BY <1>7
<1>10. req' = [req EXCEPT ![q].pc = "preparing", ![q].loaded = none]
  BY <1>3
<1> HIDE DEF none
<1>11. QED
  BY <1>1, <1>4, <1>8, <1>9, <1>10, PrepareKeeps

LEMMA CancelOneKeeps ==
  ASSUME CancelInv, NEW q \in Requests, CancelOne(q)
  PROVE  CancelInv'
<1> DEFINE o == req[q].wanted
<1>1. o \in book /\ o \in Orders /\ {o} \in SUBSET book
  BY DEF CancelOne, CancelInv, Typed
<1>2. Found(q, o) \in Tasks /\ microtasks' = <<Found(q, o)>>
  BY <1>1 DEF CancelOne, Tasks
<1>3. (microtasks \in Seq(Tasks))'
  BY <1>2
<1>4. \A x \in {o} : req[q].wanted \in {x, All}
  OBVIOUS
<1>5. QED
  BY <1>1, <1>2, <1>3, <1>4, PrepareKeeps DEF CancelOne, Prepares

LEMMA CancelAllKeeps ==
  ASSUME CancelInv, NEW q \in Requests, CancelAll(q)
  PROVE  CancelInv'
<1>1. PICK list \in SetToSeqs(book) :
        microtasks' = [i \in DOMAIN list |-> Push(q, list[i])] \o <<Resume(q)>>
  BY DEF CancelAll
<1>2. Lists(list, book)
  BY <1>1, OrderingsList DEF CancelInv, Typed
<1> DEFINE pushes == [i \in DOMAIN list |-> Push(q, list[i])]
           n == Len(list)
<1>3. DOMAIN list = 1..n /\ n \in Nat /\ \A i \in 1..n : list[i] \in Orders
  BY <1>2 DEF Lists
<1> HIDE DEF n
<1>4. Resume(q) \in Tasks /\ \A i \in 1..n : Push(q, list[i]) \in Tasks
  BY <1>3 DEF Tasks
<1>5. pushes \in Seq(Tasks) /\ Len(pushes) = n /\ \A i \in 1..n : pushes[i] = Push(q, list[i])
  BY <1>3, <1>4
<1> HIDE DEF pushes
<1>6. microtasks' = pushes \o <<Resume(q)>>
  BY <1>1 DEF pushes
<1>7. /\ microtasks' \in Seq(Tasks) /\ Len(microtasks') = n + 1
      /\ \A i \in 1..n : microtasks'[i] = Push(q, list[i])
      /\ microtasks'[n + 1] = Resume(q)
  BY <1>3, <1>4, <1>5, <1>6
<1>8. Rest(q, list, 0, microtasks')
  BY <1>3, <1>7 DEF Rest, n
<1>9. QED
  BY <1>2, <1>7, <1>8, PrepareKeeps DEF CancelAll, Prepares
(* The continuation that runs next, and the request it belongs to.         *)
LEMMA RestShifts ==
  ASSUME NEW q, NEW list, NEW n, NEW tasks \in Seq(Tasks), Rest(q, list, n, tasks),
         Len(list) \in Nat, n < Len(list)
  PROVE  Rest(q, list, n + 1, Tail(tasks)) /\ Head(tasks) = Push(q, list[n + 1])
<1> DEFINE left == Len(list) - n
           tail == Tail(tasks)
<1>1. /\ n \in Nat /\ left \in Nat /\ left >= 1 /\ Len(tasks) = left + 1
      /\ \A i \in 1..left : tasks[i] = Push(q, list[n + i])
      /\ tasks[left + 1] = Resume(q)
  BY DEF Rest
<1>2. left - 1 = Len(list) - (n + 1)
  BY <1>1
<1> HIDE DEF left
<1>3. Len(tail) = left /\ \A i \in 1..left : tail[i] = tasks[i + 1]
  BY <1>1
<1> HIDE DEF tail
<1>4. ASSUME NEW i \in 1..left - 1
      PROVE  tail[i] = Push(q, list[(n + 1) + i])
  <2>1. i \in 1..left /\ i + 1 \in 1..left /\ n + (i + 1) = (n + 1) + i
    BY <1>1
  <2>2. QED
    BY <1>1, <1>3, <2>1
<1>5. tail[left - 1 + 1] = Resume(q)
  <2>1. left \in 1..left /\ left - 1 + 1 = left
    BY <1>1
  <2>2. QED
    BY <1>1, <1>3, <2>1
<1>6. Rest(q, list, n + 1, tail)
  BY <1>1, <1>2, <1>3, <1>4, <1>5 DEF Rest
<1>7. Head(tasks) = tasks[1] /\ 1 \in 1..left
  BY <1>1
<1>8. QED
  BY <1>1, <1>6, <1>7 DEF tail

LEMMA TheTask ==
  ASSUME CancelInv, microtasks # <<>>
  PROVE  \E q \in Requests :
           /\ OnlyPreparing({q}) /\ Task.of = q
           /\ \/ Task.task = "found" /\ Searching(q)
              \/ /\ Task.task = "push"
                 /\ \E list : /\ Collecting(q, list)
                              /\ Len(req[q].instructions) < Len(list)
                              /\ Task.order = list[Len(req[q].instructions) + 1]
              \/ /\ Task.task = "resume"
                 /\ \E list : Collecting(q, list) /\ Len(req[q].instructions) = Len(list)
<1>1. PICK q \in Requests :
        OnlyPreparing({q}) /\ (Searching(q) \/ \E list : Collecting(q, list))
  BY DEF CancelInv, Queue
<1>2. CASE Searching(q)
  <2>1. PICK o \in Orders : microtasks = <<Found(q, o)>>
    BY <1>2 DEF Searching
  <2>2. Task = Found(q, o)
    BY <2>1 DEF Task
  <2>3. Task.task = "found" /\ Task.of = q
    BY <2>2 DEF Found
  <2>4. QED
    BY <1>1, <1>2, <2>3
<1>3. ASSUME NEW list, Collecting(q, list)
      PROVE  /\ Task.of = q
             /\ \/ /\ Task.task = "push"
                   /\ Len(req[q].instructions) < Len(list)
                   /\ Task.order = list[Len(req[q].instructions) + 1]
                \/ Task.task = "resume" /\ Len(req[q].instructions) = Len(list)
  <2> DEFINE n == Len(req[q].instructions)
             m == Len(list)
  <2>1. /\ Rest(q, list, n, microtasks) /\ microtasks \in Seq(Tasks)
        /\ m \in Nat /\ n \in Nat /\ m - n \in Nat
    BY <1>3 DEF Collecting, Rest, Lists, CancelInv, Typed
  <2> HIDE DEF n
  <2>2. CASE n < m
    <3>1. /\ Rest(q, list, n, microtasks) /\ microtasks \in Seq(Tasks)
          /\ Len(list) \in Nat /\ n < Len(list)
      BY <2>1, <2>2
    <3>2. Rest(q, list, n + 1, Tail(microtasks)) /\ Head(microtasks) = Push(q, list[n + 1])
      BY <3>1, RestShifts
    <3>3. QED
      BY <2>2, <3>2 DEF Push, n, Task
  <2>3. CASE n = m
    <3>1. Task = Resume(q)
      BY <2>1, <2>3 DEF Rest, Task
    <3>2. QED
      BY <2>3, <3>1 DEF Resume, n
  <2> HIDE DEF m
  <2>4. n < m \/ n = m
    BY <2>1
  <2>5. QED
    BY <2>2, <2>3, <2>4
<1>4. QED
  BY <1>1, <1>2, <1>3

LEMMA PushCancellationKeeps ==
  ASSUME CancelInv, PushCancellation
  PROVE  CancelInv'
<1>1. PICK q \in Requests :
        /\ OnlyPreparing({q}) /\ Task.of = q
        /\ \E list : /\ Collecting(q, list)
                     /\ Len(req[q].instructions) < Len(list)
                     /\ Task.order = list[Len(req[q].instructions) + 1]
  BY TheTask DEF PushCancellation
<1>2. PICK list : /\ Collecting(q, list)
                  /\ Len(req[q].instructions) < Len(list)
                  /\ Task.order = list[Len(req[q].instructions) + 1]
  BY <1>1
<1> DEFINE n == Len(req[q].instructions)
           o == list[n + 1]
           r == [req[q] EXCEPT !.instructions = Append(@, o)]
<1>3. /\ req \in [Requests -> RequestType] /\ req[q] \in RequestType
      /\ Stage(req[q]) /\ Outcome(req[q], book, placed) /\ req[q].pc = "preparing"
      /\ microtasks \in Seq(Tasks)
  BY <1>1 DEF CancelInv, Typed, OnlyPreparing
<1>4. req' = [req EXCEPT ![q] = r]
  BY <1>1, <1>2 DEF PushCancellation
<1>5. /\ Lists(list, req[q].loaded) /\ list \in Seq(Orders) /\ n \in Nat
      /\ Rest(q, list, n, microtasks)
      /\ \A i \in 1..n : req[q].instructions[i] = list[i]
  BY <1>2, <1>3 DEF Collecting, Lists, RequestType
<1>6. o \in Orders /\ Len(list) \in Nat /\ n < Len(list)
  <2>1. Len(list) \in Nat /\ n < Len(list)
    BY <1>2, <1>5
  <2> HIDE DEF n
  <2>2. n + 1 \in 1..Len(list)
    BY <1>5, <2>1
  <2>3. QED
    BY <1>5, <2>1, <2>2
<1> HIDE DEF o
<1>7. /\ r \in RequestType /\ r.pc = "preparing" /\ r.loaded = req[q].loaded
      /\ r.instructions = Append(req[q].instructions, o) /\ r.txs = req[q].txs
      /\ r.next = req[q].next /\ r.aborted = req[q].aborted
      /\ r.wanted = req[q].wanted
  <2> DEFINE s == Append(req[q].instructions, o)
  <2>1. s \in Seq(Orders) /\ r = [req[q] EXCEPT !.instructions = s]
    <3>1. req[q].instructions \in Seq(Orders)
      BY <1>3 DEF RequestType
    <3>2. QED
      BY <1>6, <3>1
  <2> HIDE DEF s, r
  <2>2. /\ r \in RequestType /\ r.pc = "preparing" /\ r.loaded = req[q].loaded
        /\ r.instructions = s /\ r.txs = req[q].txs
        /\ r.next = req[q].next /\ r.aborted = req[q].aborted
        /\ r.wanted = req[q].wanted
    BY <1>3, <2>1 DEF RequestType
  <2>3. QED
    BY <2>2 DEF s
<1> HIDE DEF r
<1>8. Stage(r) /\ Outcome(r, book, placed)
  BY <1>3, <1>7 DEF Stage, Outcome, Unsent
<1>9. microtasks' = Tail(microtasks) /\ (microtasks \in Seq(Tasks))'
  BY <1>3 DEF PushCancellation
<1>10. Rest(q, list, n + 1, microtasks')
  BY <1>3, <1>5, <1>6, <1>9, RestShifts
<1>11. Len(r.instructions) = n + 1 /\ \A i \in 1..n + 1 : r.instructions[i] = list[i]
  <2>1. req[q].instructions \in Seq(Orders)
    BY <1>3 DEF RequestType
  <2> DEFINE s == req[q].instructions
  <2>2. s \in Seq(Orders) /\ n = Len(s) /\ r.instructions = Append(s, o)
    BY <1>7, <2>1
  <2> HIDE DEF s, n
  <2>3. Len(Append(s, o)) = n + 1 /\ Append(s, o)[n + 1] = o
        /\ \A i \in 1..n : Append(s, o)[i] = s[i]
    BY <2>2
  <2>4. \A i \in 1..n : s[i] = list[i]
    BY <1>5 DEF s
  <2>5. \A i \in 1..n + 1 : i \in 1..n \/ i = n + 1
    BY <1>5
  <2>6. QED
    BY <2>2, <2>3, <2>4, <2>5 DEF o
<1>12. req'[q] = r /\ \A p \in Requests : req'[p].pc = req[p].pc
  BY <1>3, <1>4, <1>7
<1>13. OnlyPreparing({q})'
  BY <1>1, <1>12 DEF OnlyPreparing
<1>14. Collecting(q, list)'
  <2> HIDE DEF n
  <2>1. Len(req'[q].instructions) = n + 1
    BY <1>11, <1>12
  <2>2. QED
    BY <1>5, <1>7, <1>10, <1>11, <1>12, <2>1 DEF Collecting
<1>15. Queue'
  BY <1>13, <1>14 DEF Queue
<1>16. QED
  BY <1>4, <1>7, <1>8, <1>9, <1>15, OneRequest DEF PushCancellation

LEMMA ReturnFoundKeeps ==
  ASSUME CancelInv, ReturnFound
  PROVE  CancelInv'
<1>1. PICK q \in Requests : OnlyPreparing({q}) /\ Searching(q) /\ Task.of = q
  BY TheTask DEF ReturnFound
<1>2. PICK o \in Orders : /\ microtasks = <<Found(q, o)>>
                          /\ req[q].instructions = <<>> /\ req[q].loaded = {o}
  BY <1>1 DEF Searching
<1>3. Task = Found(q, o) /\ Task.order = o
  BY <1>2 DEF Task, Found
<1> DEFINE r == [req[q] EXCEPT !.instructions = <<o>>]
<1>4. /\ req \in [Requests -> RequestType] /\ req[q] \in RequestType
      /\ Stage(req[q]) /\ Outcome(req[q], book, placed) /\ req[q].pc = "preparing"
  BY <1>1 DEF CancelInv, Typed, OnlyPreparing
<1>5. req' = [req EXCEPT ![q] = r]
  BY <1>1, <1>3 DEF ReturnFound
<1> DEFINE found == <<o>>
<1>6. found \in Seq(Orders) /\ r = [req[q] EXCEPT !.instructions = found]
  OBVIOUS
<1>7. /\ r \in RequestType /\ r.pc = "preparing" /\ r.loaded = {o}
      /\ r.instructions = <<o>> /\ r.txs = req[q].txs
      /\ r.next = req[q].next /\ r.aborted = req[q].aborted
      /\ r.wanted = req[q].wanted
  <2> HIDE DEF found, r
  <2>1. /\ r \in RequestType /\ r.pc = "preparing" /\ r.loaded = {o}
        /\ r.instructions = found /\ r.txs = req[q].txs
        /\ r.next = req[q].next /\ r.aborted = req[q].aborted
        /\ r.wanted = req[q].wanted
    BY <1>2, <1>4, <1>6 DEF RequestType
  <2>2. QED
    BY <2>1 DEF found
<1> HIDE DEF r
<1>8. Stage(r) /\ Outcome(r, book, placed)
  BY <1>2, <1>4, <1>7 DEF Stage, Outcome, Unsent
<1>9. Resume(q) \in Tasks /\ microtasks' = <<Resume(q)>>
  BY <1>1, <1>2 DEF ReturnFound, Tasks
<1>10. (microtasks \in Seq(Tasks))'
  BY <1>9
<1>11. req'[q] = r /\ \A p \in Requests : req'[p].pc = req[p].pc
  BY <1>4, <1>5, <1>7
<1>12. OnlyPreparing({q})'
  BY <1>1, <1>11 DEF OnlyPreparing
<1>13. Lists(<<o>>, {o}) /\ Rest(q, <<o>>, 1, microtasks')
  BY <1>9 DEF Lists, IsInjective, ToSet, Rest
<1>14. Collecting(q, <<o>>)'
  BY <1>7, <1>11, <1>13 DEF Collecting
<1>15. Queue'
  BY <1>12, <1>14 DEF Queue
<1>16. QED
  BY <1>5, <1>7, <1>8, <1>10, <1>15, OneRequest DEF ReturnFound

LEMMA SplitBeginsKeeps ==
  ASSUME CancelInv, SplitBegins
  PROVE  CancelInv'
<1>1. PICK q \in Requests :
        /\ OnlyPreparing({q}) /\ Task.of = q
        /\ \E list : Collecting(q, list) /\ Len(req[q].instructions) = Len(list)
  BY TheTask DEF SplitBegins
<1>2. PICK list : Collecting(q, list) /\ Len(req[q].instructions) = Len(list)
  BY <1>1
<1> DEFINE s == req[q].instructions
           r == [req[q] EXCEPT !.bricks = s, !.pc = "sizing"]
<1>3. /\ req \in [Requests -> RequestType] /\ req[q] \in RequestType
      /\ Stage(req[q]) /\ Outcome(req[q], book, placed) /\ req[q].pc = "preparing"
      /\ microtasks \in Seq(Tasks) /\ s \in Seq(Orders)
  BY <1>1 DEF CancelInv, Typed, OnlyPreparing, RequestType
<1>4. req' = [req EXCEPT ![q] = r]
  BY <1>1 DEF SplitBegins
<1>5. s = list
  <2>1. /\ s \in Seq(Orders) /\ list \in Seq(Orders) /\ Len(s) = Len(list)
        /\ \A i \in 1..Len(s) : s[i] = list[i]
    BY <1>2, <1>3 DEF Collecting, Lists
  <2> HIDE DEF s
  <2>2. QED
    BY <2>1
<1>6. Lists(s, req[q].loaded) /\ Rest(q, list, Len(list), microtasks)
  BY <1>2, <1>5 DEF Collecting
<1>7. /\ r \in RequestType /\ r.pc = "sizing" /\ r.loaded = req[q].loaded
      /\ r.bricks = s /\ r.txs = req[q].txs
      /\ r.next = req[q].next /\ r.aborted = req[q].aborted
      /\ r.wanted = req[q].wanted
  BY <1>3 DEF RequestType, PCs
<1> HIDE DEF r
<1>8. Stage(r) /\ Outcome(r, book, placed)
  BY <1>3, <1>6, <1>7 DEF Stage, Outcome, Unsent
<1>9. microtasks' = <<>>
  <2>1. Len(microtasks) = 1
    BY <1>6 DEF Rest
  <2>2. QED
    BY <1>3, <2>1 DEF SplitBegins
<1>10. (microtasks \in Seq(Tasks))'
  BY <1>9
<1>11. req'[q] = r /\ \A p \in Requests : p # q => req'[p] = req[p]
  BY <1>3, <1>4
<1>12. OnlyPreparing({})'
  BY <1>1, <1>7, <1>11 DEF OnlyPreparing
<1>13. Queue'
  BY <1>9, <1>12 DEF Queue
<1>14. QED
  BY <1>4, <1>7, <1>8, <1>10, <1>13, OneRequest DEF SplitBegins

LEMMA SplitEndsKeeps ==
  ASSUME CancelInv, NEW q \in Requests, SplitEnds(q)
  PROVE  CancelInv'
<1> DEFINE t == Chunks(req[q].bricks, Cap)
           to == IF t = <<>> THEN "done" ELSE "submitting"
           r == [req[q] EXCEPT !.txs = t, !.pc = to]
<1>1. /\ req \in [Requests -> RequestType] /\ req[q] \in RequestType
      /\ Stage(req[q]) /\ Outcome(req[q], book, placed) /\ req[q].pc = "sizing"
  BY DEF CancelInv, Typed, SplitEnds
<1>2. req' = [req EXCEPT ![q] = r]
  BY DEF SplitEnds, Answered
<1>3. req[q].bricks \in Seq(Orders) /\ Cap \in Nat \ {0}
  BY <1>1, SerumCancelAssumption DEF RequestType
<1>4. t \in Seq(Seq(Orders)) /\ Len(t) \in Nat
  BY <1>3, Chunking, Bounds
<1>5. t = <<>> => Len(t) = 0
  OBVIOUS
<1>6. t # <<>> => Len(t) >= 1
  <2> HIDE DEF t
  <2> DEFINE S == Seq(Orders)
  <2>1. t \in Seq(S)
    BY <1>4
  <2> HIDE DEF S
  <2>2. QED
    BY <2>1
<1>7. t = Chunks(req[q].bricks, Cap)
  OBVIOUS
<1> HIDE DEF t
<1>8. /\ r \in RequestType /\ r.pc = to /\ r.loaded = req[q].loaded
      /\ r.bricks = req[q].bricks /\ r.txs = t
      /\ r.next = req[q].next /\ r.aborted = req[q].aborted
      /\ r.wanted = req[q].wanted
  BY <1>1, <1>4 DEF RequestType, PCs
<1>9. r.pc # "preparing"
  BY <1>8
<1> HIDE DEF r
<1>10. r.next = 1 /\ r.aborted = {}
  BY <1>1, <1>8 DEF Stage, Unsent
<1>11. Stage(r) /\ Outcome(r, book, placed)
  BY <1>1, <1>4, <1>5, <1>6, <1>7, <1>8, <1>10 DEF Stage, Outcome
<1>12. QED
  BY <1>2, <1>8, <1>9, <1>11, OneReply DEF SplitEnds
-----------------------------------------------------------------------------
(* The chain.  It moves the book and leaves the event loop alone.          *)
LEMMA QueueStays ==
  ASSUME Queue, microtasks' = microtasks,
         \A p \in Requests : /\ req'[p].pc = "preparing" <=> req[p].pc = "preparing"
                             /\ req'[p].instructions = req[p].instructions
                             /\ req'[p].loaded = req[p].loaded
  PROVE  Queue'
<1>1. ASSUME NEW Q, OnlyPreparing(Q)
      PROVE  OnlyPreparing(Q)'
  BY <1>1 DEF OnlyPreparing
<1>2. ASSUME NEW q \in Requests, Searching(q)
      PROVE  Searching(q)'
  BY <1>2 DEF Searching
<1>3. ASSUME NEW q \in Requests, NEW list, Collecting(q, list)
      PROVE  Collecting(q, list)'
  BY <1>3 DEF Collecting
<1>4. QED
  BY <1>1, <1>2, <1>3 DEF Queue

LEMMA OthersKeep ==
  ASSUME CancelInv, NEW p \in Requests,
         book' \cap placed \subseteq book, placed \subseteq placed'
  PROVE  Outcome(req[p], book', placed')
<1>1. req[p] \in RequestType /\ Stage(req[p]) /\ Outcome(req[p], book, placed)
  BY DEF CancelInv, Typed
<1>2. req[p].pc \in {"submitting", "done"} \/ req[p].next = 1
  BY <1>1 DEF Stage, Unsent
<1> DEFINE r == req[p]
           onBook == book'
           ever == placed'
<1> HIDE DEF r, onBook, ever
<1>3. Outcome(r, onBook, ever)
  BY <1>1, <1>2, BookMoves DEF r, onBook, ever
<1>4. QED
  BY <1>3 DEF r, onBook, ever

(* What a transaction that is submitted holds.                             *)
LEMMA SubmittedTx ==
  ASSUME CancelInv, NEW q \in Requests, req[q].pc = "submitting"
  PROVE  /\ req[q].next \in DOMAIN req[q].txs
         /\ DOMAIN req[q].txs = 1..Len(req[q].txs) /\ Len(req[q].txs) \in Nat
         /\ ToSet(Tx(q)) \subseteq req[q].loaded
         /\ IsInjective(Tx(q))
<1>1. req[q] \in RequestType /\ Stage(req[q])
  BY DEF CancelInv, Typed
<1> DEFINE s == req[q].bricks
           t == req[q].txs
           n == req[q].next
<1>2. /\ Lists(s, req[q].loaded) /\ t = Chunks(s, Cap) /\ n \in 1..Len(t)
      /\ s \in Seq(Orders) /\ IsInjective(s) /\ ToSet(s) = req[q].loaded
  BY <1>1 DEF Stage, Lists
<1>3. /\ \A k \in DOMAIN t : ToSet(t[k]) \subseteq ToSet(s)
      /\ \A k \in DOMAIN t : IsInjective(t[k])
  <2> HIDE DEF s, t, n
  <2>1. QED
    BY <1>2, ChunksCover, SerumCancelAssumption
<1>4. DOMAIN t = 1..Len(t) /\ Len(t) \in Nat
  <2> DEFINE S == Seq(Orders)
  <2>1. t \in Seq(S)
    BY <1>1 DEF RequestType
  <2> HIDE DEF S, t
  <2>2. QED
    BY <2>1
<1>5. Tx(q) = t[n]
  BY DEF Tx
<1> HIDE DEF t, n
<1>6. n \in DOMAIN t /\ ToSet(t[n]) \subseteq req[q].loaded /\ IsInjective(t[n])
  BY <1>2, <1>3, <1>4
<1>7. QED
  BY <1>4, <1>5, <1>6 DEF t, n

LEMMA SubmitKeeps ==
  ASSUME CancelInv, NEW q \in Requests, Submit(q)
  PROVE  CancelInv'
<1> DEFINE old == req[q]
           n == old.next
           left == IF Executable(q) THEN old.aborted ELSE old.aborted \cup {n}
           to == IF n = Len(old.txs) THEN "done" ELSE old.pc
           r == [old EXCEPT !.next = n + 1, !.aborted = left, !.pc = to]
<1>1. /\ req \in [Requests -> RequestType] /\ old \in RequestType /\ Stage(old)
      /\ Outcome(old, book, placed) /\ old.pc = "submitting"
      /\ book \subseteq placed /\ placed \subseteq Orders
  BY DEF CancelInv, Typed, Submit
<1>2. req' = [req EXCEPT ![q] = r]
  BY DEF Submit
<1>3. book' \subseteq book /\ placed' = placed /\ microtasks' = microtasks
  BY DEF Submit
<1>4. /\ n \in 1..Len(old.txs) /\ Len(old.txs) \in Nat
      /\ ToSet(Tx(q)) \subseteq old.loaded /\ IsInjective(Tx(q)) /\ Tx(q) = old.txs[n]
  BY <1>1, SubmittedTx DEF Tx
<1>5. old.aborted \subseteq 1..n - 1 /\ n \in Nat
  BY <1>1 DEF Stage, RequestType
<1> HIDE DEF n, old
<1>6. left \subseteq 1..n /\ left \in SUBSET Nat
  BY <1>4, <1>5
<1>7. /\ n = Len(old.txs) => to = "done"
      /\ n # Len(old.txs) => to = "submitting"
  BY <1>1
<1> HIDE DEF left, to
<1>8. /\ r \in RequestType /\ r.pc = to /\ r.loaded = old.loaded
      /\ r.instructions = old.instructions
      /\ r.bricks = old.bricks /\ r.txs = old.txs
      /\ r.next = n + 1 /\ r.aborted = left /\ r.wanted = old.wanted
  <2>1. to \in PCs /\ n + 1 \in Nat /\ left \in SUBSET Nat
    BY <1>5, <1>6, <1>7 DEF PCs
  <2> DEFINE m == n + 1
  <2>2. m \in Nat /\ r = [old EXCEPT !.next = m, !.aborted = left, !.pc = to]
    BY <2>1
  <2> HIDE DEF m, r
  <2>3. r.next = m /\ r.aborted = left /\ r.pc = to
    BY <1>1, <2>2 DEF RequestType
  <2>4. /\ r.loaded = old.loaded /\ r.instructions = old.instructions
        /\ r.bricks = old.bricks /\ r.txs = old.txs /\ r.wanted = old.wanted
    BY <1>1, <2>2 DEF RequestType
  <2>5. r \in RequestType
    BY <1>1, <2>1, <2>2 DEF RequestType
  <2>6. QED
    BY <2>3, <2>4, <2>5 DEF m
<1> HIDE DEF r
<1>9. Stage(r)
  <2>1. to = "submitting" => n + 1 \in 1..Len(old.txs)
    <3> DEFINE m == Len(old.txs)
    <3> HIDE DEF m
    <3>1. n \in 1..m /\ m \in Nat /\ (n # m \/ to = "done")
      BY <1>4, <1>7 DEF m
    <3>2. QED
      BY <3>1 DEF m
  <2>2. to = "done" => n + 1 = Len(old.txs) + 1
    BY <1>7
  <2>3. to \in {"submitting", "done"}
    BY <1>7
  <2>4. left \subseteq 1..(n + 1) - 1
    BY <1>5, <1>6
  <2>5. /\ Lists(old.bricks, old.loaded) /\ old.txs = Chunks(old.bricks, Cap)
        /\ \A o \in old.loaded : old.wanted \in {o, All}
    BY <1>1 DEF Stage
  <2>6. QED
    BY <1>8, <2>1, <2>2, <2>3, <2>4, <2>5 DEF Stage
<1>10. Outcome(old, book', placed')
  BY <1>3, OthersKeep DEF old
<1>11. IF n \in left THEN ~(ToSet(old.txs[n]) \subseteq book')
                     ELSE ToSet(old.txs[n]) \cap book' = {}
  <2>1. n \notin old.aborted
    BY <1>5
  <2>2. CASE Executable(q)
    <3>1. n \notin left /\ book' = book \ ToSet(Tx(q))
      BY <2>1, <2>2 DEF left, Submit
    <3>2. QED
      BY <1>4, <3>1
  <2>3. CASE ~Executable(q)
    <3>1. n \in left /\ book' = book
      BY <2>3 DEF left, Submit
    <3>2. ~(ToSet(Tx(q)) \subseteq book)
      BY <1>4, <2>3 DEF Executable
    <3>3. QED
      BY <1>4, <3>1, <3>2
  <2>4. QED
    BY <2>2, <2>3
<1>12. Outcome(r, book', placed')
  <2>1. \A t \in 1..n - 1 : t \in left <=> t \in old.aborted
    BY <1>5 DEF left
  <2>2. \A t \in 1..n - 1 : IF t \in old.aborted
                               THEN ~(ToSet(old.txs[t]) \subseteq book')
                               ELSE ToSet(old.txs[t]) \cap book' = {}
    BY <1>10 DEF Outcome, n
  <2>3. old.loaded \subseteq placed'
    BY <1>10 DEF Outcome
  <2>4. \A t \in 1..r.next - 1 : t \in 1..n - 1 \/ t = n
    BY <1>5, <1>8
  <2>5. \A t \in 1..r.next - 1 : IF t \in left
                               THEN ~(ToSet(old.txs[t]) \subseteq book')
                               ELSE ToSet(old.txs[t]) \cap book' = {}
    BY <1>11, <2>1, <2>2, <2>4
  <2>6. QED
    BY <1>8, <2>3, <2>5 DEF Outcome
<1>13. \A p \in Requests : req'[p] = IF p = q THEN r ELSE req[p]
  BY <1>1, <1>2
<1>14. Queue'
  <2>1. /\ to # "preparing" /\ old.pc # "preparing"
        /\ r.instructions = old.instructions /\ r.loaded = old.loaded
    BY <1>1, <1>7, <1>8
  <2>2. \A p \in Requests : /\ req'[p].pc = "preparing" <=> req[p].pc = "preparing"
                            /\ req'[p].instructions = req[p].instructions
                            /\ req'[p].loaded = req[p].loaded
    BY <1>8, <1>13, <2>1 DEF old
  <2>3. QED
    BY <1>3, <2>2, QueueStays DEF CancelInv
<1>15. Typed'
  BY <1>1, <1>2, <1>3, <1>8 DEF Typed, CancelInv
<1>16. ASSUME NEW p \in Requests
       PROVE  Stage(req'[p]) /\ Outcome(req'[p], book', placed')
  <2>1. Stage(req[p]) /\ Outcome(req[p], book', placed')
    BY <1>3, OthersKeep DEF CancelInv
  <2>2. CASE p = q
    BY <1>9, <1>12, <1>13, <2>2
  <2>3. CASE p # q
    BY <1>13, <2>1, <2>3
  <2>4. QED
    BY <2>2, <2>3
<1>17. QED
  BY <1>14, <1>15, <1>16 DEF CancelInv

LEMMA BookKeeps ==
  ASSUME CancelInv, UNCHANGED <<microtasks, req>>, book' \subseteq placed',
         placed' \subseteq Orders, book' \cap placed \subseteq book,
         placed \subseteq placed'
  PROVE  CancelInv'
<1>1. Typed'
  BY DEF Typed, CancelInv
<1>2. Queue'
  BY QueueStays DEF CancelInv
<1>3. \A p \in Requests : Stage(req[p]) /\ Outcome(req[p], book', placed')
  BY OthersKeep DEF CancelInv
<1>4. QED
  BY <1>1, <1>2, <1>3 DEF CancelInv

LEMMA InitCancel == Init => CancelInv
<1> SUFFICES ASSUME Init
             PROVE  CancelInv
  OBVIOUS
<1> DEFINE i == Idle(All)
<1>1. /\ i \in RequestType /\ i.loaded = {} /\ i.instructions = <<>> /\ i.pc = "idle"
      /\ i.txs = <<>> /\ i.next = 1 /\ i.aborted = {}
  BY SerumCancelAssumption DEF Idle, RequestType, PCs
<1>2. req = [q \in Requests |-> i] /\ microtasks = <<>>
      /\ book \in SUBSET Orders /\ placed = book
  BY DEF Init
<1> HIDE DEF i
<1>3. Typed
  BY <1>1, <1>2 DEF Typed
<1>4. Queue
  BY <1>1, <1>2 DEF Queue, OnlyPreparing
<1>5. Stage(i) /\ Outcome(i, book, placed)
  BY <1>1 DEF Stage, Outcome, Unsent
<1>6. QED
  BY <1>2, <1>3, <1>4, <1>5 DEF CancelInv

LEMMA StepCancel == CancelInv /\ [Next]_vars => CancelInv'
<1> SUFFICES ASSUME CancelInv, [Next]_vars
             PROVE  CancelInv'
  OBVIOUS
<1>1. CASE Microtask
  BY <1>1, PushCancellationKeeps, ReturnFoundKeeps, SplitBeginsKeeps DEF Microtask
<1>2. ASSUME NEW q \in Requests, Begin(q)
      PROVE  CancelInv'
  BY <1>2, BeginKeeps
<1>3. ASSUME NEW q \in Requests, Reply(q)
      PROVE  CancelInv'
  <2>1. CASE MarketLoaded(q)
    <3> DEFINE to == "orders"
    <3>1. /\ LoopIdle /\ req[q].pc = "market" /\ to = "orders"
          /\ Goto(q, to) /\ UNCHANGED <<book, placed, microtasks>>
      BY <2>1 DEF MarketLoaded
    <3> HIDE DEF to
    <3>2. QED
      BY <3>1, GotoKeeps
  <2>2. CASE Rejected(q)
    BY <2>2, GotoKeeps DEF Rejected
  <2>3. CASE OrdersNotLoaded(q) \/ NothingToCancel(q)
    BY <2>3, ReturnEmptyKeeps
  <2>4. CASE CancelOne(q)
    BY <2>4, CancelOneKeeps
  <2>5. CASE CancelAll(q)
    BY <2>5, CancelAllKeeps
  <2>6. CASE SplitEnds(q)
    BY <2>6, SplitEndsKeeps
  <2>7. QED
    BY <1>3, <2>1, <2>2, <2>3, <2>4, <2>5, <2>6 DEF Reply
<1>4. ASSUME NEW q \in Requests, Submit(q)
      PROVE  CancelInv'
  BY <1>4, SubmitKeeps
<1>5. ASSUME NEW o \in Orders, Place(o)
      PROVE  CancelInv'
  BY <1>5, BookKeeps DEF Place, CancelInv, Typed
<1>6. ASSUME NEW o \in Orders, Fill(o)
      PROVE  CancelInv'
  BY <1>6, BookKeeps DEF Fill, CancelInv, Typed
<1>7. CASE UNCHANGED vars
  BY <1>7, BookKeeps DEF vars, CancelInv, Typed
<1>8. QED
  BY <1>1, <1>2, <1>3, <1>4, <1>5, <1>6, <1>7 DEF Next

(* The queue never holds the continuations of two requests, and what it    *)
(* holds completes the list; what a request has sent is accounted for.     *)
THEOREM CancelInvariance == Spec => []CancelInv
BY InitCancel, StepCancel, PTL DEF Spec

-----------------------------------------------------------------------------
(* The states and messages are the ones declared (SerumCancel!TypeOK).     *)
THEOREM TypeCorrect == Spec => []TypeOK
<1>1. CancelInv => TypeOK
  <2> SUFFICES ASSUME CancelInv
               PROVE  TypeOK
    OBVIOUS
  <2>1. ASSUME NEW q \in Requests
        PROVE  /\ req[q] \in RequestType /\ req[q].loaded \subseteq placed
               /\ req[q].aborted \subseteq 1..Len(req[q].txs)
    <3> DEFINE r == req[q]
               n == Len(r.txs)
    <3>1. r \in RequestType /\ Stage(r) /\ Outcome(r, book, placed)
      BY DEF CancelInv, Typed
    <3>2. n \in Nat
      <4> DEFINE S == Seq(Orders)
      <4>1. r.txs \in Seq(S)
        BY <3>1 DEF RequestType
      <4> HIDE DEF S, r
      <4>2. QED
        BY <4>1
    <3>3. r.next \in Nat /\ (r.aborted = {} \/ r.next <= n + 1)
      <4> HIDE DEF r
      <4>1. r.next \in Nat
        BY <3>1 DEF RequestType
      <4>2. CASE r.pc = "submitting"
        BY <3>1, <3>2, <4>2 DEF Stage
      <4>3. CASE r.pc = "done"
        BY <3>1, <3>2, <4>1, <4>3 DEF Stage
      <4>4. CASE r.pc \notin {"submitting", "done"}
        BY <3>1, <4>1, <4>4 DEF Stage, Unsent
      <4>5. QED
        BY <4>2, <4>3, <4>4
    <3>4. r.aborted \subseteq 1..r.next - 1 /\ r.loaded \subseteq placed
      BY <3>1 DEF Stage, Outcome
    <3> HIDE DEF n, r
    <3>5. r.aborted \subseteq 1..n
      BY <3>2, <3>3, <3>4
    <3>6. QED
      BY <3>1, <3>4, <3>5 DEF n, r
  <2>2. QED
    BY <2>1 DEF TypeOK, CancelInv, Typed, RequestType
<1>2. QED
  BY <1>1, CancelInvariance, PTL

(* Whatever the order in which requests interleave, an answer holds every  *)
(* order that was read and each once (serum.client.ts:132).                *)
THEOREM AnswersAreComplete == Spec => []AnswerIsComplete
<1>1. CancelInv => AnswerIsComplete
  <2> SUFFICES ASSUME CancelInv, NEW q \in Requests, req[q].pc \in {"submitting", "done"}
               PROVE  /\ IsInjective(FlattenSeq(req[q].txs))
                      /\ ToSet(FlattenSeq(req[q].txs)) = req[q].loaded
    BY DEF AnswerIsComplete
  <2>1. /\ req[q].txs = Chunks(req[q].bricks, Cap) /\ Lists(req[q].bricks, req[q].loaded)
        /\ Cap \in Nat \ {0}
    BY SerumCancelAssumption DEF CancelInv, Stage
  <2>2. FlattenSeq(req[q].txs) = req[q].bricks
    BY <2>1, ChunksJoin DEF Lists
  <2>3. QED
    BY <2>1, <2>2 DEF Lists
<1>2. QED
  BY <1>1, CancelInvariance, PTL

(* What is still on the book after a request is over is in a transaction   *)
(* that the chain refused because of another order.                        *)
THEOREM LeftoversHaveAReason == Spec => []LeftoversAreExplained
<1>1. CancelInv => LeftoversAreExplained
  <2> SUFFICES ASSUME CancelInv, NEW q \in Requests, req[q].pc = "done",
                      NEW o \in req[q].loaded \cap book
               PROVE  \E t \in req[q].aborted :
                        o \in ToSet(req[q].txs[t]) /\ ~(ToSet(req[q].txs[t]) \subseteq book)
    BY DEF LeftoversAreExplained
  <2> DEFINE r == req[q]
             n == Len(r.txs)
  <2>1. r \in RequestType /\ Stage(r) /\ Outcome(r, book, placed) /\ r.pc = "done"
    BY DEF CancelInv, Typed
  <2>2. /\ r.txs = Chunks(r.bricks, Cap) /\ r.bricks \in Seq(Orders)
        /\ ToSet(r.bricks) = r.loaded /\ r.next = n + 1
    BY <2>1 DEF Stage, Lists
  <2>3. DOMAIN r.txs = 1..n /\ n \in Nat
    <3> DEFINE S == Seq(Orders)
    <3>1. r.txs \in Seq(S)
      BY <2>1 DEF RequestType
    <3> HIDE DEF S, r
    <3>2. QED
      BY <3>1
  <2>4. o \in ToSet(r.bricks) /\ o \in book
    BY <2>2
  <2> HIDE DEF r
  <2>5. PICK t \in DOMAIN r.txs : o \in ToSet(r.txs[t])
    BY <2>2, <2>4, ChunksCover, SerumCancelAssumption
  <2> HIDE DEF n
  <2>6. t \in 1..r.next - 1
    BY <2>2, <2>3, <2>5
  <2>7. t \in r.aborted /\ ~(ToSet(r.txs[t]) \subseteq book)
    BY <2>1, <2>4, <2>5, <2>6 DEF Outcome
  <2>8. QED
    BY <2>5, <2>7 DEF r
<1>2. QED
  BY <1>1, CancelInvariance, PTL

(* No transaction of a request takes an order off the book that it did not *)
(* read there, or that its caller did not ask for.                         *)
THEOREM OnlyAskedIsCancelled == Spec => CancelsOnlyAsked
<1> DEFINE Asked == \A q \in Requests : req'[q].next # req[q].next =>
                       \A o \in book \ book' :
                         o \in req[q].loaded /\ req[q].wanted \in {o, All}
<1>1. CancelInv /\ [Next]_vars => [Asked]_vars
  <2> SUFFICES ASSUME CancelInv, Next, NEW q \in Requests,
                      req'[q].next # req[q].next, NEW o \in book \ book'
               PROVE  o \in req[q].loaded /\ req[q].wanted \in {o, All}
    OBVIOUS
  <2>1. PICK p \in Requests : Submit(p)
    <3>1. CASE Microtask
      BY <3>1 DEF Microtask, PushCancellation, ReturnFound, SplitBegins
    <3>2. ASSUME NEW p \in Requests, Begin(p)
          PROVE  FALSE
      BY <3>2 DEF Begin
    <3>3. ASSUME NEW p \in Requests, Reply(p)
          PROVE  FALSE
      BY <3>3 DEF Reply, MarketLoaded, Rejected, OrdersNotLoaded, NothingToCancel,
                  CancelOne, CancelAll, SplitEnds
    <3>4. ASSUME NEW x \in Orders, Place(x) \/ Fill(x)
          PROVE  FALSE
      BY <3>4 DEF Place, Fill
    <3>5. QED
      BY <3>1, <3>2, <3>3, <3>4 DEF Next
  <2>2. req \in [Requests -> RequestType]
    BY DEF CancelInv, Typed
  <2>3. p = q
    BY <2>1, <2>2 DEF Submit
  <2>4. o \in ToSet(Tx(q)) /\ req[q].pc = "submitting"
    BY <2>1, <2>3 DEF Submit
  <2>5. o \in req[q].loaded
    BY <2>4, SubmittedTx
  <2>6. QED
    BY <2>5 DEF CancelInv, Stage
<1>2. QED
  BY <1>1, CancelInvariance, PTL DEF Spec, CancelsOnlyAsked

-----------------------------------------------------------------------------
(* Trading.  The first of the accounts is one of them.                     *)
LEMMA Least ==
  ASSUME NEW T \in SUBSET Nat, T # {}
  PROVE  \E x \in T : \A y \in T : x <= y
<1> DEFINE R == OpToRel(<, Nat)
<1>1. \A x, y \in Nat : <<y, x>> \in R <=> y < x
  BY DEF OpToRel
<1> HIDE DEF R
<1>2. IsWellFoundedOn(R, Nat)
  BY NatLessThanWellFounded DEF R
<1>3. PICK x \in T : \A y \in T : ~ (<<y, x>> \in R)
  BY <1>2, WFMin
<1>4. \A y \in T : ~(y < x)
  BY <1>1, <1>3
<1>5. QED
  BY <1>4

LEMMA FirstExists ==
  ASSUME Trading!TradingAssumption, Trading!Existing \subseteq Keys, Trading!Existing # {}
  PROVE  Trading!First \in Trading!Existing
<1>1. Trading!Existing \subseteq Nat
  BY DEF Trading!TradingAssumption
<1>2. Trading!Min(Trading!Existing) \in Trading!Existing
  BY <1>1, Least DEF Trading!Min
<1>3. QED
  BY <1>2 DEF Trading!First

Types ==
  /\ pc \in [Trading!Handlers -> {"idle", "loading", "answered", "done", "failed"}]
  /\ target \in [Trading!Handlers -> Keys \cup {None}]
  /\ raced \in BOOLEAN
  /\ Trading!Existing \subseteq Keys

(* The accounts there are, and those that an answer is going to create.    *)
Opened ==
  Trading!Existing \cup {target[q] : q \in {p \in Places : pc[p] = "answered"}}

(* An order's answer names an account; without a race they all name the    *)
(* same.                                                                   *)
OneAccount ==
  /\ \A q \in Places : pc[q] = "answered" => target[q] \in Keys
  /\ ~raced => \A j, k \in Opened : j = k

TradingInv == Types /\ OneAccount

LEMMA TradingInit == Trading!Init => TradingInv
<1> SUFFICES ASSUME Trading!Init PROVE TradingInv
  OBVIOUS
<1>1. Trading!Existing = {}
  BY DEF Trading!Init, Trading!Existing
<1>2. Types
  BY <1>1 DEF Trading!Init, Types
<1>3. \A q \in Places : pc[q] # "answered"
  BY DEF Trading!Init, Trading!Handlers
<1>4. QED
  BY <1>1, <1>2, <1>3 DEF TradingInv, OneAccount, Opened

(* What exists stays; nothing more is opened than an order's answer names. *)
LEMMA Opens ==
  ASSUME TradingInv, Trading!Existing' \subseteq Opened, Types', raced' = raced,
         \A q \in Places : pc'[q] = "answered" => pc[q] = "answered" /\ target'[q] = target[q]
  PROVE  TradingInv'
<1>1. Opened' \subseteq Opened
  BY DEF Opened
<1>2. QED
  BY <1>1 DEF TradingInv, OneAccount

LEMMA PlaceInFirstStep ==
  ASSUME Trading!TradingAssumption, TradingInv, NEW q \in Places, Trading!PlaceInFirst(q)
  PROVE  TradingInv'
<1>1. Trading!First \in Trading!Existing /\ Trading!Existing # {}
  BY FirstExists DEF Trading!PlaceInFirst, TradingInv, Types
<1>2. /\ pc' = [pc EXCEPT ![q] = "answered"]
      /\ target' = [target EXCEPT ![q] = Trading!First]
      /\ Trading!Existing' = Trading!Existing /\ raced' = raced
      /\ q \in Trading!Handlers
  BY DEF Trading!PlaceInFirst, Trading!Prepared, Trading!Existing, Trading!Handlers
<1>3. Types'
  BY <1>1, <1>2 DEF TradingInv, Types
<1>4. Opened' \subseteq Opened
  BY <1>1, <1>2 DEF TradingInv, Types, Opened
<1>5. QED
  BY <1>1, <1>2, <1>3, <1>4 DEF TradingInv, Types, OneAccount

LEMMA PlaceInNewStep ==
  ASSUME TradingInv, NEW q \in Places, Trading!PlaceInNew(q)
  PROVE  TradingInv'
<1>1. PICK k \in Trading!Fresh : Trading!Prepared(q, k)
  BY DEF Trading!PlaceInNew
<1>2. /\ pc[q] = "loading"
      /\ pc' = [pc EXCEPT ![q] = "answered"]
      /\ target' = [target EXCEPT ![q] = k]
      /\ Trading!Existing' = Trading!Existing /\ Trading!Existing = {} /\ k \in Keys
      /\ raced' = (raced \/ Trading!Opening(q))
      /\ q \in Trading!Handlers
  BY <1>1 DEF Trading!PlaceInNew, Trading!Prepared, Trading!Existing, Trading!Handlers, Trading!Fresh
<1>3. Types'
  <2>1. raced' \in BOOLEAN
    BY <1>2 DEF TradingInv, Types, Trading!Opening
  <2>2. QED
    BY <1>2, <2>1 DEF TradingInv, Types
<1>4. ~raced' => Opened' = {k}
  <2> SUFFICES ASSUME ~raced' PROVE Opened' = {k}
    OBVIOUS
  <2>1. ~Trading!Opening(q)
    BY <1>2, Zenon
  <2>2. \A p \in Places \ {q} : pc[p] # "answered"
    BY <1>2, <2>1 DEF Trading!Opening
  <2>3. \A p \in Places : pc'[p] = "answered" <=> p = q
    BY <1>2, <2>2 DEF TradingInv, Types, Trading!Handlers
  <2>4. target'[q] = k
    BY <1>2 DEF TradingInv, Types
  <2>5. QED
    BY <1>2, <2>3, <2>4 DEF Opened
<1>5. \A p \in Places : pc'[p] = "answered" => target'[p] \in Keys
  BY <1>2 DEF TradingInv, Types, OneAccount, Trading!Handlers
<1>6. QED
  BY <1>3, <1>4, <1>5 DEF TradingInv, OneAccount

LEMMA TradingStep ==
  ASSUME Trading!TradingAssumption
  PROVE  TradingInv /\ [Trading!Next]_(Trading!vars) => TradingInv'
<1> SUFFICES ASSUME TradingInv, [Trading!Next]_(Trading!vars) PROVE TradingInv'
  OBVIOUS
<1>1. Places \subseteq Trading!Handlers
  BY DEF Trading!Handlers
<1>2. CASE UNCHANGED Trading!vars
  BY <1>1, <1>2 DEF Trading!vars, TradingInv, Types, OneAccount, Opened, Trading!Existing
<1>3. ASSUME NEW q \in Trading!Handlers, Trading!Begin(q) \/ Trading!Reject(q) \/ Trading!GiveUp(q)
      PROVE  TradingInv'
  <2>1. /\ Trading!Existing' = Trading!Existing /\ raced' = raced
        /\ \E to \in {"idle", "loading", "done", "failed"} : pc' = [pc EXCEPT ![q] = to]
        /\ target' = [target EXCEPT ![q] = None] \/ target' = target
    BY <1>3 DEF Trading!Begin, Trading!Reject, Trading!GiveUp, Trading!Finish, Trading!Existing
  <2>2. Types'
    BY <2>1 DEF TradingInv, Types
  <2>3. \A p \in Places : pc'[p] = "answered" => pc[p] = "answered" /\ target'[p] = target[p]
    BY <1>1, <2>1 DEF TradingInv, Types
  <2>4. QED
    BY <2>1, <2>2, <2>3, Opens DEF Opened
<1>4. ASSUME NEW q \in Places, Trading!PreparePlaceOrder(q)
      PROVE  TradingInv'
  BY <1>4, PlaceInFirstStep, PlaceInNewStep DEF Trading!PreparePlaceOrder
<1>5. ASSUME NEW q \in Places, Trading!PlaceOrder(q)
      PROVE  TradingInv'
  <2>1. /\ pc[q] = "answered"
        /\ Trading!Existing' = Trading!Existing \cup {target[q]}
        /\ pc' = [pc EXCEPT ![q] = "done"]
        /\ target' = [target EXCEPT ![q] = None]
        /\ raced' = raced
    BY <1>5 DEF Trading!PlaceOrder, Trading!Holds, Trading!Finish, Trading!Existing
  <2>2. Types'
    BY <1>1, <2>1 DEF TradingInv, Types, OneAccount
  <2>3. \A p \in Places : pc'[p] = "answered" => pc[p] = "answered" /\ target'[p] = target[p]
    BY <1>1, <2>1 DEF TradingInv, Types
  <2>4. Trading!Existing' \subseteq Opened
    BY <2>1 DEF Opened
  <2>5. QED
    BY <2>1, <2>2, <2>3, <2>4, Opens
<1>6. ASSUME NEW q \in Settles, Trading!SettleStep(q)
      PROVE  TradingInv'
  <2>1. q \in Trading!Handlers /\ q \notin Places
    BY DEF Trading!TradingAssumption, Trading!Handlers
  <2>2. Trading!First \in Keys \cup {None}
    BY FirstExists DEF Trading!First, TradingInv, Types
  <2>3. /\ Trading!Existing' = Trading!Existing /\ raced' = raced
        /\ \E to \in {"answered", "done"} : pc' = [pc EXCEPT ![q] = to]
        /\ \E k \in Keys \cup {None} : target' = [target EXCEPT ![q] = k]
    BY <1>6, <2>2 DEF Trading!SettleStep, Trading!PrepareSettleFunds, Trading!Prepared, Trading!SettleFunds, Trading!Finish, Trading!Existing
  <2>4. Types'
    BY <2>1, <2>3 DEF TradingInv, Types
  <2>5. \A p \in Places : pc'[p] = "answered" => pc[p] = "answered" /\ target'[p] = target[p]
    BY <1>1, <2>1, <2>3 DEF TradingInv, Types
  <2>6. QED
    BY <2>3, <2>4, <2>5, Opens DEF Opened
<1>7. ASSUME NEW k \in Trading!Existing, Trading!Match(k) \/ Trading!CancelElsewhere(k) \/ Trading!ConsumeEvents(k)
      PROVE  TradingInv'
  <2>1. Trading!Existing' = Trading!Existing /\ UNCHANGED <<pc, target, raced>>
    BY <1>7 DEF Trading!Match, Trading!CancelElsewhere, Trading!ConsumeEvents, Trading!Existing
  <2>2. QED
    BY <2>1, Opens DEF TradingInv, Types, Opened
<1>8. QED
  BY <1>2, <1>3, <1>4, <1>5, <1>6, <1>7 DEF Trading!Next, Trading!PlaceStep

(* Two open-orders accounts take two first orders at a time, however many  *)
(* orders are placed and settled, and by however many requests.            *)
THEOREM SecondAccountTakesARace == Trading!Spec => []SecondAccountOnlyByRace
<1>1. TradingInv => SecondAccountOnlyByRace
  <2> SUFFICES ASSUME TradingInv, ~raced
               PROVE  ~(Cardinality(Trading!Existing) > 1)
    BY DEF SecondAccountOnlyByRace, Trading!SecondAccountOnlyByRace, Trading!Cardinality, Cardinality
  <2>1. \A j, k \in Trading!Existing : j = k
    BY DEF TradingInv, OneAccount, Opened
  <2>2. CASE Trading!Existing = {}
    BY <2>2, FS_EmptySet
  <2>3. CASE Trading!Existing # {}
    <3>1. PICK k \in Trading!Existing : Trading!Existing = {k}
      BY <2>1, <2>3
    <3>2. Cardinality(Trading!Existing) = 1
      BY <3>1, FS_Singleton
    <3>3. QED
      BY <3>2
  <2>4. QED
    BY <2>2, <2>3
<1>2. QED
  BY <1>1, TradingConstants, TradingInit, TradingStep, PTL DEF Trading!Spec

-----------------------------------------------------------------------------
(* New markets.  The keys of an answer, by their roles.                    *)
States == {"market", "requestQueue", "eventQueue", "bids", "asks"}
Vaults == {"baseVault", "quoteVault"}

KeysFor(q, roles) == {Market!Key(q, r) : r \in roles}

LEMMA RoleKeys ==
  ASSUME NEW q
  PROVE  /\ Market!Elements(Market!StateRoles) = States
         /\ Market!Elements(Market!KeysOf(q, Market!StateRoles)) = KeysFor(q, States)
         /\ Market!Elements(Market!KeysOf(q, Market!VaultRoles)) = KeysFor(q, Vaults)
<1>1. Len(Market!StateRoles) = 5 /\ Len(Market!VaultRoles) = 2
  BY DEF Market!StateRoles, Market!VaultRoles
<1>2. Market!Elements(Market!StateRoles) = States
  BY <1>1 DEF Market!StateRoles, Market!Elements, States
<1>3. Len(Market!KeysOf(q, Market!StateRoles)) = 5
  BY <1>1 DEF Market!KeysOf
<1>4. Len(Market!KeysOf(q, Market!VaultRoles)) = 2
  BY <1>1 DEF Market!KeysOf
<1>5. Market!Elements(Market!KeysOf(q, Market!StateRoles)) = KeysFor(q, States)
  BY <1>1, <1>3 DEF Market!KeysOf, Market!StateRoles, Market!Elements, KeysFor, States
<1>6. Market!Elements(Market!KeysOf(q, Market!VaultRoles)) = KeysFor(q, Vaults)
  BY <1>1, <1>4 DEF Market!KeysOf, Market!VaultRoles, Market!Elements, KeysFor, Vaults
<1>7. QED
  BY <1>2, <1>5, <1>6

(* Taking keys by their place gives every one its role.                    *)
LEMMA KeysInPlace ==
  ASSUME NEW q, NEW a, a.first = Market!KeysOf(q, Market!StateRoles),
         a.second = Market!KeysOf(q, Market!VaultRoles)
  PROVE  /\ Market!InitKeys(a)
              = Market!KeysOf(q, Market!StateRoles \o Market!VaultRoles)
         /\ Market!Elements(Market!InitKeys(a)) = KeysFor(q, States \cup Vaults)
<1> DEFINE s == Market!StateRoles
           v == Market!VaultRoles
           all7 == s \o v
<1>1. /\ Len(all7) = 7
      /\ all7[1] = "market" /\ all7[2] = "requestQueue" /\ all7[3] = "eventQueue"
      /\ all7[4] = "bids" /\ all7[5] = "asks"
      /\ all7[6] = "baseVault" /\ all7[7] = "quoteVault"
  <2>1. s \in Seq(States \cup Vaults) /\ v \in Seq(States \cup Vaults)
    BY DEF Market!StateRoles, Market!VaultRoles, States, Vaults
  <2>2. Len(s) = 5 /\ Len(v) = 2
    BY DEF Market!StateRoles, Market!VaultRoles
  <2>3. /\ Len(all7) = 7
        /\ \A i \in 1..7 : all7[i] = IF i <= 5 THEN s[i] ELSE v[i - 5]
    <3> HIDE DEF s, v
    <3>1. Len(all7) = Len(s) + Len(v)
      BY <2>1, ConcatProperties
    <3>2. \A i \in 1..(Len(s) + Len(v)) :
             all7[i] = IF i <= Len(s) THEN s[i] ELSE v[i - Len(s)]
      BY <2>1, ConcatProperties
    <3> HIDE DEF all7
    <3>3. QED
      BY <2>2, <3>1, <3>2
  <2>4. all7[6] = v[1] /\ all7[7] = v[2]
    <3> HIDE DEF s, v, all7
    <3>1. QED
      BY <2>3
  <2>5. /\ all7[1] = s[1] /\ all7[2] = s[2] /\ all7[3] = s[3]
        /\ all7[4] = s[4] /\ all7[5] = s[5]
    <3> HIDE DEF s, v, all7
    <3>1. QED
      BY <2>3
  <2>6. QED
    <3> HIDE DEF all7
    <3>1. QED
      BY <2>3, <2>4, <2>5 DEF Market!StateRoles, Market!VaultRoles
<1> HIDE DEF all7
<1>2. Market!KeysOf(q, all7) =
        <<Market!Key(q, "market"), Market!Key(q, "requestQueue"), Market!Key(q, "eventQueue"),
          Market!Key(q, "bids"), Market!Key(q, "asks"),
          Market!Key(q, "baseVault"), Market!Key(q, "quoteVault")>>
  <2> DEFINE f == Market!KeysOf(q, all7)
  <2>1. f = [i \in 1..7 |-> Market!Key(q, all7[i])]
    BY <1>1 DEF Market!KeysOf
  <2> HIDE DEF f
  <2>2. f = <<f[1], f[2], f[3], f[4], f[5], f[6], f[7]>>
    BY <2>1
  <2>3. QED
    BY <1>1, <2>1, <2>2 DEF f
<1>3. /\ a.first[1] = Market!Key(q, "market") /\ a.first[2] = Market!Key(q, "requestQueue")
      /\ a.first[3] = Market!Key(q, "eventQueue") /\ a.first[4] = Market!Key(q, "bids")
      /\ a.first[5] = Market!Key(q, "asks")
  BY DEF Market!KeysOf, Market!StateRoles
<1>4. /\ a.second[1] = Market!Key(q, "baseVault") /\ a.second[2] = Market!Key(q, "quoteVault")
  BY DEF Market!KeysOf, Market!VaultRoles
<1>5. Market!InitKeys(a) = Market!KeysOf(q, all7)
  BY <1>2, <1>3, <1>4 DEF Market!InitKeys
<1>6. Market!Elements(Market!KeysOf(q, all7)) = KeysFor(q, States \cup Vaults)
  BY <1>2 DEF Market!Elements, KeysFor, States, Vaults
<1>7. QED
  BY <1>5, <1>6 DEF all7

(* SerumMarket counts with its own instance of FiniteSets.                 *)
LEMMA SameCardinality ==
  ASSUME NEW S
  PROVE  Market!Cardinality(S) = Cardinality(S)
BY DEF Market!Cardinality, Cardinality

LEMMA TwoVaults ==
  ASSUME NEW q
  PROVE  IsFiniteSet(KeysFor(q, Vaults)) /\ Cardinality(KeysFor(q, Vaults)) = 2
<1> DEFINE b == Market!Key(q, "baseVault")
           c == Market!Key(q, "quoteVault")
<1>1. KeysFor(q, Vaults) = {b} \cup {c}
  BY DEF KeysFor, Vaults
<1>2. b # c
  BY DEF Market!Key
<1>3. IsFiniteSet({b}) /\ Cardinality({b}) = 1 /\ c \notin {b}
  BY <1>2, FS_Singleton
<1>4. QED
  BY <1>1, <1>3, FS_AddElement

LEMMA FiveStates ==
  ASSUME NEW q
  PROVE  Cardinality(KeysFor(q, States)) \in Nat
<1> DEFINE a == {} \cup {Market!Key(q, "market")}
           b == a \cup {Market!Key(q, "requestQueue")}
           c == b \cup {Market!Key(q, "eventQueue")}
           d == c \cup {Market!Key(q, "bids")}
           e == d \cup {Market!Key(q, "asks")}
<1>1. KeysFor(q, States) = e
  BY DEF KeysFor, States
<1>2. IsFiniteSet(a)
  BY FS_EmptySet, FS_AddElement
<1>3. IsFiniteSet(b)
  BY <1>2, FS_AddElement
<1>4. IsFiniteSet(c)
  BY <1>3, FS_AddElement
<1>5. IsFiniteSet(d)
  BY <1>4, FS_AddElement
<1>6. IsFiniteSet(e)
  BY <1>5, FS_AddElement
<1>7. QED
  BY <1>1, <1>6, FS_CardinalityType

-----------------------------------------------------------------------------
(* What a request has prepared when it has come so far.                    *)
Places7 == Market!StateRoles \o Market!VaultRoles
Sizes(p) == <<Market!BaseLotSize(p), Market!QuoteLotSize(p)>>

Answers(q) ==
  [first : {<<>>, Market!KeysOf(q, Market!StateRoles)},
   second : {<<>>, Market!KeysOf(q, Market!VaultRoles)},
   init : {<<>>, Market!KeysOf(q, Places7)},
   lots : {<<0, 0>>, Sizes(params[q])}]

MarketTypes ==
  /\ params \in [MarketRequests -> [lot : Int, tick : Int]]
  /\ step \in [MarketRequests -> {"idle", "state", "vaults", "lots", "answered",
                                  "created", "done", "failed"}]
  /\ answer = [q \in MarketRequests |-> answer[q]]
  /\ \A q \in MarketRequests : answer[q] \in Answers(q)
  /\ rent \in Nat

AnswerSoFar(q) ==
  /\ step[q] \in {"state", "vaults", "lots", "answered", "created"} =>
       answer[q].first = Market!KeysOf(q, Market!StateRoles)
  /\ step[q] \in {"vaults", "lots", "answered", "created"} =>
       answer[q].second = Market!KeysOf(q, Market!VaultRoles)
  /\ step[q] \in {"lots", "answered", "created"} =>
       answer[q].lots = Sizes(params[q]) /\ ~Market!LotSizesFail(q)
  /\ step[q] \in {"answered", "created"} =>
       answer[q].init = Market!KeysOf(q, Places7)

(* The accounts of a request: none before its first transaction, those of  *)
(* the state after it, and nothing else unless there is a market.          *)
Owned(q) == {k \in existing : k.of = q}
Initialised(q) == \E m \in markets : m.by = q

OnChain(q) ==
  /\ step[q] \in {"idle", "state", "vaults", "lots", "answered"} => Owned(q) = {}
  /\ step[q] = "created" => Owned(q) = KeysFor(q, States)
  /\ Initialised(q) => step[q] = "done"
  /\ Owned(q) # {} /\ ~Initialised(q) =>
       /\ Owned(q) = KeysFor(q, States)
       /\ step[q] = "created" \/ q \in stopped \/ rent < 2

Made(m) ==
  /\ m.by \in MarketRequests
  /\ m.keys = Market!KeysOf(m.by, Places7)
  /\ KeysFor(m.by, States \cup Vaults) \subseteq existing
  /\ m.for = params[m.by]
  /\ m.lots = Sizes(m.for)
  /\ Market!BaseLotSize(m.for) # 0 /\ Market!QuoteLotSize(m.for) # 0

MarketInv ==
  /\ MarketTypes
  /\ \A q \in MarketRequests : AnswerSoFar(q) /\ OnChain(q)
  /\ \A m \in markets : Made(m)

LEMMA MarketInit ==
  ASSUME Market!MarketAssumption
  PROVE  Market!Init => MarketInv
<1> SUFFICES ASSUME Market!Init
             PROVE  MarketInv
  OBVIOUS
<1>1. MarketTypes
  <2>1. /\ params \in [MarketRequests -> [lot : Int, tick : Int]] /\ rent \in Nat
    <3>1. Lots \subseteq Int /\ Ticks \subseteq Int /\ MaxRent \in Nat
      BY DEF Market!MarketAssumption
    <3>2. /\ params \in [MarketRequests -> [lot : Lots, tick : Ticks]]
          /\ rent \in 0..MaxRent
      BY DEF Market!Init
    <3>3. rent \in Nat
      BY <3>1, <3>2
    <3>4. params \in [MarketRequests -> [lot : Int, tick : Int]]
      BY <3>1, <3>2
    <3>5. QED
      BY <3>3, <3>4
  <2>2. /\ answer = [q \in MarketRequests |-> answer[q]]
        /\ \A q \in MarketRequests : answer[q] \in Answers(q)
    BY DEF Market!Init, Answers, Market!NoAnswer
  <2>3. QED
    BY <2>1, <2>2 DEF Market!Init, MarketTypes
<1>2. \A q \in MarketRequests : AnswerSoFar(q) /\ OnChain(q)
  BY DEF Market!Init, AnswerSoFar, OnChain, Owned, Initialised
<1>3. QED
  BY <1>1, <1>2 DEF Market!Init, MarketInv

(* The handler prepares one thing after the other and touches no account.  *)
Untouched == UNCHANGED <<params, existing, markets, rent, stopped>>

LEMMA OnlyPrepared ==
  ASSUME MarketInv, Untouched, NEW q \in MarketRequests,
         step[q] \in {"idle", "state", "vaults", "lots"},
         step'[q] \in {"state", "vaults", "lots", "answered", "failed"},
         \E x : step' = [step EXCEPT ![q] = x],
         \E a : answer' = [answer EXCEPT ![q] = a],
         answer'[q] \in Answers(q), AnswerSoFar(q)'
  PROVE  MarketInv'
<1>1. /\ \A p \in MarketRequests \ {q} : step'[p] = step[p] /\ answer'[p] = answer[p]
      /\ MarketTypes' /\ \A p \in MarketRequests : AnswerSoFar(p)'
  <2>1. step' \in [MarketRequests -> {"idle", "state", "vaults", "lots", "answered",
                                      "created", "done", "failed"}]
    BY DEF MarketInv, MarketTypes
  <2>2. /\ answer' = [p \in MarketRequests |-> answer'[p]]
        /\ \A p \in MarketRequests \ {q} : answer'[p] = answer[p]
    BY DEF MarketInv, MarketTypes
  <2>3. \A p \in MarketRequests \ {q} : step'[p] = step[p]
    BY DEF MarketInv, MarketTypes
  <2>4. MarketTypes'
    BY <2>1, <2>2 DEF MarketInv, MarketTypes, Answers, Sizes, Untouched, Market!BaseLotSize,
                      Market!QuoteLotSize
  <2>5. \A p \in MarketRequests : AnswerSoFar(p)'
    BY <2>2, <2>3 DEF MarketInv, AnswerSoFar, Untouched, Market!LotSizesFail
  <2>6. QED
    BY <2>2, <2>3, <2>4, <2>5
<1>2. \A p \in MarketRequests : OnChain(p)'
  BY <1>1 DEF MarketInv, OnChain, Owned, Initialised, Untouched
<1>3. \A m \in markets' : Made(m)'
  BY DEF MarketInv, Made, Untouched
<1>4. QED
  BY <1>1, <1>2, <1>3 DEF MarketInv

(* The first transaction: the accounts of the state, and no others.        *)
LEMMA FirstStep ==
  ASSUME MarketInv, NEW q \in MarketRequests, Market!RunFirst(q)
  PROVE  MarketInv'
<1> DEFINE keys == KeysFor(q, States)
<1>1. /\ step[q] = "answered" /\ step' \in {[step EXCEPT ![q] = "created"], [step EXCEPT ![q] = "failed"]}
      /\ stopped \subseteq stopped' /\ step'[q] \in {"created", "failed"}
      /\ step'[q] = "failed" => q \in stopped'
      /\ UNCHANGED <<params, answer, markets>>
  BY DEF Market!RunFirst, MarketInv, MarketTypes
<1>2. /\ existing' = existing \cup keys /\ rent' \in Nat /\ rent' <= rent
  <2>1. Market!Elements(answer[q].first) = keys
    BY <1>1, RoleKeys DEF MarketInv, AnswerSoFar
  <2>2. Market!Create(keys)
    BY <2>1 DEF Market!RunFirst
  <2>3. Market!Cardinality(keys) \in Nat
    BY FiveStates, SameCardinality
  <2> HIDE DEF keys
  <2>4. QED
    BY <2>2, <2>3 DEF Market!Create, Market!CanCreate, MarketInv, MarketTypes
<1>3. MarketTypes' /\ \A p \in MarketRequests : AnswerSoFar(p)'
  <2>1. MarketTypes'
    BY <1>1, <1>2 DEF MarketInv, MarketTypes, Answers, Sizes, Market!BaseLotSize,
                      Market!QuoteLotSize
  <2>2. \A p \in MarketRequests : AnswerSoFar(p)'
    BY <1>1 DEF MarketInv, MarketTypes, AnswerSoFar, Market!LotSizesFail
  <2>3. QED
    BY <2>1, <2>2
<1>4. ASSUME NEW p \in MarketRequests PROVE OnChain(p)'
  <2>1. ~Initialised(q)' /\ (Initialised(p)' <=> Initialised(p))
    BY <1>1 DEF MarketInv, OnChain, Initialised
  <2>2. \A k \in keys : k.of = q
    BY DEF KeysFor, Market!Key
  <2>3. CASE p = q
    <3>1. Owned(q)' = keys
      BY <1>1, <1>2, <2>2 DEF MarketInv, OnChain, Owned
    <3>2. QED
      BY <1>1, <2>1, <2>3, <3>1 DEF MarketInv, OnChain
  <2>4. CASE p # q
    <3>1. Owned(p)' = Owned(p)
      BY <1>2, <2>2, <2>4 DEF Owned
    <3>2. step'[p] = step[p]
      BY <1>1, <2>4 DEF MarketInv, MarketTypes
    <3>3. QED
      BY <1>1, <1>2, <2>1, <3>1, <3>2 DEF MarketInv, MarketTypes, OnChain
  <2>5. QED
    BY <2>3, <2>4
<1>5. \A m \in markets' : Made(m)'
  BY <1>1, <1>2 DEF MarketInv, Made
<1>6. QED
  BY <1>3, <1>4, <1>5 DEF MarketInv

(* The second: the vaults, and a market of all seven.                      *)
LEMMA SecondStep ==
  ASSUME MarketInv, NEW q \in MarketRequests, Market!RunSecond(q)
  PROVE  MarketInv'
<1> DEFINE keys == KeysFor(q, Vaults)
           new == [keys |-> answer[q].init, lots |-> answer[q].lots,
                   for |-> params[q], by |-> q]
<1>1. /\ step[q] = "created" /\ step' = [step EXCEPT ![q] = "done"]
      /\ UNCHANGED <<params, answer, stopped>> /\ markets' = markets \cup {new}
  BY DEF Market!RunSecond
<1>2. /\ existing' = existing \cup keys /\ rent' \in Nat /\ rent' <= rent
  <2>1. Market!Elements(answer[q].second) = keys
    BY <1>1, RoleKeys DEF MarketInv, AnswerSoFar
  <2>2. Market!Create(keys)
    BY <2>1 DEF Market!RunSecond
  <2>3. Market!Cardinality(keys) = 2
    BY TwoVaults, SameCardinality
  <2> HIDE DEF keys
  <2>4. QED
    BY <2>2, <2>3 DEF Market!Create, Market!CanCreate, MarketInv, MarketTypes
<1>3. MarketTypes' /\ \A p \in MarketRequests : AnswerSoFar(p)'
  <2>1. MarketTypes'
    BY <1>1, <1>2 DEF MarketInv, MarketTypes, Answers, Sizes, Market!BaseLotSize,
                      Market!QuoteLotSize
  <2>2. \A p \in MarketRequests : AnswerSoFar(p)'
    BY <1>1 DEF MarketInv, MarketTypes, AnswerSoFar, Market!LotSizesFail
  <2>3. QED
    BY <2>1, <2>2
<1>4. ASSUME NEW p \in MarketRequests PROVE OnChain(p)'
  <2>1. \A k \in keys : k.of = q
    BY DEF KeysFor, Market!Key
  <2>2. CASE p = q
    <3>1. step'[q] = "done"
      BY <1>1 DEF MarketInv, MarketTypes
    <3>2. Initialised(q)'
      <4>1. new \in markets' /\ new.by = q
        BY <1>1
      <4>2. QED
        BY <4>1 DEF Initialised
    <3>3. QED
      BY <2>2, <3>1, <3>2 DEF OnChain
  <2>3. CASE p # q
    <3>1. Owned(p)' = Owned(p)
      BY <1>2, <2>1, <2>3 DEF Owned
    <3>2. step'[p] = step[p]
      BY <1>1, <2>3 DEF MarketInv, MarketTypes
    <3>3. Initialised(p)' <=> Initialised(p)
      BY <1>1, <2>3 DEF Initialised
    <3>4. QED
      BY <1>1, <1>2, <3>1, <3>2, <3>3 DEF MarketInv, MarketTypes, OnChain
  <2>4. QED
    BY <2>2, <2>3
<1>5. \A m \in markets' : Made(m)'
  <2>1. KeysFor(q, States \cup Vaults) \subseteq existing'
    <3>1. KeysFor(q, States) \subseteq existing
      BY <1>1 DEF MarketInv, OnChain, Owned
    <3>2. KeysFor(q, States \cup Vaults) = KeysFor(q, States) \cup keys
      BY DEF KeysFor
    <3>3. QED
      BY <1>2, <3>1, <3>2
  <2>2. Made(new)'
    BY <1>1, <2>1 DEF MarketInv, AnswerSoFar, Made, Sizes, Market!LotSizesFail
  <2>3. \A m \in markets : Made(m)'
    BY <1>1, <1>2 DEF MarketInv, Made
  <2>4. QED
    BY <1>1, <2>2, <2>3
<1>6. QED
  BY <1>3, <1>4, <1>5 DEF MarketInv

(* A transaction is only refused when the wallet cannot pay.               *)
LEMMA RefusedForRent ==
  ASSUME MarketInv, NEW q \in MarketRequests, Market!Refused(q), step[q] = "created"
  PROVE  rent < 2
<1>1. /\ Market!Elements(answer[q].first) = KeysFor(q, States)
      /\ Market!Elements(answer[q].second) = KeysFor(q, Vaults)
      /\ Market!Elements(answer[q].init) = KeysFor(q, States \cup Vaults)
  BY RoleKeys, KeysInPlace DEF MarketInv, AnswerSoFar, Places7
<1>2. Owned(q) = KeysFor(q, States)
  BY DEF MarketInv, OnChain
<1>3. Market!Initialisable(answer[q])
  <2>1. KeysFor(q, States) \subseteq existing
    BY <1>2 DEF Owned
  <2>2. ASSUME NEW m \in markets
        PROVE  Market!Elements(m.keys) \cap KeysFor(q, States \cup Vaults) = {}
    <3>1. m.by # q
      BY DEF MarketInv, OnChain, Initialised
    <3>2. Market!Elements(m.keys) = KeysFor(m.by, States \cup Vaults)
      <4> DEFINE a == [first |-> Market!KeysOf(m.by, Market!StateRoles),
                       second |-> Market!KeysOf(m.by, Market!VaultRoles)]
      <4>1. a.first = Market!KeysOf(m.by, Market!StateRoles)
            /\ a.second = Market!KeysOf(m.by, Market!VaultRoles)
        OBVIOUS
      <4> HIDE DEF a
      <4>2. QED
        BY <4>1, KeysInPlace DEF MarketInv, Made, Places7
    <3>3. QED
      BY <3>1, <3>2 DEF KeysFor, Market!Key
  <2>3. QED
    BY <1>1, <2>1, <2>2 DEF Market!Initialisable
<1>4. KeysFor(q, Vaults) \cap existing = {}
  <2>1. \A k \in KeysFor(q, Vaults) : k.of = q /\ k \notin KeysFor(q, States)
    BY DEF KeysFor, Market!Key, States, Vaults
  <2>2. QED
    BY <1>2, <2>1 DEF Owned
<1>5. ~Market!CanCreate(KeysFor(q, Vaults))
  BY <1>1, <1>3 DEF Market!Refused
<1>6. ~(2 <= rent)
  BY <1>4, <1>5, TwoVaults, SameCardinality DEF Market!CanCreate
<1>7. QED
  BY <1>6 DEF MarketInv, MarketTypes

LEMMA MarketStep == MarketInv /\ [Market!Next]_(Market!vars) => MarketInv'
<1> SUFFICES ASSUME MarketInv, [Market!Next]_(Market!vars)
             PROVE  MarketInv'
  OBVIOUS
<1> USE DEF Untouched
<1>1. CASE UNCHANGED Market!vars
  BY ZenonT(30), <1>1 DEF Market!vars, MarketInv, MarketTypes, Answers, Sizes, AnswerSoFar, OnChain, Owned,
              Initialised, Made, Market!LotSizesFail, Market!BaseLotSize, Market!QuoteLotSize
<1>2. ASSUME NEW q \in MarketRequests, Market!PrepareStateAccountsForNewMarket(q)
      PROVE  MarketInv'
  <2>1. step[q] = "idle" /\ step'[q] = "state"
    BY <1>2 DEF Market!PrepareStateAccountsForNewMarket, MarketInv, MarketTypes
  <2>2. answer'[q] \in Answers(q) /\ AnswerSoFar(q)'
    BY <1>2, <2>1 DEF Market!PrepareStateAccountsForNewMarket, MarketInv, MarketTypes, Answers,
                      AnswerSoFar
  <2>3. QED
    BY <1>2, <2>1, <2>2, OnlyPrepared DEF Market!PrepareStateAccountsForNewMarket
<1>3. ASSUME NEW q \in MarketRequests, Market!PrepareVaultAccounts(q)
      PROVE  MarketInv'
  <2>1. step[q] = "state" /\ step'[q] = "vaults"
    BY <1>3 DEF Market!PrepareVaultAccounts, MarketInv, MarketTypes
  <2>2. answer'[q] \in Answers(q) /\ AnswerSoFar(q)'
    BY <1>3, <2>1 DEF Market!PrepareVaultAccounts, MarketInv, MarketTypes, Answers, AnswerSoFar
  <2>3. QED
    BY <1>3, <2>1, <2>2, OnlyPrepared DEF Market!PrepareVaultAccounts
<1>4. ASSUME NEW q \in MarketRequests, Market!CalcBaseAndQuoteLotSizes(q)
      PROVE  MarketInv'
  <2>1. step[q] = "vaults" /\ step'[q] = "lots"
    BY <1>4 DEF Market!CalcBaseAndQuoteLotSizes, MarketInv, MarketTypes
  <2>2. answer' = [answer EXCEPT ![q].lots = Sizes(params[q])]
    BY <1>4 DEF Market!CalcBaseAndQuoteLotSizes, Sizes
  <2>3. answer'[q] = [answer[q] EXCEPT !.lots = Sizes(params[q])]
    BY <2>2 DEF MarketInv, MarketTypes
  <2>4. answer[q] \in Answers(q) /\ AnswerSoFar(q)
    BY DEF MarketInv, MarketTypes
  <2>5. answer'[q] \in Answers(q)
    BY <2>3, <2>4 DEF Answers
  <2>6. ~Market!LotSizesFail(q)' /\ UNCHANGED params
    BY <1>4 DEF Market!CalcBaseAndQuoteLotSizes, Market!LotSizesFail
  <2>7. AnswerSoFar(q)'
    BY <2>1, <2>3, <2>4, <2>6 DEF AnswerSoFar, Answers
  <2>8. QED
    BY <1>4, <2>1, <2>2, <2>5, <2>7, OnlyPrepared DEF Market!CalcBaseAndQuoteLotSizes
<1>5. ASSUME NEW q \in MarketRequests, Market!PrepareInitMarketTransaction(q)
      PROVE  MarketInv'
  <2>1. step[q] = "lots" /\ step'[q] = "answered"
    BY <1>5 DEF Market!PrepareInitMarketTransaction, MarketInv, MarketTypes
  <2>2. Market!InitKeys(answer[q]) = Market!KeysOf(q, Places7)
    BY <2>1, KeysInPlace DEF MarketInv, AnswerSoFar, Places7
  <2>3. answer' = [answer EXCEPT ![q].init = Market!KeysOf(q, Places7)]
    BY <1>5, <2>2 DEF Market!PrepareInitMarketTransaction
  <2>4. answer'[q] = [answer[q] EXCEPT !.init = Market!KeysOf(q, Places7)]
    BY <2>3 DEF MarketInv, MarketTypes
  <2>5. answer[q] \in Answers(q) /\ AnswerSoFar(q)
    BY DEF MarketInv, MarketTypes
  <2>6. UNCHANGED params
    BY <1>5 DEF Market!PrepareInitMarketTransaction
  <2>7. answer'[q] \in Answers(q) /\ AnswerSoFar(q)'
    BY <2>1, <2>4, <2>5, <2>6 DEF Answers, AnswerSoFar, Market!LotSizesFail
  <2>8. QED
    BY <1>5, <2>1, <2>3, <2>7, OnlyPrepared DEF Market!PrepareInitMarketTransaction
<1>6. ASSUME NEW q \in MarketRequests, Market!Reject(q)
      PROVE  MarketInv'
  <2>1. step[q] \in {"state", "vaults"} /\ step'[q] = "failed"
    BY <1>6 DEF Market!Reject, MarketInv, MarketTypes
  <2>2. answer'[q] = Market!NoAnswer
    BY <1>6 DEF Market!Reject, MarketInv, MarketTypes
  <2>3. answer'[q] \in Answers(q) /\ AnswerSoFar(q)'
    BY <2>1, <2>2 DEF Market!NoAnswer, Answers, AnswerSoFar
  <2>4. QED
    BY <1>6, <2>1, <2>3, OnlyPrepared DEF Market!Reject
<1>7. ASSUME NEW q \in MarketRequests, Market!Refused(q) \/ Market!GiveUp(q)
      PROVE  MarketInv'
  <2>1. /\ step[q] \in {"answered", "created"} /\ step' = [step EXCEPT ![q] = "failed"]
        /\ UNCHANGED <<params, answer, existing, markets, rent>> /\ stopped \subseteq stopped'
    BY <1>7 DEF Market!Refused, Market!GiveUp
  <2>2. MarketTypes' /\ \A p \in MarketRequests : AnswerSoFar(p)'
    BY <2>1 DEF MarketInv, MarketTypes, Answers, Sizes, AnswerSoFar, Market!LotSizesFail,
                Market!BaseLotSize, Market!QuoteLotSize
  <2>3. step[q] = "created" => q \in stopped' \/ rent < 2
    BY <1>7, RefusedForRent DEF Market!GiveUp
  <2>4. ASSUME NEW p \in MarketRequests PROVE OnChain(p)'
    <3>1. Owned(p)' = Owned(p) /\ (Initialised(p)' <=> Initialised(p))
      BY <2>1 DEF Owned, Initialised
    <3>2. step'[p] = IF p = q THEN "failed" ELSE step[p]
      BY <2>1 DEF MarketInv, MarketTypes
    <3>3. QED
      BY <2>1, <2>3, <3>1, <3>2 DEF MarketInv, OnChain
  <2>5. \A m \in markets' : Made(m)'
    BY <2>1 DEF MarketInv, Made
  <2>6. QED
    BY <2>2, <2>4, <2>5 DEF MarketInv
<1>8. QED
  BY <1>1, <1>2, <1>3, <1>4, <1>5, <1>6, <1>7, FirstStep, SecondStep
     DEF Market!Next, Market!Handle

(* Of every market and every request that is still on its way: what the    *)
(* answer holds so far, which accounts are on the chain, and what a market *)
(* was made of.                                                            *)
THEOREM MarketInvariance == Market!Spec => []MarketInv
<1> QED
  BY MarketConstants, MarketInit, MarketStep, PTL DEF Market!Spec

(* A market stands on the seven accounts that one answer made for it, each *)
(* in its role, whichever of its two transactions ran when, and however the*)
(* answers of other requests were sent in between.                         *)
THEOREM MarketsAreWhole == Market!Spec => []MarketIsWhole
<1>1. MarketInv => MarketIsWhole
  <2> SUFFICES ASSUME MarketInv, NEW m \in markets
               PROVE  /\ m.keys = Market!KeysOf(m.by, Places7)
                      /\ Market!Elements(m.keys) \subseteq existing
    BY DEF MarketIsWhole, Market!MarketIsWhole, Places7
  <2> DEFINE a == [first |-> Market!KeysOf(m.by, Market!StateRoles),
                   second |-> Market!KeysOf(m.by, Market!VaultRoles)]
  <2>1. a.first = Market!KeysOf(m.by, Market!StateRoles)
        /\ a.second = Market!KeysOf(m.by, Market!VaultRoles)
    OBVIOUS
  <2> HIDE DEF a
  <2>2. QED
    BY <2>1, KeysInPlace DEF MarketInv, Made, Places7
<1>2. QED
  BY <1>1, MarketInvariance, PTL

(* What is left without a market is the five state accounts and never a    *)
(* vault, and only where the client stopped between the transactions, is   *)
(* still between them, or could not pay for the second.                    *)
THEOREM OrphansHaveAReason == Market!Spec => []OrphansExplained
<1>1. MarketInv => OrphansExplained
  <2> SUFFICES ASSUME MarketInv, NEW q \in MarketRequests, Market!Orphans(q)
               PROVE  /\ {k.role : k \in {j \in existing : j.of = q}}
                            = Market!Elements(Market!StateRoles)
                      /\ \/ step[q] = "created"
                         \/ q \in stopped
                         \/ rent < Len(Market!VaultRoles)
    BY DEF OrphansExplained, Market!OrphansExplained
  <2>1. Owned(q) # {} /\ ~Initialised(q)
    BY DEF Market!Orphans, Owned, Initialised
  <2>2. Owned(q) = KeysFor(q, States)
    BY <2>1 DEF MarketInv, OnChain
  <2>3. {k.role : k \in KeysFor(q, States)} = States
    <3>1. \A k \in KeysFor(q, States) : k.role \in States
      BY DEF KeysFor, Market!Key
    <3>2. \A r \in States : Market!Key(q, r) \in KeysFor(q, States) /\ Market!Key(q, r).role = r
      BY DEF KeysFor, Market!Key
    <3>3. QED
      BY <3>1, <3>2
  <2>4. Len(Market!VaultRoles) = 2
    BY DEF Market!VaultRoles
  <2>5. QED
    BY <2>1, <2>2, <2>3, <2>4, RoleKeys DEF MarketInv, OnChain, Owned
<1>2. QED
  BY <1>1, MarketInvariance, PTL

LEMMA Rounding ==
  ASSUME NEW n \in Int, NEW d \in Nat \ {0}
  PROVE  /\ Market!Round(n, d) \in Int
         /\ 2 * (Market!Round(n, d) * d - n) \in -d..d
         /\ n >= 0 => Market!Round(n, d) >= 0
<1> DEFINE r == (2 * n + d) \div (2 * d)
<1>1. /\ r \in Int /\ (2 * d) * r <= 2 * n + d /\ 2 * n + d < (2 * d) * r + 2 * d
      /\ (2 * d) * r = 2 * (r * d)
  OBVIOUS
<1>2. n >= 0 => r >= 0
  OBVIOUS
<1> HIDE DEF r
<1>3. 2 * (r * d - n) \in -d..d
  BY <1>1
<1>4. QED
  BY <1>1, <1>2, <1>3 DEF Market!Round, r

(* Whatever sizes are asked for, those of a market are positive and within *)
(* half a unit of them.                                                    *)
THEOREM SizesAreAsAsked == Market!Spec => []LotsAsAsked
<1>1. MarketInv => LotsAsAsked
  <2> SUFFICES ASSUME MarketInv, NEW m \in markets
               PROVE  /\ m.lots[1] > 0 /\ m.lots[2] > 0
                      /\ 2 * (m.lots[1] * Scale - BaseUnits * m.for.lot) \in -Scale..Scale
                      /\ 2 * (m.lots[2] * Scale * Scale - m.for.lot * QuoteUnits * m.for.tick)
                           \in -(Scale * Scale)..(Scale * Scale)
    BY DEF LotsAsAsked, Market!LotsAsAsked
  <2> DEFINE p == m.for
             n == BaseUnits * p.lot
             k == p.lot * QuoteUnits * p.tick
             d == Scale * Scale
  <2>1. /\ p \in [lot : Int, tick : Int]
        /\ m.lots[1] = Market!BaseLotSize(p) /\ m.lots[2] = Market!QuoteLotSize(p)
        /\ Market!BaseLotSize(p) # 0 /\ Market!QuoteLotSize(p) # 0
    BY DEF MarketInv, MarketTypes, Made, Sizes
  <2>2. p.lot \in Int /\ p.tick \in Int /\ p.lot > 0 /\ p.tick > 0
    BY <2>1 DEF Market!BaseLotSize, Market!QuoteLotSize
  <2>3. /\ m.lots[1] = Market!Round(n, Scale) /\ m.lots[2] = Market!Round(k, d)
        /\ m.lots[1] # 0 /\ m.lots[2] # 0
    BY <2>1, <2>2 DEF Market!BaseLotSize, Market!QuoteLotSize
  <2>4. /\ Scale \in Nat \ {0} /\ d \in Nat \ {0} /\ n \in Nat /\ k \in Nat
    <3>1. Scale \in Nat \ {0} /\ BaseUnits \in Nat \ {0} /\ QuoteUnits \in Nat \ {0}
      BY MarketConstants DEF Market!MarketAssumption
    <3>2. QED
      BY <2>2, <3>1
  <2> HIDE DEF p, n, k, d
  <2>5. /\ m.lots[1] \in Int /\ m.lots[1] >= 0 /\ 2 * (m.lots[1] * Scale - n) \in -Scale..Scale
        /\ m.lots[2] \in Int /\ m.lots[2] >= 0 /\ 2 * (m.lots[2] * d - k) \in -d..d
    <3>1. n \in Int /\ k \in Int
      BY <2>4
    <3>2. /\ Market!Round(n, Scale) \in Int /\ Market!Round(n, Scale) >= 0
          /\ 2 * (Market!Round(n, Scale) * Scale - n) \in -Scale..Scale
      BY ONLY <2>4, <3>1, Rounding
    <3>3. /\ Market!Round(k, d) \in Int /\ Market!Round(k, d) >= 0
          /\ 2 * (Market!Round(k, d) * d - k) \in -d..d
      BY ONLY <2>4, <3>1, Rounding
    <3>4. QED
      BY <2>3, <3>2, <3>3
  <2>6. m.lots[2] * d = m.lots[2] * Scale * Scale
    BY <2>4, <2>5 DEF d
  <2>7. QED
    BY <2>3, <2>5, <2>6 DEF p, n, k, d
<1>2. QED
  BY <1>1, MarketInvariance, PTL
=============================================================================
