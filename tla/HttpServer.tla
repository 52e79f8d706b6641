----------------------------- MODULE HttpServer ----------------------------
(***************************************************************************)
(* app.ts and the controllers: what becomes of a request between the socket*)
(* and the service.  A body that is no JSON is answered before anything is *)
(* counted; the limiter counts the others per client, in windows of one    *)
(* second; a controller parses the parameters, starts its service and      *)
(* answers when the service's promise settles.                             *)
(*                                                                         *)
(* Controllers are async functions and Express 4 ignores their promises.   *)
(* What throws before `Promise.resolve(...)`, the parsing, is a rejection  *)
(* that nobody handles, and Node 16 ends the process over it.  The mint    *)
(* look-up runs its whole service there, without a promise of its own.     *)
(***************************************************************************)
EXTENDS Naturals, FiniteSets, FiniteSetsExt

CONSTANTS
  Requests,  \* requests, each of which is sent again and again
  Clients,   \* the addresses they come from
  From,      \* From[q]: the client that sends q
  Kind,      \* Kind[q]: what is wrong with q, if anything
  Limit,     \* requests a client may send in a window
  Ticks      \* the instants that a second is divided into

(* "failing" parses, but asks for what the service refuses.                *)
Kinds == {"good", "failing", "unparsable", "notJSON", "noRoute"}

ASSUME ServerAssumption ==
  /\ From \in [Requests -> Clients]
  /\ Kind \in [Requests -> Kinds]
  /\ Limit \in Nat \ {0}
  /\ Ticks \in Nat \ {0}

VARIABLES
  up,      \* the process runs
  state,   \* each request: idle, handling, lost, or the status it got
  hits,    \* the limiter's count for each client
  phase,   \* how far the limiter's window has advanced
  recent,  \* history: recent[c][i], requests of c let through i instants ago
  age      \* history: how long the process has been running, up to a second

vars == <<up, state, hits, phase, recent, age>>

Init ==
  /\ up = TRUE
  /\ state = [q \in Requests |-> "idle"]
  /\ hits = [c \in Clients |-> 0]
  /\ phase = 0
  /\ recent = [c \in Clients |-> [i \in 0..Ticks - 1 |-> 0]]
  /\ age = Ticks

-----------------------------------------------------------------------------
(* The limiter.                                                            *)

(* Mutant: one too many.                                                   *)
Exceeded_Late(c) == hits[c] > Limit

Exceeded(c) == hits[c] >= Limit

Sendable(q) == up /\ state[q] # "handling"

(* Mutant: a refused request starts the window anew.                       *)
Limited_Prolongs(q) ==
  /\ Sendable(q)
  /\ Kind[q] # "notJSON"
  /\ Exceeded(From[q])
  /\ hits' = [hits EXCEPT ![From[q]] = Limit + 1]
  /\ state' = [state EXCEPT ![q] = "429"]
  /\ phase' = 0
  /\ UNCHANGED <<up, recent, age>>

(* Refused requests are counted as well; one past the limit is as good as  *)
(* many (bound).                                                           *)
Limited(q) ==
  /\ Sendable(q)
  /\ Kind[q] # "notJSON"
  /\ Exceeded(From[q])
  /\ hits' = [hits EXCEPT ![From[q]] = Limit + 1]
  /\ state' = [state EXCEPT ![q] = "429"]
  /\ UNCHANGED <<up, phase, recent, age>>

Pass(q) ==
  /\ Sendable(q)
  /\ Kind[q] # "notJSON"
  /\ ~Exceeded(From[q])
  /\ hits' = [hits EXCEPT ![From[q]] = @ + 1]
  /\ recent' = [recent EXCEPT ![From[q]][0] = @ + 1]
  /\ UNCHANGED <<phase, age>>

NotJSON(q) ==
  /\ Sendable(q)
  /\ Kind[q] = "notJSON"
  /\ state' = [state EXCEPT ![q] = "400"]
  /\ UNCHANGED <<up, hits, phase, recent, age>>

NoRoute(q) ==
  /\ Pass(q)
  /\ Kind[q] = "noRoute"
  /\ state' = [state EXCEPT ![q] = "404"]
  /\ UNCHANGED up

(* The parameters parse and the service starts.                            *)
Accept(q) ==
  /\ Pass(q)
  /\ Kind[q] \in {"good", "failing"}
  /\ state' = [state EXCEPT ![q] = "handling"]
  /\ UNCHANGED up

(* Whatever the process had in hand is lost with it.                       *)
Ended(q) == [p \in Requests |->
               IF p = q \/ state[p] = "handling" THEN "lost" ELSE state[p]]

ParseThrows(q) ==
  /\ Pass(q)
  /\ Kind[q] = "unparsable"
  /\ up' = FALSE
  /\ state' = Ended(q)

-----------------------------------------------------------------------------
(* The service's promise settles: .then answers, .catch(next) has Express  *)
(* answer with the error.                                                  *)

Succeeds(q) ==
  /\ state[q] = "handling"
  /\ Kind[q] = "good"
  /\ state' = [state EXCEPT ![q] = "200"]
  /\ UNCHANGED <<up, hits, phase, recent, age>>

(* Mutant: .catch is missing.                                              *)
Fails_Unhandled(q) ==
  /\ state[q] = "handling"
  /\ up' = FALSE
  /\ state' = Ended(q)
  /\ UNCHANGED <<hits, phase, recent, age>>

Fails(q) ==
  /\ state[q] = "handling"
  /\ state' = [state EXCEPT ![q] = "500"]
  /\ UNCHANGED <<up, hits, phase, recent, age>>

-----------------------------------------------------------------------------
(* Time passes.  The limiter forgets everything at the end of a window.    *)

Shift(r) == [i \in 0..Ticks - 1 |-> IF i = 0 THEN 0 ELSE r[i - 1]]

Older == IF age < Ticks THEN age + 1 ELSE age

WindowEnds == phase = Ticks - 1

Tick ==
  /\ recent' = [c \in Clients |-> Shift(recent[c])]
  /\ age' = Older
  /\ IF up /\ WindowEnds
       THEN phase' = 0 /\ hits' = [c \in Clients |-> 0]
       ELSE phase' = (IF up THEN phase + 1 ELSE phase) /\ UNCHANGED hits
  /\ UNCHANGED <<up, state>>

(* Whoever runs the container starts it again, with an empty limiter; that *)
(* takes an instant (bound: a process ends at most once in each).          *)
Restart ==
  /\ ~up
  /\ up' = TRUE
  /\ phase' = 0
  /\ hits' = [c \in Clients |-> 0]
  /\ recent' = [c \in Clients |-> Shift(recent[c])]
  /\ age' = 0
  /\ UNCHANGED state

-----------------------------------------------------------------------------
Next ==
  \/ \E q \in Requests : \/ Limited(q) \/ NotJSON(q) \/ NoRoute(q)
                         \/ Accept(q) \/ ParseThrows(q)
                         \/ Succeeds(q) \/ Fails(q)
  \/ Tick
  \/ Restart

Spec == Init /\ [][Next]_vars

(* What a client sends that counts, and that ends no process.              *)
Harmless(c) ==
  {q \in Requests : From[q] = c /\ Kind[q] \in {"good", "failing", "noRoute"}}

Sends(c) == \E q \in Harmless(c) : Limited(q) \/ NoRoute(q) \/ Accept(q)

(* Time passes, clients go on, and every await of a service ends, one way  *)
(* or the other: that of a node that does not answer when the connection is*)
(* given up.                                                               *)
Fairness ==
  /\ WF_vars(Tick)
  /\ \A c \in Clients : WF_vars(Sends(c))
  /\ \A q \in Requests : WF_vars(Succeeds(q) \/ Fails(q))

FairSpec == Spec /\ Fairness

-----------------------------------------------------------------------------
(* Refused requests count, and a client refused once may go on being so for*)
(* the rest of the window, but not for ever: once the process stays up,    *)
(* whoever goes on sending is let through and answered again and again,    *)
(* however many of its requests were refused and whatever the others send. *)
Answers(c) == \E q \in Harmless(c) : NoRoute(q) \/ Succeeds(q) \/ Fails(q)

ClientsGetThrough ==
  <>[]up =>
     \A c \in Clients : Harmless(c) # {} => []<><<Answers(c)>>_vars

(* Only parsing ends the process, and what is lost is lost to that: a      *)
(* service that fails answers for its own request and for no other.        *)
OnlyParsingEndsTheProcess ==
  [][\A q \in Requests :
        state[q] = "handling" /\ state'[q] \notin {"handling", "200", "500"} =>
           \E p \in Requests : Kind[p] = "unparsable" /\ state'[p] = "lost"]_vars

Through(c, n) == MapThenSumSet(LAMBDA i : recent[c][i], 0..n - 1)

(* app.ts:17 counts in fixed windows, so a client that sends around the end*)
(* of one gets more than Limit requests through in a second, but, while the*)
(* process lives, never more than twice as many.                           *)
TwiceTheLimit ==
  age = Ticks => \A c \in Clients : Through(c, Ticks) <= 2 * Limit
=============================================================================
