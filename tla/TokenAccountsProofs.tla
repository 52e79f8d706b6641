------------------------ MODULE TokenAccountsProofs ------------------------
(***************************************************************************)
(* The wallet's token accounts, and the farm whose requests look them up.  *)
(*                                                                         *)
(* TokenAccounts for every set of mints, every number of requests and      *)
(* every list of look-ups: type correctness, the agreement between what a  *)
(* handler saw and what it will create, the cause of every failure and the *)
(* refinement of EnsureAccounts.  Then SaberFarm, where creating the vault *)
(* and registering the miner go together, and SaberPool, whose requests    *)
(* wrap what they pay and unwrap what they receive.                        *)
(***************************************************************************)
EXTENDS MCSaber, SequenceTheorems, TLAPS

(* Every step keeps the types, whatever the requests look up.              *)
LEMMA TypesKept == TypeOK /\ [Next]_vars => TypeOK'
<1> SUFFICES ASSUME TypeOK, [Next]_vars
             PROVE  TypeOK'
  OBVIOUS
<1> USE DEF TypeOK, PCs
<1>1. CASE UNCHANGED vars
  BY <1>1 DEF vars
<1>2. ASSUME NEW q \in Requests, Begin(q)
      PROVE  TypeOK'
  BY <1>2 DEF Begin
<1>3. ASSUME NEW q \in Requests, Lookup(q)
      PROVE  TypeOK'
  <2>1. /\ Calls[q] \in Seq(Call)
        /\ Asked(q, idx[q]) \in Call
    BY <1>3, CallsAssumption
       DEF Lookup, LookupNative, LookupFound, LookupMissing, LookupFails,
           Awaiting, Asked
  <2>2. CASE LookupNative(q)
    BY <2>2 DEF LookupNative
  <2>3. CASE LookupFound(q)
    BY <2>1, <2>3 DEF LookupFound
  <2>4. CASE LookupMissing(q)
    BY <2>1, <2>4 DEF LookupMissing, Prepend, Call
  <2>5. CASE LookupFails(q)
    BY <2>1, <2>5 DEF LookupFails, Prepend, Call
  <2>6. QED
    BY <1>3, <2>2, <2>3, <2>4, <2>5 DEF Lookup
<1>4. ASSUME NEW q \in Requests, Answer(q) \/ Execute(q) \/ Abort(q) \/ Abandon(q)
      PROVE  TypeOK'
  BY <1>4 DEF Answer, Execute, Abort, Abandon
<1>5. ASSUME NEW m \in Mints \ {Native}, OpenElsewhere(m) \/ CloseElsewhere(m)
      PROVE  TypeOK'
  BY <1>5 DEF OpenElsewhere, CloseElsewhere
<1>6. QED
  BY <1>1, <1>2, <1>3, <1>4, <1>5 DEF Next

(* Every variable has its type in every reachable state.                   *)
THEOREM TypeCorrect == Spec => []TypeOK
<1>1. Init => TypeOK
  BY DEF Init, TypeOK, PCs
<1>2. QED
  BY <1>1, TypesKept, PTL DEF Spec

-----------------------------------------------------------------------------
(* What a handler has looked at grows by exactly the mint it awaits.       *)
LEMMA LookedGrows ==
  ASSUME TypeOK, NEW q \in Requests, Awaiting(q),
         idx' = [idx EXCEPT ![q] = @ + 1]
  PROVE  LET m == Asked(q, idx[q]).mint
         IN  /\ Looked(q)' = Looked(q) \cup ({m} \ {Native})
             /\ Kept(q)' = Kept(q) \cup (IF Asked(q, idx[q]).kept THEN {m} \ {Native} ELSE {})
             /\ m \notin Looked(q)
             /\ Kept(q) \subseteq Looked(q)
<1> DEFINE n == idx[q]
           c == Calls[q]
<1>1. /\ n \in Nat \ {0} /\ n <= Len(c)
      /\ c \in Seq(Call)
      /\ idx'[q] = n + 1
      /\ Len(c) \in Nat
  <2>1. c \in Seq(Call)
    BY CallsAssumption
  <2>2. Len(c) \in Nat
    BY <2>1
  <2>3. n \in Nat \ {0} /\ n <= Len(c) /\ idx'[q] = n + 1
    BY DEF TypeOK, Awaiting
  <2>4. QED
    BY <2>1, <2>2, <2>3
<1>2. n \in 1..Len(c) /\ c[n] \in Call
  BY <1>1
<1>3. \A i \in 1..Len(c) : i < n + 1 <=> (i < n \/ i = n)
  BY <1>1
<1>4. \A i \in 1..Len(c) : i < n => c[i].mint # c[n].mint
  BY <1>1, <1>2, CallsAssumption
<1>5. c[n].mint \in Mints
  BY <1>2 DEF Call
<1>6. Looked(q)' = Looked(q) \cup ({c[n].mint} \ {Native})
  BY <1>1, <1>2, <1>3, <1>5 DEF Looked, Asked
<1>7. Kept(q)' = Kept(q) \cup (IF c[n].kept THEN {c[n].mint} \ {Native} ELSE {})
  BY <1>1, <1>2, <1>3, <1>5 DEF Kept, Asked
<1>8. c[n].mint \notin Looked(q)
  BY <1>1, <1>4 DEF Looked, Asked
<1>9. Kept(q) \subseteq Looked(q)
  BY DEF Kept, Looked
<1>10. QED
  BY <1>6, <1>7, <1>8, <1>9 DEF Asked

(* The inductive form of CreatesMatchObservation for one request: what was *)
(* observed was looked at, and a handler answers after its last look-up.   *)
Snapshot(q) ==
  pc[q] \in {"preparing", "answered"} =>
    /\ observed[q] \subseteq Looked(q)
    /\ ~faulted[q] => creates[q] = Kept(q) \ observed[q]

(* A step that leaves q's own fields alone leaves its snapshot alone.      *)
LEMMA SnapshotFrame ==
  ASSUME NEW q, Snapshot(q),
         pc'[q] \in {"preparing", "answered"} => pc[q] \in {"preparing", "answered"},
         idx'[q] = idx[q], creates'[q] = creates[q],
         observed'[q] = observed[q], faulted'[q] = faulted[q]
  PROVE  Snapshot(q)'
<1>1. Looked(q)' = Looked(q) /\ Kept(q)' = Kept(q)
  BY DEF Looked, Kept, Asked
<1>2. QED
  BY <1>1 DEF Snapshot

(* A handler's own look-up keeps its snapshot.                             *)
LEMMA SnapshotLookup ==
  ASSUME TypeOK, NEW q \in Requests, Snapshot(q), Lookup(q)
  PROVE  Snapshot(q)'
<1> DEFINE m == Asked(q, idx[q]).mint
           keep == Asked(q, idx[q]).kept
<1>1. Awaiting(q) /\ idx' = [idx EXCEPT ![q] = @ + 1]
  BY DEF Lookup, LookupNative, LookupFound, LookupMissing, LookupFails
<1>2. /\ Looked(q)' = Looked(q) \cup ({m} \ {Native})
      /\ Kept(q)' = Kept(q) \cup (IF keep THEN {m} \ {Native} ELSE {})
      /\ m \notin Looked(q)
      /\ Kept(q) \subseteq Looked(q)
  BY <1>1, LookedGrows
<1>3. pc[q] = "preparing" /\ observed[q] \subseteq Looked(q)
  BY <1>1 DEF Awaiting, Snapshot
<1>4. ~faulted[q] => creates[q] = Kept(q) \ observed[q]
  BY <1>1 DEF Awaiting, Snapshot
<1>5. CASE LookupNative(q)
  BY <1>2, <1>3, <1>4, <1>5 DEF LookupNative, Snapshot, TypeOK
<1>6. CASE LookupFound(q)
  <2>1. observed'[q] = observed[q] \cup {m} /\ creates' = creates /\ faulted' = faulted
    BY <1>6 DEF LookupFound, TypeOK
  <2>2. m # Native
    BY <1>6 DEF LookupFound, TypeOK
  <2>3. QED
    BY <1>2, <1>3, <1>4, <2>1, <2>2 DEF Snapshot
<1>7. CASE LookupMissing(q)
  <2>1. creates'[q] = creates[q] \cup (IF keep THEN {m} ELSE {})
    BY <1>7 DEF LookupMissing, Prepend, TypeOK
  <2>2. m # Native /\ observed' = observed /\ faulted' = faulted
    BY <1>7 DEF LookupMissing
  <2>3. QED
    BY <1>2, <1>3, <1>4, <2>1, <2>2 DEF Snapshot
<1>8. CASE LookupFails(q)
  <2>1. observed'[q] = observed[q] \cup ({m} \cap accounts) /\ faulted'[q]
    BY <1>8 DEF LookupFails, TypeOK
  <2>2. m # Native
    BY <1>8 DEF LookupFails
  <2>3. QED
    BY <1>2, <1>3, <2>1, <2>2 DEF Snapshot
<1>9. QED
  BY <1>5, <1>6, <1>7, <1>8 DEF Lookup

-----------------------------------------------------------------------------
(* The whole inductive invariant: a request that has answered has made     *)
(* every look-up of its service.                                           *)
IInv ==
  /\ TypeOK
  /\ \A q \in Requests : Snapshot(q)

(* Every step of every request, and of the other wallets, keeps it.        *)
LEMMA IInvInductive == IInv /\ TypeOK' /\ [Next]_vars => IInv'
<1> SUFFICES ASSUME IInv, TypeOK', [Next]_vars, NEW r \in Requests
             PROVE  Snapshot(r)'
  BY DEF IInv
<1>1. TypeOK /\ Snapshot(r)
  BY DEF IInv
<1>2. CASE UNCHANGED vars
  BY <1>1, <1>2, SnapshotFrame DEF vars
<1>3. ASSUME NEW q \in Requests, Begin(q)
      PROVE  Snapshot(r)'
  <2>1. CASE q # r
    BY <1>1, <1>3, <2>1, SnapshotFrame DEF Begin, TypeOK
  <2>2. CASE q = r
    <3>1. idx'[r] = 1 /\ creates'[r] = {} /\ observed'[r] = {}
      BY <1>1, <1>3, <2>2 DEF Begin, TypeOK
    <3>2. Kept(r)' = {}
      BY <3>1 DEF Kept
    <3>3. QED
      BY <3>1, <3>2 DEF Snapshot
  <2>3. QED
    BY <2>1, <2>2
<1>4. ASSUME NEW q \in Requests, Lookup(q)
      PROVE  Snapshot(r)'
  <2>1. CASE q = r
    BY <1>1, <1>4, <2>1, SnapshotLookup
  <2>2. CASE q # r
    BY <1>1, <1>4, <2>2, SnapshotFrame
       DEF Lookup, LookupNative, LookupFound, LookupMissing, LookupFails,
           Prepend, TypeOK
  <2>3. QED
    BY <2>1, <2>2
<1>5. ASSUME NEW q \in Requests, Answer(q) \/ Execute(q) \/ Abort(q) \/ Abandon(q)
      PROVE  Snapshot(r)'
  <2>1. /\ pc'[r] \in {"preparing", "answered"} => pc[r] \in {"preparing", "answered"}
        /\ idx' = idx /\ creates' = creates
        /\ observed' = observed /\ faulted' = faulted
    BY <1>1, <1>5 DEF Answer, Execute, Abort, Abandon, TypeOK
  <2>2. QED
    BY <1>1, <2>1, SnapshotFrame
<1>6. ASSUME NEW m \in Mints \ {Native}, OpenElsewhere(m) \/ CloseElsewhere(m)
      PROVE  Snapshot(r)'
  BY <1>1, <1>6, SnapshotFrame DEF OpenElsewhere, CloseElsewhere
<1>7. QED
  BY <1>2, <1>3, <1>4, <1>5, <1>6 DEF Next

(* Hence the invariant holds in every reachable state.                    *)
THEOREM Invariance == Spec => []IInv
<1>1. Init => IInv
  BY DEF Init, IInv, TypeOK, PCs, Snapshot
<1>2. IInv /\ TypeOK' /\ [Next]_vars => IInv'
  BY IInvInductive
<1>3. QED
  BY <1>1, <1>2, TypeCorrect, PTL DEF Spec

(* While its look-ups succeed, a handler creates exactly what it saw       *)
(* missing, for every interleaving with the others.                        *)
THEOREM ObservationAgrees == Spec => []CreatesMatchObservation
<1>1. IInv => CreatesMatchObservation
  BY DEF IInv, Snapshot, CreatesMatchObservation
<1>2. QED
  BY <1>1, Invariance, PTL

(* A transaction the chain rejects was overtaken by a rival, prepared from *)
(* a failed look-up, or lacked a create instruction its service dropped.   *)
THEOREM FailuresAreCaused == Spec => FailureHasCause
<1> DEFINE Caused(q) ==
      pc[q] = "answered" /\ pc'[q] = "failed" =>
         \/ faulted[q]
         \/ accounts \cap Looked(q) # observed[q]
         \/ ~(Looked(q) \ Kept(q) \subseteq observed[q])
<1>1. IInv /\ [Next]_vars => [\A q \in Requests : Caused(q)]_vars
  <2> SUFFICES ASSUME IInv, Next, NEW q \in Requests,
                      pc[q] = "answered", pc'[q] = "failed"
               PROVE  Caused(q)
    BY DEF Caused
  <2>1. Abort(q)
    <3>1. ASSUME NEW r \in Requests,
                 \/ Begin(r) \/ Lookup(r) \/ Answer(r) \/ Execute(r) \/ Abandon(r)
          PROVE  FALSE
      BY <3>1 DEF Begin, Lookup, LookupNative, LookupFound, LookupMissing,
                  LookupFails, Answer, Execute, Abandon, IInv, TypeOK
    <3>2. ASSUME NEW m \in Mints \ {Native}, OpenElsewhere(m) \/ CloseElsewhere(m)
          PROVE  FALSE
      BY <3>2 DEF OpenElsewhere, CloseElsewhere
    <3>3. ASSUME NEW r \in Requests, Abort(r)
          PROVE  r = q
      BY <3>3 DEF Abort, IInv, TypeOK
    <3>4. QED
      BY <3>1, <3>2, <3>3 DEF Next
  <2>2. ~Executable(q)
    BY <2>1 DEF Abort
  <2>3. /\ observed[q] \subseteq Looked(q)
        /\ ~faulted[q] => creates[q] = Kept(q) \ observed[q]
    BY DEF IInv, Snapshot
  <2>4. Kept(q) \subseteq Looked(q)
    BY DEF Kept, Looked
  <2>5. QED
    BY <2>2, <2>3, <2>4 DEF Executable
<1>2. QED
  BY <1>1, Invariance, PTL DEF Spec, FailureHasCause
-----------------------------------------------------------------------------
(***************************************************************************)
(* TokenAccounts implements EnsureAccounts: for every set of mints, every  *)
(* number of requests and every list of look-ups, the handlers' awaits,    *)
(* races and failed reads cannot be told from requests that create all     *)
(* they want in one step or are refused for a reason.                      *)
(***************************************************************************)

(* A handler that has answered has made every look-up, and creates nothing *)
(* its service did not keep.                                               *)
Complete(q) ==
  /\ pc[q] \in {"preparing", "answered"} => creates[q] \subseteq Kept(q)
  /\ pc[q] = "answered" => idx[q] > Len(Calls[q])

(* A step that leaves q's own fields alone leaves it complete.             *)
LEMMA CompleteFrame ==
  ASSUME NEW q, Complete(q), pc'[q] = pc[q] \/ pc'[q] \notin {"preparing", "answered"},
         idx'[q] = idx[q], creates'[q] = creates[q]
  PROVE  Complete(q)'
<1>1. Kept(q)' = Kept(q)
  BY DEF Kept, Asked
<1>2. QED
  BY <1>1 DEF Complete

(* A look-up adds to creates what it adds to Kept, or nothing.             *)
LEMMA CompleteLookup ==
  ASSUME TypeOK, NEW q \in Requests, Complete(q), Lookup(q)
  PROVE  Complete(q)'
<1> DEFINE m == Asked(q, idx[q]).mint
           keep == Asked(q, idx[q]).kept
<1>1. Awaiting(q) /\ idx' = [idx EXCEPT ![q] = @ + 1] /\ pc' = pc
  BY DEF Lookup, LookupNative, LookupFound, LookupMissing, LookupFails
<1>2. Kept(q)' = Kept(q) \cup (IF keep THEN {m} \ {Native} ELSE {})
  BY <1>1, LookedGrows
<1>3. pc[q] = "preparing" /\ creates[q] \subseteq Kept(q)
  BY <1>1 DEF Awaiting, Complete
<1>4. CASE LookupNative(q) \/ LookupFound(q)
  BY <1>1, <1>2, <1>3, <1>4 DEF LookupNative, LookupFound, Complete
<1>5. CASE LookupMissing(q) \/ LookupFails(q)
  <2>1. m # Native /\ creates'[q] = creates[q] \cup (IF keep THEN {m} ELSE {})
    BY <1>5 DEF LookupMissing, LookupFails, Prepend, TypeOK
  <2>2. QED
    BY <1>1, <1>2, <1>3, <2>1 DEF Complete
<1>6. QED
  BY <1>4, <1>5 DEF Lookup

(* The invariant the refinement rests on.                                  *)
RInv == IInv /\ \A q \in Requests : Complete(q)

LEMMA CompleteInductive ==
  ASSUME RInv, [Next]_vars, NEW r \in Requests
  PROVE  Complete(r)'
<1>1. TypeOK /\ Complete(r)
  BY DEF RInv, IInv
<1>2. CASE UNCHANGED vars
  BY <1>1, <1>2, CompleteFrame DEF vars
<1>3. ASSUME NEW q \in Requests, Begin(q)
      PROVE  Complete(r)'
  <2>1. CASE q # r
    BY <1>1, <1>3, <2>1, CompleteFrame DEF Begin, TypeOK
  <2>2. CASE q = r
    BY <1>1, <1>3, <2>2 DEF Begin, TypeOK, Complete
  <2>3. QED
    BY <2>1, <2>2
<1>4. ASSUME NEW q \in Requests, Lookup(q)
      PROVE  Complete(r)'
  <2>1. CASE q = r
    BY <1>1, <1>4, <2>1, CompleteLookup
  <2>2. CASE q # r
    BY <1>1, <1>4, <2>2, CompleteFrame
       DEF Lookup, LookupNative, LookupFound, LookupMissing, LookupFails,
           Prepend, TypeOK
  <2>3. QED
    BY <2>1, <2>2
<1>5. ASSUME NEW q \in Requests, Answer(q)
      PROVE  Complete(r)'
  <2>1. CASE q # r
    BY <1>1, <1>5, <2>1, CompleteFrame DEF Answer, TypeOK
  <2>2. CASE q = r
    <3>1. Kept(r)' = Kept(r)
      BY <1>5 DEF Answer, Kept, Asked
    <3>2. QED
      BY <1>1, <1>5, <2>2, <3>1 DEF Answer, TypeOK, Complete
  <2>3. QED
    BY <2>1, <2>2
<1>6. ASSUME NEW q \in Requests, Execute(q) \/ Abort(q) \/ Abandon(q)
      PROVE  Complete(r)'
  <2>1. /\ pc'[r] = pc[r] \/ pc'[r] \notin {"preparing", "answered"}
        /\ idx' = idx /\ creates' = creates
    BY <1>1, <1>6 DEF Execute, Abort, Abandon, TypeOK
  <2>2. QED
    BY <1>1, <2>1, CompleteFrame
<1>7. ASSUME NEW m \in Mints \ {Native}, OpenElsewhere(m) \/ CloseElsewhere(m)
      PROVE  Complete(r)'
  BY <1>1, <1>7, CompleteFrame DEF OpenElsewhere, CloseElsewhere
<1>8. QED
  BY <1>2, <1>3, <1>4, <1>5, <1>6, <1>7 DEF Next

(* It holds in every reachable state.                                      *)
THEOREM RefinementInvariance == Spec => []RInv
<1>1. Init => \A q \in Requests : Complete(q)
  BY DEF Init, Complete
<1>2. IInv' /\ RInv /\ [Next]_vars => RInv'
  BY CompleteInductive DEF RInv
<1>3. Init => IInv
  BY DEF Init, IInv, TypeOK, PCs, Snapshot
<1>4. QED
  BY <1>1, <1>2, <1>3, Invariance, PTL DEF Spec, RInv

-----------------------------------------------------------------------------
(* Once every look-up is made, what was looked at is all there is.         *)
LEMMA AllMade ==
  ASSUME TypeOK, NEW q \in Requests, idx[q] > Len(Calls[q])
  PROVE  Looked(q) = AllLooked(q) /\ Kept(q) = AllKept(q)
<1>1. Len(Calls[q]) \in Nat /\ idx[q] \in Nat
  BY CallsAssumption DEF TypeOK
<1>2. \A i \in 1..Len(Calls[q]) : i < idx[q]
  BY <1>1
<1>3. QED
  BY <1>2 DEF Looked, Kept, AllLooked, AllKept, Asked

(* A request's own state keeps its abstract state, and the accounts it     *)
(* reads keep it from going stale.                                         *)
LEMMA ViewFrame ==
  ASSUME NEW p, pc'[p] = pc[p], faulted'[p] = faulted[p], observed'[p] = observed[p]
  PROVE  /\ StateOf(p)' = StateOf(p)
         /\ accounts' \cap AllLooked(p) = accounts \cap AllLooked(p) => Stale(p)' = Stale(p)
<1>1. StateOf(p)' = StateOf(p)
  BY DEF StateOf
<1>2. AllLooked(p)' = AllLooked(p) /\ AllKept(p)' = AllKept(p)
  BY DEF AllLooked, AllKept
<1>3. accounts' \cap AllLooked(p) = accounts \cap AllLooked(p) => Stale(p)' = Stale(p)
  BY <1>2 DEF Stale
<1>4. QED
  BY <1>1, <1>3

(* The abstract states a request moves between.                            *)
LEMMA Outcomes ==
  /\ Outcome["idle"] = "none"
  /\ Outcome["preparing"] = "none"
  /\ Outcome["answered"] = "prepared"
  /\ Outcome["done"] = "executed"
  /\ Outcome["failed"] = "refused"
BY DEF Outcome

(* What a step of request q, which leaves the chain alone, does to the two *)
(* maps: only q's entries can change.                                      *)
LEMMA OwnStep ==
  ASSUME TypeOK, NEW q \in Requests, NEW s, NEW b,
         pc' \in [Requests -> PCs],
         \A p \in Requests \ {q} : /\ pc'[p] = pc[p]
                                   /\ faulted'[p] = faulted[p]
                                   /\ observed'[p] = observed[p],
         accounts' = accounts, Outcome[pc'[q]] = s, Stale(q)' = b
  PROVE  /\ StateMap' = [StateMap EXCEPT ![q] = s]
         /\ StaleMap' = [StaleMap EXCEPT ![q] = b]
<1>1. \A p \in Requests \ {q} : StateOf(p)' = StateOf(p) /\ Stale(p)' = Stale(p)
  BY ViewFrame
<1>2. StateOf(q)' = s
  BY DEF StateOf
<1>3. QED
  BY <1>1, <1>2 DEF StateMap, StaleMap

(* A step that changes accounts touches the freshness of those only that   *)
(* read the accounts it changed.                                           *)
LEMMA OthersFrame ==
  ASSUME NEW S \in SUBSET Requests,
         \A p \in Requests \ S : /\ pc'[p] = pc[p]
                                 /\ faulted'[p] = faulted[p]
                                 /\ observed'[p] = observed[p]
  PROVE  Ensure!OthersStayFresh(S)
<1> SUFFICES ASSUME NEW p \in Requests \ S,
                    accounts' \cap AllLooked(p)' = accounts \cap AllLooked(p)
             PROVE  StaleMap'[p] = StaleMap[p]
  BY DEF Ensure!OthersStayFresh, AllLooked
<1>1. AllLooked(p)' = AllLooked(p)
  BY DEF AllLooked
<1>2. Stale(p)' = Stale(p)
  BY <1>1, ViewFrame
<1>3. QED
  BY <1>2 DEF StaleMap

LEMMA StaleTyped ==
  /\ StaleMap \in [Requests -> BOOLEAN]
  /\ StaleMap' \in [Requests -> BOOLEAN]
BY DEF StaleMap, Stale

-----------------------------------------------------------------------------
(* Each step of TokenAccounts is the step of EnsureAccounts that bears the *)
(* same meaning, or none.                                                  *)
LEMMA BeginAsks ==
  ASSUME RInv, RInv', NEW q \in Requests, Begin(q)
  PROVE  Ensure!Ask(q)
<1>1. pc[q] \in {"idle", "done", "failed"} /\ pc'[q] = "preparing" /\ accounts' = accounts
  BY DEF Begin, RInv, IInv, TypeOK
<1>2. ~Stale(q) /\ ~Stale(q)'
  BY <1>1 DEF Stale
<1>3. /\ StateMap' = [StateMap EXCEPT ![q] = "none"]
      /\ StaleMap' = [StaleMap EXCEPT ![q] = FALSE]
  <2>1. \A p \in Requests \ {q} : /\ pc'[p] = pc[p]
                                  /\ faulted'[p] = faulted[p]
                                  /\ observed'[p] = observed[p]
    BY DEF Begin, RInv, IInv, TypeOK
  <2>2. Stale(q)' = FALSE
    BY <1>2 DEF Stale
  <2>3. QED
    BY <1>1, <2>1, <2>2, OwnStep, Outcomes DEF RInv, IInv, TypeOK
<1>4. StaleMap' = StaleMap
  BY <1>2, <1>3 DEF StaleMap, Stale
<1>5. StateMap[q] \in {"none", "executed", "refused"}
  BY <1>1, Outcomes DEF StateMap, StateOf
<1>6. QED
  BY <1>1, <1>3, <1>4, <1>5 DEF Ensure!Ask, Ensure!Move

LEMMA LookupStutters ==
  ASSUME RInv, RInv', NEW q \in Requests, Lookup(q)
  PROVE  UNCHANGED Ensure!vars
<1>1. /\ pc[q] = "preparing" /\ pc' = pc /\ accounts' = accounts
      /\ \A p \in Requests \ {q} : faulted'[p] = faulted[p] /\ observed'[p] = observed[p]
  BY DEF Lookup, LookupNative, LookupFound, LookupMissing, LookupFails,
         Awaiting, RInv, IInv, TypeOK
<1>2. ~Stale(q) /\ Stale(q)' = FALSE
  BY <1>1 DEF Stale
<1>3. /\ StateMap' = [StateMap EXCEPT ![q] = "none"]
      /\ StaleMap' = [StaleMap EXCEPT ![q] = FALSE]
  BY <1>1, <1>2, OwnStep, Outcomes DEF RInv, IInv, TypeOK
<1>4. StateMap' = StateMap /\ StaleMap' = StaleMap
  BY <1>1, <1>2, <1>3, Outcomes DEF StateMap, StaleMap, StateOf, Stale
<1>5. QED
  BY <1>1, <1>4 DEF Ensure!vars

LEMMA AnswerPrepares ==
  ASSUME RInv, RInv', NEW q \in Requests, Answer(q)
  PROVE  Ensure!Prepare(q)
<1>1. /\ pc[q] = "preparing" /\ pc' = [pc EXCEPT ![q] = "answered"]
      /\ accounts' = accounts /\ observed' = observed /\ faulted' = faulted
      /\ pc'[q] = "answered"
  BY DEF Answer, RInv, IInv, TypeOK
<1>2. /\ StateMap' = [StateMap EXCEPT ![q] = "prepared"]
      /\ StaleMap' = [StaleMap EXCEPT ![q] = Stale(q)']
  BY <1>1, OwnStep, Outcomes DEF RInv, IInv, TypeOK
<1>3. StateMap[q] = "none" /\ Stale(q)' \in BOOLEAN
  BY <1>1, Outcomes DEF StateMap, StateOf, Stale
<1>4. QED
  BY <1>1, <1>2, <1>3 DEF Ensure!Prepare, Ensure!Move

LEMMA ExecuteExecutes ==
  ASSUME RInv, RInv', NEW q \in Requests, Execute(q)
  PROVE  Ensure!Execute(q)
<1>1. /\ pc[q] = "answered" /\ pc' = [pc EXCEPT ![q] = "done"] /\ pc'[q] = "done"
      /\ accounts' = accounts \cup creates[q] /\ Executable(q)
      /\ observed' = observed /\ faulted' = faulted
  BY DEF Execute, RInv, IInv, TypeOK
<1>2. Looked(q) = AllLooked(q) /\ Kept(q) = AllKept(q)
  BY <1>1, AllMade DEF RInv, IInv, Complete
<1>3. creates[q] \subseteq Kept(q) /\ Kept(q) \subseteq Looked(q)
  BY <1>1 DEF RInv, Complete, Kept, Looked
<1>4. accounts' = accounts \cup AllKept(q)
  BY <1>1, <1>2, <1>3 DEF Executable
<1>5. /\ StateMap' = [StateMap EXCEPT ![q] = "executed"]
      /\ StateMap[q] = "prepared"
  <2>1. \A p \in Requests \ {q} : StateOf(p)' = StateOf(p)
    BY <1>1 DEF StateOf
  <2>2. StateOf(q)' = "executed" /\ StateOf(q) = "prepared"
    BY <1>1, Outcomes DEF StateOf
  <2>3. QED
    BY <2>1, <2>2 DEF StateMap
<1>6. Ensure!OthersStayFresh({q})
  BY <1>1, OthersFrame DEF RInv, IInv, TypeOK
<1>7. ~StaleMap'[q]
  BY <1>1 DEF StaleMap, Stale
<1>8. QED
  BY <1>4, <1>5, <1>6, <1>7, StaleTyped DEF Ensure!Execute, Ensure!Move

LEMMA AbortRefuses ==
  ASSUME RInv, RInv', NEW q \in Requests, Abort(q)
  PROVE  Ensure!Refuse(q)
<1>1. /\ pc[q] = "answered" /\ pc' = [pc EXCEPT ![q] = "failed"] /\ pc'[q] = "failed"
      /\ accounts' = accounts /\ ~Executable(q)
      /\ observed' = observed /\ faulted' = faulted
  BY DEF Abort, RInv, IInv, TypeOK
<1>2. Looked(q) = AllLooked(q) /\ Kept(q) = AllKept(q)
  BY <1>1, AllMade DEF RInv, IInv, Complete
<1>3. /\ observed[q] \subseteq Looked(q)
      /\ ~faulted[q] => creates[q] = Kept(q) \ observed[q]
      /\ Kept(q) \subseteq Looked(q)
  BY <1>1 DEF RInv, IInv, Snapshot, Kept, Looked
<1>4. Stale(q)
  BY <1>1, <1>2, <1>3 DEF Stale, Executable
<1>5. Stale(q)' = FALSE
  BY <1>1 DEF Stale
<1>6. /\ StateMap' = [StateMap EXCEPT ![q] = "refused"]
      /\ StaleMap' = [StaleMap EXCEPT ![q] = FALSE]
  BY <1>1, <1>5, OwnStep, Outcomes DEF RInv, IInv, TypeOK
<1>7. StateMap[q] = "prepared" /\ StaleMap[q]
  BY <1>1, <1>4, Outcomes DEF StateMap, StaleMap, StateOf
<1>8. QED
  BY <1>1, <1>6, <1>7 DEF Ensure!Refuse, Ensure!Move

LEMMA AbandonForgets ==
  ASSUME RInv, RInv', NEW q \in Requests, Abandon(q)
  PROVE  Ensure!Forget(q)
<1>1. /\ pc[q] = "answered" /\ pc' = [pc EXCEPT ![q] = "idle"] /\ pc'[q] = "idle"
      /\ accounts' = accounts /\ observed' = observed /\ faulted' = faulted
  BY DEF Abandon, RInv, IInv, TypeOK
<1>2. Stale(q)' = FALSE
  BY <1>1 DEF Stale
<1>3. /\ StateMap' = [StateMap EXCEPT ![q] = "none"]
      /\ StaleMap' = [StaleMap EXCEPT ![q] = FALSE]
  BY <1>1, <1>2, OwnStep, Outcomes DEF RInv, IInv, TypeOK
<1>4. StateMap[q] = "prepared"
  BY <1>1, Outcomes DEF StateMap, StateOf
<1>5. QED
  BY <1>1, <1>3, <1>4 DEF Ensure!Forget, Ensure!Move

LEMMA ElsewhereIsElsewhere ==
  ASSUME RInv, RInv', NEW m \in Mints \ {Native}, OpenElsewhere(m) \/ CloseElsewhere(m)
  PROVE  Ensure!Elsewhere
<1>1. /\ accounts' \subseteq Mints \ {Native}
      /\ pc' = pc /\ observed' = observed /\ faulted' = faulted
  BY DEF OpenElsewhere, CloseElsewhere, RInv, IInv, TypeOK
<1>2. StateMap' = StateMap
  BY <1>1 DEF StateMap, StateOf
<1>3. Ensure!OthersStayFresh({})
  BY <1>1, OthersFrame
<1>4. QED
  BY <1>1, <1>2, <1>3, StaleTyped DEF Ensure!Elsewhere

-----------------------------------------------------------------------------
(* TokenAccounts implements EnsureAccounts, whatever the mints, requests   *)
(* and look-ups are: an executed answer adds exactly the accounts it was   *)
(* asked for, and an answer that nothing interfered with is not refused.   *)
THEOREM Refinement == Spec => ImplementsEnsure
<1>1. Init => Ensure!Init
  <2> SUFFICES ASSUME Init
               PROVE  Ensure!Init
    OBVIOUS
  <2>1. accounts \subseteq Mints \ {Native}
    BY DEF Init
  <2>2. StateMap = [q \in Requests |-> "none"]
    BY Outcomes DEF Init, StateMap, StateOf
  <2>3. StaleMap = [q \in Requests |-> FALSE]
    BY DEF Init, StaleMap, Stale
  <2>4. QED
    BY <2>1, <2>2, <2>3 DEF Ensure!Init
<1>2. RInv /\ RInv' /\ [Next]_vars => [Ensure!Next]_(Ensure!vars)
  <2> SUFFICES ASSUME RInv, RInv', [Next]_vars
               PROVE  [Ensure!Next]_(Ensure!vars)
    OBVIOUS
  <2>1. CASE UNCHANGED vars
    BY <2>1 DEF vars, Ensure!vars, StateMap, StaleMap, StateOf, Stale, AllLooked, AllKept
  <2>2. ASSUME NEW q \in Requests, Begin(q) \/ Answer(q) \/ Execute(q) \/ Abort(q) \/ Abandon(q)
        PROVE  Ensure!Next
    <3>1. \/ Ensure!Ask(q) \/ Ensure!Prepare(q) \/ Ensure!Execute(q)
          \/ Ensure!Refuse(q) \/ Ensure!Forget(q)
      BY <2>2, BeginAsks, AnswerPrepares, ExecuteExecutes, AbortRefuses, AbandonForgets
    <3>2. QED
      BY <3>1 DEF Ensure!Next
  <2>3. ASSUME NEW q \in Requests, Lookup(q)
        PROVE  UNCHANGED Ensure!vars
    BY <2>3, LookupStutters
  <2>4. ASSUME NEW m \in Mints \ {Native}, OpenElsewhere(m) \/ CloseElsewhere(m)
        PROVE  Ensure!Next
    BY <2>4, ElsewhereIsElsewhere DEF Ensure!Next
  <2>5. QED
    BY <2>1, <2>2, <2>3, <2>4 DEF Next
<1>3. QED
  BY <1>1, <1>2, RefinementInvariance, PTL DEF Spec, Ensure!Spec, ImplementsEnsure
-----------------------------------------------------------------------------
(***************************************************************************)
(* SaberFarm for any number of requests and tokens: a missing vault stands *)
(* for a missing miner, and what the chain refuses has a reason.           *)
(***************************************************************************)

(* The kinds and the two reward accounts, as the proofs need them.         *)
LEMMA Constants ==
  /\ \A q \in Requests : Kind[q] \in {"deposit", "withdraw", "harvest"}
  /\ MaxTokens \in Nat
BY FarmAssumption DEF Kinds

(* A handler's steps leave the farm alone, and only add to its own list.   *)
LEMMA HandleFrame ==
  ASSUME NEW q \in Requests, Handle(q)
  PROVE  accounts' = accounts /\ UNCHANGED farm
BY DEF Handle, Ask, Begin, Lookup, LookupNative, LookupFound, LookupMissing,
       LookupFails, Answer, Reject, Abandon

(* A vault without a miner is somebody else's work, in every reachable     *)
(* state.                                                                  *)
THEOREM VaultComesWithMiner == FarmSpec => []MinerAndVault
<1>1. FarmInit => MinerAndVault
  BY DEF FarmInit, MinerAndVault
<1>2. MinerAndVault /\ [FarmNext]_farmVars => MinerAndVault'
  <2> SUFFICES ASSUME MinerAndVault, [FarmNext]_farmVars
               PROVE  MinerAndVault'
    OBVIOUS
  <2> USE DEF MinerAndVault
  <2>1. CASE UNCHANGED farmVars
    BY <2>1 DEF farmVars, vars, farm
  <2>2. ASSUME NEW q \in Requests, Handle(q)
        PROVE  MinerAndVault'
    BY <2>2, HandleFrame DEF farm
  <2>3. ASSUME NEW q \in Requests, FarmExecute(q)
        PROVE  MinerAndVault'
    <3>1. accounts' = accounts \cup creates[q] /\ FarmAccepts(q)
      BY <2>3 DEF FarmExecute, Execute
    <3>2. CASE Kind[q] = "deposit"
      <4>1. miner' = TRUE /\ usurped' = usurped
        BY <2>3, <3>2 DEF FarmExecute, Stake, Unstake, Harvest
      <4>2. miner <=> ~RegistersMiner(q)
        BY <3>1, <3>2 DEF FarmAccepts
      <4>3. "vault" \in accounts \cup creates[q]
        BY <4>2, <3>2 DEF RegistersMiner
      <4>4. QED
        BY <3>1, <4>1, <4>3
    <3>3. CASE Kind[q] # "deposit"
      <4>1. Kind[q] = "withdraw" \/ Kind[q] = "harvest"
        BY <3>3, Constants
      <4>2. miner /\ miner' = miner
        BY <2>3, <3>1, <4>1 DEF FarmExecute, FarmAccepts, Stake, Unstake, Harvest
      <4>3. QED
        BY <3>1, <4>2
    <3>4. QED
      BY <3>2, <3>3
  <2>4. ASSUME NEW q \in Requests, FarmRefuse(q)
        PROVE  MinerAndVault'
    BY <2>4 DEF FarmRefuse, farm
  <2>5. ASSUME NEW m \in Mints \ {Native}, FarmOpenElsewhere(m)
        PROVE  MinerAndVault'
    BY <2>5 DEF FarmOpenElsewhere, OpenElsewhere
  <2>6. ASSUME NEW m \in Mints \ {Native}, FarmCloseElsewhere(m)
        PROVE  MinerAndVault'
    BY <2>6 DEF FarmCloseElsewhere, CloseElsewhere, farm
  <2>7. CASE RegisterElsewhere
    BY <2>7 DEF RegisterElsewhere
  <2>8. CASE ClaimElsewhere \/ Accrue
    BY <2>8 DEF ClaimElsewhere, Accrue, vars
  <2>9. QED
    BY <2>1, <2>2, <2>3, <2>4, <2>5, <2>6, <2>7, <2>8 DEF FarmNext
<1>3. QED
  BY <1>1, <1>2, PTL DEF FarmSpec

(* An executed answer that registers the miner creates the vault too; the  *)
(* chain would not run it were the vault there.                            *)
THEOREM RegistersOnlyWithVault == FarmSpec => MinerOnlyWithVault
<1> DEFINE A == \A q \in Requests :
                  pc[q] = "answered" /\ pc'[q] = "done" /\ miner' # miner =>
                     "vault" \notin accounts
<1>1. [FarmNext]_farmVars => [A]_farmVars
  <2> SUFFICES ASSUME FarmNext, NEW q \in Requests,
                      pc[q] = "answered", pc'[q] = "done", miner' # miner
               PROVE  "vault" \notin accounts
    OBVIOUS
  <2>1. ASSUME NEW r \in Requests, Handle(r)
        PROVE  FALSE
    BY <2>1, HandleFrame DEF farm
  <2>2. ASSUME NEW r \in Requests, FarmRefuse(r)
        PROVE  FALSE
    BY <2>2 DEF FarmRefuse, farm
  <2>3. ASSUME NEW m \in Mints \ {Native}, FarmOpenElsewhere(m) \/ FarmCloseElsewhere(m)
        PROVE  FALSE
    BY <2>3 DEF FarmOpenElsewhere, FarmCloseElsewhere, farm
  <2>4. CASE RegisterElsewhere
    BY <2>4 DEF RegisterElsewhere
  <2>5. CASE ClaimElsewhere \/ Accrue
    BY <2>5 DEF ClaimElsewhere, Accrue
  <2>6. ASSUME NEW r \in Requests, FarmExecute(r)
        PROVE  "vault" \notin accounts
    <3>1. Kind[r] = "deposit"
      BY <2>6, Constants DEF FarmExecute, Stake, Unstake, Harvest
    <3>2. miner' = TRUE /\ FarmAccepts(r) /\ Executable(r)
      BY <2>6, <3>1 DEF FarmExecute, Execute, Stake, Unstake, Harvest
    <3>3. miner <=> ~RegistersMiner(r)
      BY <3>1, <3>2 DEF FarmAccepts
    <3>4. "vault" \in creates[r]
      BY <3>2, <3>3 DEF RegistersMiner
    <3>5. QED
      BY <3>2, <3>4 DEF Executable
  <2>7. QED
    BY <2>1, <2>2, <2>3, <2>4, <2>5, <2>6 DEF FarmNext
<1>2. QED
  BY <1>1, PTL DEF FarmSpec, MinerOnlyWithVault

-----------------------------------------------------------------------------
(* The handlers' snapshots are those of TokenAccounts; besides, whoever has*)
(* answered has looked everything up, and the wallet's pool tokens never   *)
(* run below zero.                                                         *)
FarmInv ==
  /\ IInv
  /\ MinerAndVault
  /\ pool \in [wallet : Nat, staked : Nat]
  /\ \A q \in Requests : pc[q] = "answered" => idx[q] > Len(Calls[q])

LEMMA VaultIsAMint == "vault" \in Mints \ {Native}
BY FarmAssumption

(* Every step of the farm is one of TokenAccounts', or changes no request's*)
(* snapshot.                                                               *)
LEMMA FarmSnapshots == IInv /\ [FarmNext]_farmVars => IInv'
<1> SUFFICES ASSUME IInv, [FarmNext]_farmVars
             PROVE  IInv'
  OBVIOUS
<1>1. TypeOK /\ \A r \in Requests : Snapshot(r)
  BY DEF IInv
<1>2. CASE [Next]_vars
  BY <1>1, <1>2, TypesKept, IInvInductive
<1>3. ASSUME NEW q \in Requests, Reject(q) \/ FarmRefuse(q)
      PROVE  IInv'
  <2>1. /\ pc' = [pc EXCEPT ![q] = "failed"]
        /\ UNCHANGED <<accounts, idx, creates, observed, faulted>>
    BY <1>3 DEF Reject, FarmRefuse
  <2>2. TypeOK'
    BY <1>1, <2>1 DEF TypeOK, PCs
  <2>3. ASSUME NEW r \in Requests PROVE Snapshot(r)'
    <3>1. pc'[r] \in {"preparing", "answered"} => pc[r] \in {"preparing", "answered"}
      BY <1>1, <2>1 DEF TypeOK
    <3>2. QED
      BY <1>1, <2>1, <3>1, SnapshotFrame
  <2>4. QED
    BY <2>2, <2>3 DEF IInv
<1>4. CASE RegisterElsewhere
  <2>1. TypeOK'
    BY <1>1, <1>4, VaultIsAMint DEF RegisterElsewhere, TypeOK
  <2>2. ASSUME NEW r \in Requests PROVE Snapshot(r)'
    BY <1>1, <1>4, SnapshotFrame DEF RegisterElsewhere
  <2>3. QED
    BY <2>1, <2>2 DEF IInv
<1>5. ASSUME NEW q \in Requests, Handle(q), ~Reject(q)
      PROVE  [Next]_vars
  BY <1>5 DEF Handle, Ask, Next
<1>6. ASSUME NEW q \in Requests, FarmExecute(q)
      PROVE  [Next]_vars
  BY <1>6 DEF FarmExecute, Next
<1>7. ASSUME NEW m \in Mints \ {Native}, FarmOpenElsewhere(m) \/ FarmCloseElsewhere(m)
      PROVE  [Next]_vars
  BY <1>7 DEF FarmOpenElsewhere, FarmCloseElsewhere, Next
<1>8. CASE ClaimElsewhere \/ Accrue \/ UNCHANGED farmVars
  <2>1. UNCHANGED vars
    BY <1>8 DEF ClaimElsewhere, Accrue, farmVars
  <2>2. QED
    BY <1>2, <2>1
<1>9. QED
  BY <1>2, <1>3, <1>4, <1>5, <1>6, <1>7, <1>8 DEF FarmNext

LEMMA FarmCounters ==
  FarmInv /\ [FarmNext]_farmVars =>
    /\ pool' \in [wallet : Nat, staked : Nat]
    /\ \A q \in Requests : pc'[q] = "answered" => idx'[q] > Len(Calls[q])
<1> SUFFICES ASSUME FarmInv, [FarmNext]_farmVars
             PROVE  /\ pool' \in [wallet : Nat, staked : Nat]
                    /\ \A q \in Requests : pc'[q] = "answered" => idx'[q] > Len(Calls[q])
  OBVIOUS
<1>1. /\ pc \in [Requests -> PCs] /\ pool \in [wallet : Nat, staked : Nat]
      /\ idx \in [Requests -> Nat \ {0}]
      /\ \A q \in Requests : pc[q] = "answered" => idx[q] > Len(Calls[q])
  BY DEF FarmInv, IInv, TypeOK
<1>2. CASE UNCHANGED farmVars \/ RegisterElsewhere \/ ClaimElsewhere \/ Accrue
  BY <1>1, <1>2 DEF farmVars, farm, vars, RegisterElsewhere, ClaimElsewhere, Accrue
<1>3. ASSUME NEW m \in Mints \ {Native}, FarmOpenElsewhere(m) \/ FarmCloseElsewhere(m)
      PROVE  UNCHANGED <<pc, idx, pool>>
  BY <1>3 DEF FarmOpenElsewhere, FarmCloseElsewhere, OpenElsewhere, CloseElsewhere, farm
<1>4. ASSUME NEW q \in Requests, FarmRefuse(q)
      PROVE  pc' = [pc EXCEPT ![q] = "failed"] /\ UNCHANGED <<idx, pool>>
  BY <1>4 DEF FarmRefuse, farm
<1>5. ASSUME NEW q \in Requests, FarmExecute(q)
      PROVE  /\ pool' \in [wallet : Nat, staked : Nat]
             /\ pc' = [pc EXCEPT ![q] = "done"] /\ idx' = idx
  <2>1. pc' = [pc EXCEPT ![q] = "done"] /\ idx' = idx
    BY <1>5 DEF FarmExecute, Execute
  <2>2. CASE Kind[q] = "deposit"
    <3>1. /\ pool' = [wallet |-> pool.wallet - 1, staked |-> pool.staked + 1]
          /\ pool.wallet > 0
      BY <1>5, <2>2 DEF FarmExecute, FarmAccepts, Stake, Unstake, Harvest
    <3>2. QED
      BY <1>1, <2>1, <3>1
  <2>3. CASE Kind[q] = "withdraw"
    <3>1. /\ pool' = [wallet |-> pool.wallet + 1, staked |-> pool.staked - 1]
          /\ pool.staked > 0
      BY <1>5, <2>3 DEF FarmExecute, FarmAccepts, Stake, Unstake, Harvest
    <3>2. QED
      BY <1>1, <2>1, <3>1
  <2>4. CASE Kind[q] = "harvest"
    BY <1>1, <1>5, <2>1, <2>4 DEF FarmExecute, Stake, Unstake, Harvest
  <2>5. QED
    BY <2>2, <2>3, <2>4, Constants
<1>6. ASSUME NEW q \in Requests, Handle(q)
      PROVE  /\ pool' = pool
             /\ \A r \in Requests : pc'[r] = "answered" => idx'[r] > Len(Calls[r])
  <2>1. pool' = pool
    BY <1>6 DEF Handle, farm
  <2>2. CASE Begin(q) \/ Reject(q) \/ Abandon(q)
    BY <1>1, <2>1, <2>2 DEF Begin, Reject, Abandon
  <2>3. CASE Lookup(q)
    <3>1. /\ pc[q] = "preparing" /\ pc' = pc /\ idx' = [idx EXCEPT ![q] = @ + 1]
      BY <2>3 DEF Lookup, LookupNative, LookupFound, LookupMissing, LookupFails, Awaiting
    <3>2. QED
      BY <1>1, <2>1, <3>1
  <2>4. CASE Answer(q)
    BY <1>1, <2>1, <2>4 DEF Answer
  <2>5. QED
    BY <1>6, <2>1, <2>2, <2>3, <2>4 DEF Handle, Ask
<1>7. QED
  BY <1>1, <1>2, <1>3, <1>4, <1>5, <1>6 DEF FarmNext

(* The vault is among what a deposit looks up, and farm requests drop no   *)
(* create instruction.                                                     *)
LEMMA FarmLookups ==
  ASSUME NEW q \in Requests, idx[q] \in Nat, idx[q] > Len(Calls[q])
  PROVE  /\ Kept(q) = Looked(q)
         /\ Kind[q] = "deposit" => "vault" \in Looked(q)
<1>1. Calls[q] = Lookups[Kind[q]] /\ Kind[q] \in Kinds
  BY FarmAssumption
<1>2. \A i \in 1..Len(Calls[q]) : Calls[q][i].kept
  BY <1>1 DEF Kinds, Lookups
<1>3. Kept(q) = Looked(q)
  BY <1>2 DEF Kept, Looked, Asked
<1>4. ASSUME Kind[q] = "deposit" PROVE "vault" \in Looked(q)
  <2>1. Len(Calls[q]) = 1 /\ Calls[q][1].mint = "vault"
    BY <1>1, <1>4 DEF Lookups
  <2>2. QED
    BY <2>1, VaultIsAMint DEF Looked, Asked
<1>5. QED
  BY <1>3, <1>4

THEOREM FarmInvariance == FarmSpec => []FarmInv
<1>1. FarmInit => FarmInv
  <2> SUFFICES ASSUME FarmInit
               PROVE  FarmInv
    OBVIOUS
  <2>1. IInv
    BY DEF FarmInit, Init, IInv, TypeOK, PCs, Snapshot
  <2>2. MinerAndVault
    BY DEF FarmInit, MinerAndVault
  <2>3. QED
    BY <2>1, <2>2, Constants DEF FarmInit, Init, FarmInv
<1>2. FarmInv /\ [FarmNext]_farmVars /\ MinerAndVault' => FarmInv'
  BY FarmSnapshots, FarmCounters DEF FarmInv
<1>3. QED
  BY <1>1, <1>2, VaultComesWithMiner, PTL DEF FarmSpec

(* What the chain refuses was overtaken, misread, unaffordable, without a  *)
(* miner, or met a vault that somebody opened without registering one; in  *)
(* particular an answer that registers the miner is never refused for that.*)
THEOREM FarmRefusalsAreExplained == FarmSpec => FarmRefusalExplained
<1> DEFINE Explained(q) ==
      pc[q] = "answered" /\ pc'[q] = "failed" =>
         \/ faulted[q]
         \/ accounts \cap Looked(q) # observed[q]
         \/ Kind[q] = "deposit" /\ (pool.wallet = 0 \/ (usurped /\ ~miner))
         \/ Kind[q] = "withdraw" /\ (pool.staked = 0 \/ ~miner \/ "lp" \notin accounts)
         \/ Kind[q] = "harvest" /\ ~miner
<1>1. FarmInv /\ [FarmNext]_farmVars => [\A q \in Requests : Explained(q)]_farmVars
  <2> SUFFICES ASSUME FarmInv, FarmNext, NEW q \in Requests,
                      pc[q] = "answered", pc'[q] = "failed",
                      ~faulted[q], accounts \cap Looked(q) = observed[q]
               PROVE  \/ Kind[q] = "deposit" /\ (pool.wallet = 0 \/ (usurped /\ ~miner))
                      \/ Kind[q] = "withdraw" /\ (pool.staked = 0 \/ ~miner \/ "lp" \notin accounts)
                      \/ Kind[q] = "harvest" /\ ~miner
    BY DEF Explained
  <2>1. FarmRefuse(q)
    <3>1. pc \in [Requests -> PCs]
      BY DEF FarmInv, IInv, TypeOK
    <3>2. ASSUME NEW r \in Requests, Handle(r) \/ FarmExecute(r)
          PROVE  FALSE
      BY <3>1, <3>2 DEF Handle, Ask, Begin, Lookup, LookupNative, LookupFound, LookupMissing,
                  LookupFails, Answer, Reject, Abandon, FarmExecute, Execute
    <3>3. ASSUME NEW m \in Mints \ {Native}, FarmOpenElsewhere(m) \/ FarmCloseElsewhere(m)
          PROVE  FALSE
      BY <3>3 DEF FarmOpenElsewhere, FarmCloseElsewhere, OpenElsewhere, CloseElsewhere
    <3>4. CASE RegisterElsewhere \/ ClaimElsewhere \/ Accrue
      BY <3>4 DEF RegisterElsewhere, ClaimElsewhere, Accrue, vars
    <3>5. ASSUME NEW r \in Requests, FarmRefuse(r)
          PROVE  r = q
      BY <3>1, <3>5 DEF FarmRefuse
    <3>6. QED
      BY <3>2, <3>3, <3>4, <3>5 DEF FarmNext
  <2>2. /\ idx[q] > Len(Calls[q]) /\ idx[q] \in Nat
        /\ pool.wallet \in Nat /\ pool.staked \in Nat
    BY DEF FarmInv, IInv, TypeOK
  <2>3. creates[q] = Looked(q) \ accounts
    BY <2>2, FarmLookups DEF FarmInv, IInv, Snapshot
  <2>4. Executable(q)
    BY <2>3 DEF Executable
  <2>5. ~FarmAccepts(q)
    BY <2>1, <2>4 DEF FarmRefuse
  <2>6. CASE Kind[q] = "deposit"
    <3>1. RegistersMiner(q) <=> "vault" \notin accounts
      BY <2>2, <2>3, <2>6, FarmLookups DEF RegistersMiner
    <3>2. QED
      BY <2>2, <2>5, <2>6, <3>1 DEF FarmAccepts, FarmInv, MinerAndVault
  <2>7. CASE Kind[q] = "withdraw"
    BY <2>2, <2>5, <2>7 DEF FarmAccepts
  <2>8. CASE Kind[q] = "harvest"
    BY <2>5, <2>8 DEF FarmAccepts
  <2>9. QED
    BY <2>6, <2>7, <2>8, Constants
<1>2. QED
  BY <1>1, FarmInvariance, PTL DEF FarmSpec, FarmRefusalExplained
-----------------------------------------------------------------------------
(***************************************************************************)
(* SaberPool for any requests, amounts and units of the wrapper: what an   *)
(* answer does to the wallet's wrapped tokens, and why one is refused.     *)
(***************************************************************************)
LEMMA PoolFacts ==
  /\ PoolKind \in [PoolRequests -> {"deposit", "withdraw", "swap"}]
  /\ Side \in [PoolRequests -> {"A", "B"}]
  /\ Tagged \in {"A", "B", "none"}
  /\ {"A", "B", "lp", "underlying"} \subseteq PoolMints \ {Native}
  /\ Unit \in Nat \ {0} /\ Amounts \subseteq Nat /\ MaxOwned \in Nat
  /\ Quote \in [Markets -> [Pool!Trades -> Nat]]
  /\ PoolCalls = [q \in PoolRequests |-> Pool!PoolLookups(q)]
  /\ \A s \in Situations : s.purse \in [Pool!Owned -> Nat]
BY PoolConstants DEF Pool!PoolAssumption, Pool!Kinds, Pool!Sides, Pool!Owned

LEMMA OtherSide == Pool!Other("A") = "B" /\ Pool!Other("B") = "A"
<1>1. \A t \in Pool!Sides : (t # "A" <=> t = "B") /\ (t # "B" <=> t = "A")
  BY DEF Pool!Sides
<1>2. "A" \in Pool!Sides /\ "B" \in Pool!Sides
  BY DEF Pool!Sides
<1>3. QED
  BY <1>1, <1>2 DEF Pool!Other

-----------------------------------------------------------------------------
(* Short lists put together.                                               *)
LEMMA OneAndOne ==
  ASSUME NEW x, NEW y
  PROVE  <<x>> \o <<y>> = <<x, y>>
<1> DEFINE S == {x, y}
<1>1. <<x>> \in Seq(S) /\ <<y>> \in Seq(S) /\ <<x, y>> \in Seq(S)
  OBVIOUS
<1>2. <<x>> \o <<y>> \in Seq(S) /\ Len(<<x>> \o <<y>>) = 2
  BY <1>1, ConcatProperties
<1>3. \A i \in 1..2 : (<<x>> \o <<y>>)[i] = <<x, y>>[i]
  BY <1>1, ConcatProperties
<1>4. QED
  BY <1>1, <1>2, <1>3, SeqEqual

LEMMA TwoAndOne ==
  ASSUME NEW x, NEW y, NEW z
  PROVE  <<x, y>> \o <<z>> = <<x, y, z>>
<1> DEFINE S == {x, y, z}
<1>1. <<x, y>> \in Seq(S) /\ <<z>> \in Seq(S) /\ <<x, y, z>> \in Seq(S)
  OBVIOUS
<1>2. <<x, y>> \o <<z>> \in Seq(S) /\ Len(<<x, y>> \o <<z>>) = 3
  BY <1>1, ConcatProperties
<1>3. \A i \in 1..3 : (<<x, y>> \o <<z>>)[i] = <<x, y, z>>[i]
  BY <1>1, ConcatProperties
<1>4. QED
  BY <1>1, <1>2, <1>3, SeqEqual

LEMMA ThreeAndOne ==
  ASSUME NEW w, NEW x, NEW y, NEW z
  PROVE  <<w, x, y>> \o <<z>> = <<w, x, y, z>>
<1> DEFINE S == {w, x, y, z}
<1>1. <<w, x, y>> \in Seq(S) /\ <<z>> \in Seq(S) /\ <<w, x, y, z>> \in Seq(S)
  OBVIOUS
<1>2. <<w, x, y>> \o <<z>> \in Seq(S) /\ Len(<<w, x, y>> \o <<z>>) = 4
  BY <1>1, ConcatProperties
<1>3. \A i \in 1..4 : (<<w, x, y>> \o <<z>>)[i] = <<w, x, y, z>>[i]
  BY <1>1, ConcatProperties
<1>4. QED
  BY <1>1, <1>2, <1>3, SeqEqual

-----------------------------------------------------------------------------
(* The look-ups: every mint once, and all that the instructions name.      *)
Orderly(c) ==
  /\ Len(c) \in Nat
  /\ \A i \in 1..Len(c) : c[i].mint \in Pool!Owned /\ c[i].kept
  /\ \A i, j \in 1..Len(c) : c[i].mint = c[j].mint => i = j

MintsOf(c) == {c[i].mint : i \in 1..Len(c)}

LEMMA TwoMints ==
  ASSUME NEW a \in Pool!Owned, NEW b \in Pool!Owned, a # b
  PROVE  Orderly(<<Pool!Look(a), Pool!Look(b)>>)
         /\ {a, b} \subseteq MintsOf(<<Pool!Look(a), Pool!Look(b)>>)
<1> DEFINE c == <<Pool!Look(a), Pool!Look(b)>>
<1>1. Len(c) = 2 /\ c[1].mint = a /\ c[2].mint = b /\ c[1].kept /\ c[2].kept
  BY DEF Pool!Look
<1> HIDE DEF c
<1>2. 1..Len(c) = {1, 2}
  BY <1>1
<1>3. QED
  BY <1>1, <1>2 DEF Orderly, MintsOf, c

LEMMA ThreeMints ==
  ASSUME NEW a \in Pool!Owned, NEW b \in Pool!Owned, NEW e \in Pool!Owned,
         a # b, a # e, b # e
  PROVE  /\ Orderly(<<Pool!Look(a), Pool!Look(b), Pool!Look(e)>>)
         /\ {a, b, e} \subseteq MintsOf(<<Pool!Look(a), Pool!Look(b), Pool!Look(e)>>)
<1> DEFINE c == <<Pool!Look(a), Pool!Look(b), Pool!Look(e)>>
<1>1. /\ Len(c) = 3 /\ c[1].mint = a /\ c[2].mint = b /\ c[3].mint = e
      /\ c[1].kept /\ c[2].kept /\ c[3].kept
  BY DEF Pool!Look
<1> HIDE DEF c
<1>2. 1..Len(c) = {1, 2, 3}
  BY <1>1
<1>3. QED
  BY <1>1, <1>2 DEF Orderly, MintsOf, c

LEMMA FourMints ==
  ASSUME NEW a \in Pool!Owned, NEW b \in Pool!Owned, NEW e \in Pool!Owned,
         NEW f \in Pool!Owned, a # b, a # e, b # e, a # f, b # f, e # f
  PROVE  /\ Orderly(<<Pool!Look(a), Pool!Look(b), Pool!Look(e), Pool!Look(f)>>)
         /\ {a, b, e, f} \subseteq
              MintsOf(<<Pool!Look(a), Pool!Look(b), Pool!Look(e), Pool!Look(f)>>)
<1> DEFINE c == <<Pool!Look(a), Pool!Look(b), Pool!Look(e), Pool!Look(f)>>
<1>1. /\ Len(c) = 4 /\ c[1].mint = a /\ c[2].mint = b /\ c[3].mint = e /\ c[4].mint = f
      /\ c[1].kept /\ c[2].kept /\ c[3].kept /\ c[4].kept
  BY DEF Pool!Look
<1> HIDE DEF c
<1>2. 1..Len(c) = {1, 2, 3, 4}
  BY <1>1
<1>3. QED
  BY <1>1, <1>2 DEF Orderly, MintsOf, c

LEMMA PoolLooks ==
  ASSUME NEW q \in PoolRequests
  PROVE  /\ Orderly(PoolCalls[q])
         /\ {"A", "B"} \subseteq MintsOf(PoolCalls[q])
         /\ PoolKind[q] # "swap" => "lp" \in MintsOf(PoolCalls[q])
         /\ Pool!Wraps(q) \/ Pool!Unwraps(q) => "underlying" \in MintsOf(PoolCalls[q])
<1>1. PoolCalls[q] = Pool!PoolLookups(q)
  BY PoolFacts
<1> DEFINE a == Side[q]
           b == Pool!Other(a)
<1>2. (a = "A" /\ b = "B") \/ (a = "B" /\ b = "A")
  BY PoolFacts, OtherSide
<1> HIDE DEF a, b
<1>3. {"A", "B", "lp", "underlying"} = Pool!Owned
  BY DEF Pool!Owned, Pool!Sides
<1>4. CASE PoolKind[q] = "swap" /\ (Pool!Wraps(q) \/ Pool!Unwraps(q))
  <2>1. Pool!PoolLookups(q) = <<Pool!Look(a), Pool!Look(b)>> \o <<Pool!Look("underlying")>>
    BY <1>4 DEF Pool!PoolLookups, a, b
  <2>2. Pool!PoolLookups(q) = <<Pool!Look(a), Pool!Look(b), Pool!Look("underlying")>>
    BY <2>1, TwoAndOne
  <2>3. /\ a \in Pool!Owned /\ b \in Pool!Owned /\ "underlying" \in Pool!Owned
        /\ a # b /\ a # "underlying" /\ b # "underlying" /\ {a, b} = {"A", "B"}
    BY <1>2, <1>3
  <2>4. Orderly(PoolCalls[q]) /\ {a, b, "underlying"} \subseteq MintsOf(PoolCalls[q])
    BY <1>1, <2>2, <2>3, ThreeMints
  <2>5. QED
    BY <1>4, <2>3, <2>4
<1>5. CASE PoolKind[q] = "swap" /\ ~(Pool!Wraps(q) \/ Pool!Unwraps(q))
  <2>1. Pool!PoolLookups(q) = <<Pool!Look(a), Pool!Look(b)>> \o << >>
    BY <1>5 DEF Pool!PoolLookups, a, b
  <2>2. Pool!PoolLookups(q) = <<Pool!Look(a), Pool!Look(b)>>
    BY <2>1
  <2>3. /\ a \in Pool!Owned /\ b \in Pool!Owned /\ "underlying" \in Pool!Owned
        /\ a # b /\ a # "underlying" /\ b # "underlying" /\ {a, b} = {"A", "B"}
    BY <1>2, <1>3
  <2>4. Orderly(PoolCalls[q]) /\ {a, b} \subseteq MintsOf(PoolCalls[q])
    BY <1>1, <2>2, <2>3, TwoMints
  <2>5. QED
    BY <1>5, <2>3, <2>4
<1>6. CASE PoolKind[q] # "swap" /\ (Pool!Wraps(q) \/ Pool!Unwraps(q))
  <2>1. Pool!PoolLookups(q) =
          <<Pool!Look("A"), Pool!Look("B"), Pool!Look("lp")>> \o <<Pool!Look("underlying")>>
    BY <1>6 DEF Pool!PoolLookups
  <2>2. Pool!PoolLookups(q) =
          <<Pool!Look("A"), Pool!Look("B"), Pool!Look("lp"), Pool!Look("underlying")>>
    BY <2>1, ThreeAndOne
  <2>3. QED
    BY <1>1, <1>3, <2>2, FourMints
<1>7. CASE PoolKind[q] # "swap" /\ ~(Pool!Wraps(q) \/ Pool!Unwraps(q))
  <2>1. Pool!PoolLookups(q) = <<Pool!Look("A"), Pool!Look("B"), Pool!Look("lp")>>
    BY <1>7 DEF Pool!PoolLookups
  <2>2. QED
    BY <1>1, <1>3, <1>7, <2>1, ThreeMints
<1>8. QED
  BY <1>4, <1>5, <1>6, <1>7
-----------------------------------------------------------------------------
(* Amounts: what conversion takes off is one at most, and the wrapper deals*)
(* in whole units.                                                         *)
LEMMA WholeUnits ==
  ASSUME NEW n \in Nat, NEW u \in Nat \ {0}
  PROVE  /\ n \div u \in Nat
         /\ (n \div u) * u \in Nat /\ (n \div u) * u <= n /\ n < (n \div u) * u + u
         /\ n % u = 0 => (n \div u) * u = n
OBVIOUS

LEMMA PoolAmounts ==
  ASSUME NEW q \in PoolRequests, ask[q] \in Pool!Asks(q)
  PROVE  /\ \A s \in Pool!Sides :
              /\ ask[q].amount[s] \in Nat /\ ask[q].fine[s] \in {0, 1}
              /\ Pool!PoolAmount(q, s) \in Nat
              /\ Pool!PoolAmount(q, s) = ask[q].amount[s] - ask[q].fine[s]
         /\ ask[q].coarse \in {0, 1}
         /\ ask[q].coarse = 1 => Pool!Wraps(q) /\ ask[q].amount[Tagged] > 0
<1>1. /\ ask[q].amount \in [Pool!Sides -> Amounts \cup {0}]
      /\ ask[q].fine \in [Pool!Sides -> {0, 1}]
      /\ ask[q].coarse \in {0, 1}
      /\ \A s \in Pool!Sides : ask[q].fine[s] = 1 => ask[q].amount[s] > 0
      /\ ask[q].coarse = 1 => Pool!Wraps(q) /\ ask[q].amount[Tagged] > 0
  <2> DEFINE a == ask[q]
  <2>1. a \in Pool!Asks(q)
    OBVIOUS
  <2> HIDE DEF a
  <2>2. a \in [amount : [Pool!Sides -> Amounts \cup {0}], coarse : {0, 1},
               fine : [Pool!Sides -> {0, 1}]]
    BY <2>1 DEF Pool!Asks
  <2>3. /\ \A s \in Pool!Sides : a.fine[s] = 1 => a.amount[s] > 0
        /\ a.coarse = 1 => Pool!Wraps(q) /\ a.amount[Tagged] > 0
    BY <2>1 DEF Pool!Asks
  <2>4. QED
    BY <2>2, <2>3 DEF a
<1>2. \A s \in Pool!Sides : ask[q].amount[s] \in Nat /\ ask[q].fine[s] \in {0, 1}
  <2>1. Amounts \cup {0} \subseteq Nat
    BY PoolFacts
  <2>2. QED
    BY ONLY <1>1, <2>1
<1>3. ASSUME NEW s \in Pool!Sides
      PROVE  Pool!PoolAmount(q, s) = ask[q].amount[s] - ask[q].fine[s]
             /\ Pool!PoolAmount(q, s) \in Nat
  <2> DEFINE a == ask[q].amount[s]
             f == ask[q].fine[s]
  <2>1. a \in Nat /\ f \in {0, 1} /\ (f = 1 => a > 0)
    BY <1>1, <1>2
  <2>2. Pool!PoolAmount(q, s) = IF a < f THEN 0 ELSE a - f
    BY DEF Pool!PoolAmount, Pool!Minus
  <2> HIDE DEF a, f
  <2>3. Pool!PoolAmount(q, s) = a - f /\ a - f \in Nat
    BY <2>1, <2>2
  <2>4. QED
    BY <2>3 DEF a, f
<1>4. QED
  BY <1>1, <1>2, <1>3

(* What is wrapped falls short of what is paid by less than a unit.        *)
LEMMA WrappedAmount ==
  ASSUME NEW q \in PoolRequests, ask[q] \in Pool!Asks(q), Pool!Wraps(q)
  PROVE  /\ Pool!WrapAmount(q) \in Nat /\ Pool!WrapAmount(q) * Unit \in Nat
         /\ Pool!WrapAmount(q) * Unit - Pool!PoolAmount(q, Tagged) \in -Unit..Unit
         /\ ~Pool!LosesInWrapping(q) =>
              /\ Pool!WrapAmount(q) > 0
              /\ Pool!WrapAmount(q) * Unit = ask[q].amount[Tagged]
<1> DEFINE a == ask[q].amount[Tagged]
           f == ask[q].fine[Tagged]
           c == ask[q].coarse
           x == IF a < c THEN 0 ELSE a - c
           w == Pool!WrapAmount(q)
           n == Pool!PoolAmount(q, Tagged)
<1>1. Tagged \in Pool!Sides
  BY DEF Pool!Wraps
<1>2. /\ a \in Nat /\ f \in {0, 1} /\ n = a - f
      /\ c \in {0, 1} /\ (c = 1 => a > 0)
  BY <1>1, PoolAmounts
<1>3. w = x \div Unit
  BY DEF Pool!WrapAmount, Pool!Minus
<1>4. Unit \in Nat \ {0}
  BY PoolFacts
<1>5. Pool!LosesInWrapping(q) <=> c = 1 \/ a = 0 \/ a % Unit # 0
  BY DEF Pool!LosesInWrapping
<1> HIDE DEF a, f, c, w, n
<1>6. x \in Nat /\ x = a - c
  BY <1>2
<1> HIDE DEF x
<1>7. /\ w \in Nat /\ w * Unit \in Nat /\ w * Unit <= x /\ x < w * Unit + Unit
      /\ x % Unit = 0 => w * Unit = x
  BY <1>3, <1>4, <1>6, WholeUnits
<1> DEFINE m == w * Unit
<1>8. m - n \in -Unit..Unit
  <2>1. m \in Nat /\ m <= x /\ x < m + Unit
    BY <1>7
  <2> HIDE DEF m
  <2>2. QED
    BY <1>2, <1>4, <1>6, <2>1
<1>9. ASSUME ~(c = 1 \/ a = 0 \/ a % Unit # 0)
      PROVE  w > 0 /\ w * Unit = a
  <2>1. x = a /\ a % Unit = 0 /\ a # 0
    BY <1>2, <1>6, <1>9
  <2>2. w * Unit = a
    BY <1>7, <2>1
  <2>3. w # 0
    BY <1>4, <2>1, <2>2
  <2>4. QED
    BY <1>7, <2>2, <2>3
<1>10. QED
  BY <1>5, <1>7, <1>8, <1>9 DEF w, n, a

-----------------------------------------------------------------------------
(* What the programs do to a purse.                                        *)
Purses == [Pool!Owned -> Nat]

LEMMA WrapRuns ==
  ASSUME Tagged \in Pool!Sides, NEW p \in Purses, NEW n \in Nat, NEW d
  PROVE  LET i == [op |-> "wrap", n |-> n] IN
         /\ \A r \in Pool!Results(i, p, d) :
              /\ r \in Purses /\ r[Tagged] = p[Tagged] + n * Unit
              /\ \A s \in Pool!Owned \ {Tagged, "underlying"} : r[s] = p[s]
         /\ n > 0 /\ p["underlying"] >= n => Pool!Results(i, p, d) # {}
<1> DEFINE i == [op |-> "wrap", n |-> n]
           t == [p EXCEPT !["underlying"] = @ - i.n, ![Tagged] = @ + i.n * Unit]
<1>1. Pool!Results(i, p, d) = {r \in {t} : n > 0 /\ p["underlying"] >= n}
  BY DEF Pool!Results
<1>2. /\ Tagged \in Pool!Owned /\ "underlying" \in Pool!Owned /\ Tagged # "underlying"
      /\ n * Unit \in Nat /\ p[Tagged] \in Nat /\ p["underlying"] \in Nat
  BY PoolFacts DEF Pool!Owned, Pool!Sides, Purses
<1>3. /\ t[Tagged] = p[Tagged] + n * Unit /\ t["underlying"] = p["underlying"] - n
      /\ DOMAIN t = Pool!Owned /\ \A s \in Pool!Owned \ {Tagged, "underlying"} : t[s] = p[s]
      /\ t = [s \in Pool!Owned |-> t[s]]
  BY <1>2 DEF Purses
<1> HIDE DEF t
<1>4. ASSUME p["underlying"] >= n
      PROVE  t \in Purses
  <2>1. t[Tagged] \in Nat /\ t["underlying"] \in Nat
    BY <1>2, <1>3, <1>4
  <2>2. \A s \in Pool!Owned : t[s] \in Nat
    BY <1>3, <2>1 DEF Purses
  <2>3. QED
    BY <1>3, <2>2 DEF Purses
<1>5. QED
  BY <1>1, <1>3, <1>4

LEMMA UnwrapRuns ==
  ASSUME Tagged \in Pool!Sides, NEW p \in Purses, NEW n \in Nat, NEW d
  PROVE  LET i == [op |-> "unwrap", n |-> n] IN
         /\ \A r \in Pool!Results(i, p, d) :
              r \in Purses /\ r[Tagged] = p[Tagged] - (n \div Unit) * Unit
         /\ n > 0 /\ p[Tagged] >= n => Pool!Results(i, p, d) # {}
<1> DEFINE i == [op |-> "unwrap", n |-> n]
           t == [p EXCEPT !["underlying"] = @ + (i.n \div Unit),
                          ![Tagged] = @ - (i.n \div Unit) * Unit]
           k == n \div Unit
<1>1. Pool!Results(i, p, d) = {r \in {t} : n > 0 /\ p[Tagged] >= n}
  BY DEF Pool!Results
<1>2. /\ Tagged \in Pool!Owned /\ "underlying" \in Pool!Owned /\ Tagged # "underlying"
      /\ p[Tagged] \in Nat /\ p["underlying"] \in Nat
  BY DEF Pool!Owned, Pool!Sides, Purses
<1>3. /\ t[Tagged] = p[Tagged] - k * Unit /\ t["underlying"] = p["underlying"] + k
      /\ \A s \in Pool!Owned \ {Tagged, "underlying"} : t[s] = p[s]
      /\ t = [s \in Pool!Owned |-> t[s]]
  BY <1>2 DEF Purses
<1>4. k \in Nat /\ k * Unit \in Nat /\ k * Unit <= n
  BY PoolFacts, WholeUnits
<1> HIDE DEF t, k
<1>5. ASSUME p[Tagged] >= n
      PROVE  t \in Purses
  <2>1. t[Tagged] \in Nat /\ t["underlying"] \in Nat
    BY <1>2, <1>3, <1>4, <1>5
  <2>2. \A s \in Pool!Owned : t[s] \in Nat
    BY <1>3, <2>1 DEF Purses
  <2>3. QED
    BY <1>3, <2>2 DEF Purses
<1>6. QED
  BY <1>1, <1>3, <1>5 DEF k

(* What the instruction in the middle needs, and what it does to a pool    *)
(* token: takes what is paid, brings about what is asked for.              *)
Affords(q, p) ==
  /\ \A s \in Pool!Sides : Pool!Pays(q, s) => p[s] >= Pool!PoolAmount(q, s)
  /\ PoolKind[q] = "withdraw" => p["lp"] >= Pool!PoolAmount(q, Side[q])
  /\ IF PoolKind[q] = "deposit"
       THEN Pool!PoolAmount(q, "A") + Pool!PoolAmount(q, "B") > 0
       ELSE Pool!PoolAmount(q, Side[q]) > 0

Moved(q, p, r, d, s) ==
  r[s] = IF Pool!Pays(q, s) THEN p[s] - Pool!PoolAmount(q, s)
         ELSE IF Pool!Receives(q, s) THEN p[s] + Quote[d][Pool!PoolInstruction(q)]
         ELSE p[s]

(* What the pool is asked to do is one of the instructions it has a price  *)
(* for.                                                                    *)
LEMMA TradeQuoted ==
  ASSUME NEW q \in PoolRequests, ask[q] \in Pool!Asks(q), NEW d \in Markets
  PROVE  Quote[d][Pool!PoolInstruction(q)] \in Nat
<1> DEFINE i == Pool!PoolInstruction(q)
<1>1. \A s \in Pool!Sides : Pool!PoolAmount(q, s) \in Pool!Paid
  <2> SUFFICES ASSUME NEW s \in Pool!Sides
               PROVE  Pool!PoolAmount(q, s) \in Pool!Paid
    OBVIOUS
  <2> DEFINE a == ask[q].amount[s]
             f == ask[q].fine[s]
  <2>1. ask[q] \in [amount : [Pool!Sides -> Amounts \cup {0}], coarse : {0, 1},
                    fine : [Pool!Sides -> {0, 1}]]
    BY DEF Pool!Asks
  <2>2. a \in Amounts \cup {0} /\ f \in {0, 1}
    BY <2>1
  <2>3. Pool!PoolAmount(q, s) = Pool!Minus(a, f)
    BY DEF Pool!PoolAmount
  <2> HIDE DEF a, f
  <2>4. QED
    BY <2>2, <2>3 DEF Pool!Paid
<1>2. Side[q] \in Pool!Sides /\ PoolKind[q] \in {"deposit", "withdraw", "swap"}
  BY PoolFacts DEF Pool!Sides
<1>3. CASE PoolKind[q] = "deposit"
  <2>1. i = [op |-> "deposit", n |-> [s \in Pool!Sides |-> Pool!PoolAmount(q, s)]]
    BY <1>3 DEF Pool!PoolInstruction
  <2>2. [s \in Pool!Sides |-> Pool!PoolAmount(q, s)] \in [Pool!Sides -> Pool!Paid]
    BY <1>1
  <2> HIDE DEF i
  <2>3. i \in Pool!Trades
    BY <2>1, <2>2 DEF Pool!Trades
  <2>4. QED
    BY <2>3, PoolFacts DEF i
<1>4. CASE PoolKind[q] # "deposit"
  <2>1. i = [op |-> PoolKind[q], side |-> Side[q], n |-> Pool!PoolAmount(q, Side[q])]
    BY <1>4 DEF Pool!PoolInstruction
  <2>2. Pool!PoolAmount(q, Side[q]) \in Pool!Paid /\ PoolKind[q] \in {"withdraw", "swap"}
    BY <1>1, <1>2, <1>4
  <2> HIDE DEF i
  <2>3. i \in Pool!Trades
    BY <1>2, <2>1, <2>2 DEF Pool!Trades
  <2>4. QED
    BY <2>3, PoolFacts DEF i
<1>5. QED
  BY <1>3, <1>4

LEMMA DepositRuns ==
  ASSUME NEW q \in PoolRequests, ask[q] \in Pool!Asks(q), PoolKind[q] = "deposit",
         NEW p \in Purses, NEW d \in Markets
  PROVE  /\ \A r \in Pool!Results(Pool!PoolInstruction(q), p, d) :
              /\ r \in Purses /\ Affords(q, p)
              /\ \A s \in Pool!Sides : Moved(q, p, r, d, s)
         /\ Affords(q, p) => Pool!Results(Pool!PoolInstruction(q), p, d) # {}
<1> DEFINE a == Pool!PoolAmount(q, "A")
           b == Pool!PoolAmount(q, "B")
           i == Pool!PoolInstruction(q)
           t == [p EXCEPT !["A"] = @ - i.n["A"], !["B"] = @ - i.n["B"],
                          !["lp"] = @ + Quote[d][i]]
<1>1. Pool!Sides = {"A", "B"} /\ Pool!Owned = {"A", "B", "lp", "underlying"}
  BY DEF Pool!Sides, Pool!Owned
<1>2. a \in Nat /\ b \in Nat
  BY <1>1, PoolAmounts
<1>3. /\ i.op = "deposit" /\ i.n["A"] = a /\ i.n["B"] = b
      /\ Quote[d][i] \in Nat
  BY <1>1, TradeQuoted DEF Pool!PoolInstruction
<1>4. /\ p["A"] \in Nat /\ p["B"] \in Nat /\ p["lp"] \in Nat /\ p["underlying"] \in Nat
      /\ p = [s \in Pool!Owned |-> p[s]]
  BY <1>1 DEF Purses
<1>5. \A s \in Pool!Sides : Pool!Pays(q, s)
  BY DEF Pool!Pays
<1>6. Affords(q, p) <=> a + b > 0 /\ p["A"] >= a /\ p["B"] >= b
  BY <1>1, <1>5 DEF Affords
<1> HIDE DEF a, b, i
<1>7. Pool!Results(i, p, d) = {r \in {t} : a + b > 0 /\ p["A"] >= a /\ p["B"] >= b}
  BY <1>3 DEF Pool!Results
<1>8. /\ t["A"] = p["A"] - a /\ t["B"] = p["B"] - b
      /\ t["lp"] = p["lp"] + Quote[d][i] /\ t["underlying"] = p["underlying"]
      /\ t = [s \in Pool!Owned |-> t[s]]
  BY <1>1, <1>3, <1>4
<1> HIDE DEF t
<1>9. ASSUME p["A"] >= a, p["B"] >= b
      PROVE  t \in Purses
  <2>1. t["A"] \in Nat /\ t["B"] \in Nat /\ t["lp"] \in Nat /\ t["underlying"] \in Nat
    BY <1>2, <1>3, <1>4, <1>8, <1>9
  <2>2. QED
    BY <1>1, <1>8, <2>1 DEF Purses
<1>10. \A s \in Pool!Sides : Moved(q, p, t, d, s)
  BY <1>1, <1>5, <1>8 DEF Moved, a, b
<1>11. QED
  BY <1>6, <1>7, <1>9, <1>10 DEF i

LEMMA WithdrawRuns ==
  ASSUME NEW q \in PoolRequests, ask[q] \in Pool!Asks(q), PoolKind[q] = "withdraw",
         NEW p \in Purses, NEW d \in Markets
  PROVE  /\ \A r \in Pool!Results(Pool!PoolInstruction(q), p, d) :
              /\ r \in Purses /\ Affords(q, p)
              /\ \A s \in Pool!Sides : Moved(q, p, r, d, s)
         /\ Affords(q, p) => Pool!Results(Pool!PoolInstruction(q), p, d) # {}
<1> DEFINE a == Side[q]
           n == Pool!PoolAmount(q, a)
           i == Pool!PoolInstruction(q)
           t == [p EXCEPT !["lp"] = @ - i.n, ![i.side] = @ + Quote[d][i]]
<1>1. /\ Pool!Sides = {"A", "B"} /\ Pool!Owned = {"A", "B", "lp", "underlying"}
      /\ a \in {"A", "B"}
  BY PoolFacts DEF Pool!Sides, Pool!Owned
<1>2. n \in Nat
  BY <1>1, PoolAmounts
<1>3. i.op = "withdraw" /\ i.n = n /\ i.side = a
  BY DEF Pool!PoolInstruction
<1>4. /\ p[a] \in Nat /\ p["lp"] \in Nat
      /\ p = [s \in Pool!Owned |-> p[s]]
  BY <1>1 DEF Purses
<1>5. \A s \in Pool!Sides : ~Pool!Pays(q, s) /\ (Pool!Receives(q, s) <=> s = a)
  BY DEF Pool!Pays, Pool!Receives
<1>6. Affords(q, p) <=> n > 0 /\ p["lp"] >= n
  BY <1>5 DEF Affords
<1>7. Quote[d][i] \in Nat
  BY TradeQuoted
<1> HIDE DEF a, n, i
<1>8. Pool!Results(i, p, d) = {r \in {t} : n > 0 /\ p["lp"] >= n}
  BY <1>3 DEF Pool!Results
<1>9. /\ t["lp"] = p["lp"] - n /\ t[a] = p[a] + Quote[d][i]
      /\ \A s \in Pool!Owned \ {"lp", a} : t[s] = p[s]
      /\ t = [s \in Pool!Owned |-> t[s]]
  BY <1>1, <1>3, <1>4
<1> HIDE DEF t
<1>10. ASSUME p["lp"] >= n
       PROVE  t \in Purses
  <2>1. t["lp"] \in Nat /\ t[a] \in Nat
    BY <1>2, <1>4, <1>7, <1>9, <1>10
  <2>2. \A s \in Pool!Owned : t[s] \in Nat
    BY <1>9, <2>1 DEF Purses
  <2>3. QED
    BY <1>9, <2>2 DEF Purses
<1>11. \A s \in Pool!Sides : Moved(q, p, t, d, s)
  BY <1>1, <1>5, <1>9 DEF Moved, a, n, i
<1>12. QED
  BY <1>6, <1>8, <1>10, <1>11 DEF i

LEMMA SwapRuns ==
  ASSUME NEW q \in PoolRequests, ask[q] \in Pool!Asks(q), PoolKind[q] = "swap",
         NEW p \in Purses, NEW d \in Markets
  PROVE  /\ \A r \in Pool!Results(Pool!PoolInstruction(q), p, d) :
              /\ r \in Purses /\ Affords(q, p)
              /\ \A s \in Pool!Sides : Moved(q, p, r, d, s)
         /\ Affords(q, p) => Pool!Results(Pool!PoolInstruction(q), p, d) # {}
<1> DEFINE a == Side[q]
           b == Pool!Other(a)
           n == Pool!PoolAmount(q, a)
           i == Pool!PoolInstruction(q)
           t == [p EXCEPT ![i.side] = @ - i.n, ![Pool!Other(i.side)] = @ + Quote[d][i]]
<1>1. /\ Pool!Sides = {"A", "B"} /\ Pool!Owned = {"A", "B", "lp", "underlying"}
      /\ a \in {"A", "B"} /\ b \in {"A", "B"} /\ a # b
  BY PoolFacts, OtherSide DEF Pool!Sides, Pool!Owned
<1>2. n \in Nat
  BY <1>1, PoolAmounts
<1>3. i.op = "swap" /\ i.n = n /\ i.side = a
  BY DEF Pool!PoolInstruction
<1>4. /\ p[a] \in Nat /\ p[b] \in Nat
      /\ p = [s \in Pool!Owned |-> p[s]]
  BY <1>1 DEF Purses
<1>5. \A s \in Pool!Sides : /\ Pool!Pays(q, s) <=> s = a
                            /\ Pool!Receives(q, s) <=> s # a
  BY DEF Pool!Pays, Pool!Receives
<1>6. Affords(q, p) <=> n > 0 /\ p[a] >= n
  BY <1>1, <1>5 DEF Affords
<1>7. Quote[d][i] \in Nat
  BY TradeQuoted
<1>8. Pool!Results(i, p, d) = {r \in {t} : n > 0 /\ p[a] >= n}
  <2> HIDE DEF a, n, i
  <2>1. QED
    BY <1>3 DEF Pool!Results
<1>9. t = [p EXCEPT ![a] = @ - n, ![b] = @ + Quote[d][i]]
  <2> HIDE DEF n, a, i
  <2>1. QED
    BY <1>3
<1> HIDE DEF a, b, n, i, t
<1>10. /\ t[a] = p[a] - n /\ t[b] = p[b] + Quote[d][i]
       /\ \A s \in Pool!Owned \ {a, b} : t[s] = p[s]
       /\ t = [s \in Pool!Owned |-> t[s]]
  BY <1>1, <1>4, <1>9
<1>11. ASSUME p[a] >= n
       PROVE  t \in Purses
  <2>1. t[a] \in Nat /\ t[b] \in Nat
    BY <1>2, <1>4, <1>7, <1>10, <1>11
  <2>2. \A s \in Pool!Owned : t[s] \in Nat
    BY <1>10, <2>1 DEF Purses
  <2>3. QED
    BY <1>10, <2>2 DEF Purses
<1>12. \A s \in Pool!Sides : Moved(q, p, t, d, s)
  <2>1. \A s \in Pool!Sides : s = a \/ s = b
    BY <1>1
  <2>2. QED
    BY <1>1, <1>5, <1>10, <2>1 DEF Moved, a, n, i
<1>13. QED
  BY <1>6, <1>8, <1>11, <1>12 DEF i

LEMMA MiddleRuns ==
  ASSUME NEW q \in PoolRequests, ask[q] \in Pool!Asks(q),
         NEW p \in Purses, NEW d \in Markets
  PROVE  /\ \A r \in Pool!Results(Pool!PoolInstruction(q), p, d) :
              /\ r \in Purses /\ Affords(q, p)
              /\ \A s \in Pool!Sides : Moved(q, p, r, d, s)
         /\ Affords(q, p) => Pool!Results(Pool!PoolInstruction(q), p, d) # {}
<1>1. PoolKind[q] \in {"deposit", "withdraw", "swap"}
  BY PoolFacts
<1>2. QED
  BY <1>1, DepositRuns, WithdrawRuns, SwapRuns
(* The instructions of an answer: one, or two when something is wrapped.   *)
Wrapper(q) == [op |-> "wrap", n |-> Pool!WrapAmount(q)]
Unwrapper(q) == [op |-> "unwrap", n |-> Pool!UnwrapAmount(q)]

LEMMA PoolLists ==
  ASSUME NEW q \in PoolRequests
  PROVE  /\ ~(Pool!Wraps(q) /\ Pool!Unwraps(q))
         /\ Pool!Wraps(q) =>
              Pool!PoolInstructions(q) = <<Wrapper(q), Pool!PoolInstruction(q)>>
         /\ Pool!Unwraps(q) =>
              Pool!PoolInstructions(q) = <<Pool!PoolInstruction(q), Unwrapper(q)>>
         /\ ~Pool!Wraps(q) /\ ~Pool!Unwraps(q) =>
              Pool!PoolInstructions(q) = <<Pool!PoolInstruction(q)>>
<1> DEFINE i == Pool!PoolInstruction(q)
<1>1. ~(Pool!Wraps(q) /\ Pool!Unwraps(q))
  BY DEF Pool!Wraps, Pool!Unwraps, Pool!Pays, Pool!Receives
<1>2. CASE Pool!Wraps(q)
  <2>1. Pool!Wrapping(q) = <<Wrapper(q)>> /\ Pool!Unwrapping(q) = << >>
    BY <1>1, <1>2 DEF Pool!Wrapping, Pool!Unwrapping, Wrapper
  <2> HIDE DEF i
  <2>2. Pool!PoolInstructions(q) = (<<Wrapper(q)>> \o <<i>>) \o << >>
    BY <2>1 DEF Pool!PoolInstructions, i
  <2>3. <<Wrapper(q)>> \o <<i>> = <<Wrapper(q), i>>
    BY OneAndOne
  <2>4. <<Wrapper(q), i>> \o << >> = <<Wrapper(q), i>>
    OBVIOUS
  <2>5. QED
    BY <1>1, <1>2, <2>2, <2>3, <2>4 DEF i
<1>3. CASE Pool!Unwraps(q)
  <2>1. Pool!Unwrapping(q) = <<Unwrapper(q)>> /\ Pool!Wrapping(q) = << >>
    BY <1>1, <1>3 DEF Pool!Wrapping, Pool!Unwrapping, Unwrapper
  <2> HIDE DEF i
  <2>2. Pool!PoolInstructions(q) = (<< >> \o <<i>>) \o <<Unwrapper(q)>>
    BY <2>1 DEF Pool!PoolInstructions, i
  <2>3. << >> \o <<i>> = <<i>>
    OBVIOUS
  <2>4. <<i>> \o <<Unwrapper(q)>> = <<i, Unwrapper(q)>>
    BY OneAndOne
  <2>5. QED
    BY <1>1, <1>3, <2>2, <2>3, <2>4 DEF i
<1>4. CASE ~Pool!Wraps(q) /\ ~Pool!Unwraps(q)
  <2>1. Pool!Unwrapping(q) = << >> /\ Pool!Wrapping(q) = << >>
    BY <1>4 DEF Pool!Wrapping, Pool!Unwrapping
  <2> HIDE DEF i
  <2>2. Pool!PoolInstructions(q) = (<< >> \o <<i>>) \o << >>
    BY <2>1 DEF Pool!PoolInstructions, i
  <2>3. << >> \o <<i>> = <<i>> /\ <<i>> \o << >> = <<i>>
    OBVIOUS
  <2>4. QED
    BY <1>4, <2>2, <2>3 DEF i
<1>5. QED
  BY <1>1, <1>2, <1>3, <1>4

-----------------------------------------------------------------------------
(* The chain runs the list as a fold over the purses that may come out.    *)
PoolStep(d, S, i) == UNION {Pool!Results(i, p, d) : p \in S}
Anything(c, st, k) == TRUE

PoolRuns == INSTANCE FoldTheorems WITH Step <- PoolStep, Keeps <- Anything

LEMMA RunIsFold ==
  ASSUME NEW q, NEW d
  PROVE  Pool!RunPool(q, d) = PoolRuns!Over(d, {pPurse}, Pool!PoolInstructions(q))
BY DEF Pool!RunPool, Pool!FoldLeft, Pool!MapThenFoldSet, Pool!Max, PoolRuns!Over,
       PoolRuns!Largest, PoolStep

LEMMA RunOne ==
  ASSUME NEW q, NEW d, NEW i, Pool!PoolInstructions(q) = <<i>>
  PROVE  Pool!RunPool(q, d) = PoolStep(d, {pPurse}, i)
<1> DEFINE s == <<i>>
<1>1. DOMAIN s = 1..1 /\ s[1] = i
  OBVIOUS
<1>2. Pool!RunPool(q, d) = PoolRuns!Over(d, {pPurse}, s)
  BY RunIsFold
<1> HIDE DEF s
<1>3. PICK h : /\ PoolRuns!Chain(d, {pPurse}, s, 1, h)
               /\ h[1] = PoolRuns!Over(d, {pPurse}, s)
  BY <1>1, PoolRuns!FoldIsChain
<1>4. h[0] = {pPurse} /\ h[1] = PoolStep(d, h[0], s[1])
  BY <1>3 DEF PoolRuns!Chain
<1>5. QED
  BY <1>1, <1>2, <1>3, <1>4

LEMMA RunTwo ==
  ASSUME NEW q, NEW d, NEW i, NEW j, Pool!PoolInstructions(q) = <<i, j>>
  PROVE  Pool!RunPool(q, d) = PoolStep(d, PoolStep(d, {pPurse}, i), j)
<1> DEFINE s == <<i, j>>
<1>1. DOMAIN s = 1..2 /\ s[1] = i /\ s[2] = j
  OBVIOUS
<1>2. Pool!RunPool(q, d) = PoolRuns!Over(d, {pPurse}, s)
  BY RunIsFold
<1> HIDE DEF s
<1>3. PICK h : /\ PoolRuns!Chain(d, {pPurse}, s, 2, h)
               /\ h[2] = PoolRuns!Over(d, {pPurse}, s)
  BY <1>1, PoolRuns!FoldIsChain
<1>4. h[0] = {pPurse} /\ h[1] = PoolStep(d, h[0], s[1]) /\ h[2] = PoolStep(d, h[1], s[2])
  BY <1>3 DEF PoolRuns!Chain
<1>5. QED
  BY <1>1, <1>2, <1>3, <1>4
-----------------------------------------------------------------------------
(* What an answer leaves wrapped, or takes of what was: what the pool pays *)
(* beyond the amount named, give or take a unit.                           *)
LEMMA WrapperSettles ==
  ASSUME NEW q \in PoolRequests, ask[q] \in Pool!Asks(q), pPurse \in Purses,
         market \in Markets, NEW r \in Pool!RunPool(q, market)
  PROVE  /\ r \in Purses
         /\ Tagged \in Pool!Sides =>
              r[Tagged] - pPurse[Tagged] - Pool!LeftWrapped(q) \in -Unit..Unit
<1> DEFINE i == Pool!PoolInstruction(q)
           d == market
<1>0. /\ Unit \in Nat \ {0}
      /\ Tagged \in Pool!Sides => Tagged \in Pool!Owned
      /\ Tagged \in Pool!Sides => pPurse[Tagged] \in Nat
  BY PoolFacts DEF Pool!Sides, Pool!Owned, Purses
<1>1. CASE Pool!Wraps(q)
  <2>1. Tagged \in Pool!Sides /\ Pool!Pays(q, Tagged)
    BY <1>1 DEF Pool!Wraps
  <2> DEFINE w == Pool!WrapAmount(q)
             n == Pool!PoolAmount(q, Tagged)
             m == w * Unit
  <2>2. w \in Nat /\ m \in Nat /\ m - n \in -Unit..Unit
    BY <1>1, WrappedAmount
  <2>3. n \in Nat
    BY <2>1, PoolAmounts
  <2>4. PICK p \in Pool!Results(Wrapper(q), pPurse, d) : r \in Pool!Results(i, p, d)
    BY <1>1, PoolLists, RunTwo DEF PoolStep
  <2>5. p \in Purses /\ p[Tagged] = pPurse[Tagged] + m
    BY <2>1, <2>2, <2>4, WrapRuns DEF Wrapper
  <2>6. r \in Purses /\ Moved(q, p, r, d, Tagged)
    BY <2>1, <2>4, <2>5, MiddleRuns
  <2>7. r[Tagged] = p[Tagged] - n
    BY <2>1, <2>6 DEF Moved
  <2> HIDE DEF w, n, m
  <2>8. r[Tagged] - pPurse[Tagged] - 0 = m - n
    BY <1>0, <2>1, <2>2, <2>3, <2>5, <2>7
  <2>9. Pool!LeftWrapped(q) = 0
    BY <1>1, PoolLists DEF Pool!LeftWrapped
  <2>10. QED
    BY <2>2, <2>6, <2>8, <2>9
<1>2. CASE Pool!Unwraps(q)
  <2>1. /\ Tagged \in Pool!Sides /\ Pool!Receives(q, Tagged) /\ ~Pool!Pays(q, Tagged)
        /\ PoolKind[q] # "deposit" /\ Side[q] \in Pool!Sides
    BY <1>2, PoolFacts DEF Pool!Unwraps, Pool!Receives, Pool!Pays, Pool!Sides
  <2> DEFINE n == Pool!PoolAmount(q, Side[q])
             m == (n \div Unit) * Unit
             a == ask[q].amount[Side[q]]
             f == ask[q].fine[Side[q]]
             c == Quote[d][i]
  <2>2. PICK p \in Pool!Results(i, pPurse, d) : r \in Pool!Results(Unwrapper(q), p, d)
    BY <1>2, PoolLists, RunTwo DEF PoolStep
  <2>3. p \in Purses /\ Affords(q, pPurse) /\ Moved(q, pPurse, p, d, Tagged)
    BY <2>1, <2>2, MiddleRuns
  <2>4. a \in Nat /\ f \in {0, 1} /\ n \in Nat /\ n = a - f /\ c \in Nat
    BY <2>1, PoolAmounts, TradeQuoted
  <2>5. Pool!LeftWrapped(q) = c - a
    BY <1>2 DEF Pool!LeftWrapped, Pool!Quoted
  <2>6. p[Tagged] = pPurse[Tagged] + c
    BY <2>1, <2>3 DEF Moved
  <2>7. r \in Purses /\ r[Tagged] = p[Tagged] - m
    BY <2>1, <2>2, <2>3, <2>4, UnwrapRuns DEF Unwrapper, Pool!UnwrapAmount
  <2>8. m \in Nat /\ m <= n /\ n < m + Unit
    BY <1>0, <2>4, WholeUnits
  <2> HIDE DEF n, m, a, f, c
  <2>9. r[Tagged] - pPurse[Tagged] - (c - a) = a - m
    BY <1>0, <2>1, <2>4, <2>6, <2>7, <2>8
  <2>10. a - m \in -Unit..Unit
    BY <1>0, <2>4, <2>8
  <2>11. QED
    BY <2>5, <2>7, <2>9, <2>10
<1>3. CASE ~Pool!Wraps(q) /\ ~Pool!Unwraps(q)
  <2>1. r \in Pool!Results(i, pPurse, d)
    BY <1>3, PoolLists, RunOne DEF PoolStep
  <2>2. r \in Purses /\ \A s \in Pool!Sides : Moved(q, pPurse, r, d, s)
    BY <2>1, MiddleRuns
  <2>3. ASSUME Tagged \in Pool!Sides
        PROVE  r[Tagged] = pPurse[Tagged]
    BY <1>3, <2>2, <2>3 DEF Moved, Pool!Wraps, Pool!Unwraps
  <2>4. Pool!LeftWrapped(q) = 0
    BY <1>3 DEF Pool!LeftWrapped
  <2>5. QED
    BY <1>0, <2>2, <2>3, <2>4
<1>4. QED
  BY <1>1, <1>2, <1>3

-----------------------------------------------------------------------------
(* A wallet that holds what the request names can pay for it.              *)
LEMMA Enough ==
  ASSUME NEW q \in PoolRequests, ask[q] \in Pool!Asks(q), NEW p \in Purses,
         ~Pool!NothingToMove(q),
         \A s \in Pool!Sides : Pool!Pays(q, s) => p[s] >= ask[q].amount[s],
         PoolKind[q] = "withdraw" => p["lp"] >= ask[q].amount[Side[q]]
  PROVE  Affords(q, p)
<1>1. /\ Pool!Sides = {"A", "B"} /\ Side[q] \in Pool!Sides
      /\ \A s \in Pool!Sides : p[s] \in Nat
      /\ p["lp"] \in Nat
  BY PoolFacts DEF Pool!Sides, Pool!Owned, Purses
<1>2. \A s \in Pool!Sides :
        /\ ask[q].amount[s] \in Nat
        /\ Pool!PoolAmount(q, s) \in Nat
        /\ Pool!PoolAmount(q, s) <= ask[q].amount[s]
        /\ ask[q].amount[s] > 1 => Pool!PoolAmount(q, s) > 0
  <2> SUFFICES ASSUME NEW s \in Pool!Sides
               PROVE  /\ ask[q].amount[s] \in Nat
                      /\ Pool!PoolAmount(q, s) \in Nat
                      /\ Pool!PoolAmount(q, s) <= ask[q].amount[s]
                      /\ ask[q].amount[s] > 1 => Pool!PoolAmount(q, s) > 0
    OBVIOUS
  <2> DEFINE a == ask[q].amount[s]
             f == ask[q].fine[s]
             n == Pool!PoolAmount(q, s)
  <2>1. a \in Nat /\ f \in {0, 1} /\ n \in Nat /\ n = a - f
    BY PoolAmounts
  <2> HIDE DEF a, f, n
  <2>2. n <= a /\ (a > 1 => n > 0)
    BY <2>1
  <2>3. QED
    BY <2>1, <2>2 DEF a, n
<1>3. \A s \in Pool!Sides : Pool!Pays(q, s) => p[s] >= Pool!PoolAmount(q, s)
  <2> SUFFICES ASSUME NEW s \in Pool!Sides, Pool!Pays(q, s)
               PROVE  p[s] >= Pool!PoolAmount(q, s)
    OBVIOUS
  <2> DEFINE a == ask[q].amount[s]
             n == Pool!PoolAmount(q, s)
             b == p[s]
  <2>1. a \in Nat /\ n \in Nat /\ b \in Nat /\ n <= a /\ b >= a
    BY <1>1, <1>2
  <2> HIDE DEF a, n, b
  <2>2. b >= n
    BY <2>1
  <2>3. QED
    BY <2>2 DEF b, n
<1>4. PoolKind[q] = "withdraw" => p["lp"] >= Pool!PoolAmount(q, Side[q])
  <2> DEFINE a == ask[q].amount[Side[q]]
             n == Pool!PoolAmount(q, Side[q])
             b == p["lp"]
  <2>1. a \in Nat /\ n \in Nat /\ b \in Nat /\ n <= a
    BY <1>1, <1>2
  <2>2. PoolKind[q] = "withdraw" => b >= a
    OBVIOUS
  <2> HIDE DEF a, n, b
  <2>3. b >= a => b >= n
    BY <2>1
  <2>4. QED
    BY <2>2, <2>3 DEF b, n
<1>5. PoolKind[q] # "deposit" => Pool!PoolAmount(q, Side[q]) > 0
  <2>1. PoolKind[q] # "deposit" => ~(ask[q].amount[Side[q]] <= 1)
    BY DEF Pool!NothingToMove
  <2>2. ~(ask[q].amount[Side[q]] <= 1) => ask[q].amount[Side[q]] > 1
    BY <1>1, <1>2
  <2>3. QED
    BY <1>1, <1>2, <2>1, <2>2
<1>6. PoolKind[q] = "deposit" => Pool!PoolAmount(q, "A") + Pool!PoolAmount(q, "B") > 0
  <2> SUFFICES ASSUME PoolKind[q] = "deposit"
               PROVE  Pool!PoolAmount(q, "A") + Pool!PoolAmount(q, "B") > 0
    OBVIOUS
  <2>1. PICK s \in Pool!Sides : ~(ask[q].amount[s] <= 1)
    BY DEF Pool!NothingToMove
  <2>2. ask[q].amount[s] > 1
    BY <1>2, <2>1
  <2>3. Pool!PoolAmount(q, s) > 0
    BY <1>2, <2>2
  <2> DEFINE a == Pool!PoolAmount(q, "A")
             b == Pool!PoolAmount(q, "B")
  <2>4. a \in Nat /\ b \in Nat /\ (a > 0 \/ b > 0)
    BY <1>1, <1>2, <2>3
  <2> HIDE DEF a, b
  <2>5. a + b > 0
    BY <2>4
  <2>6. QED
    BY <2>5 DEF a, b
<1>7. QED
  BY <1>3, <1>4, <1>5, <1>6 DEF Affords

(* No instruction of an answer is refused to a wallet that holds what the  *)
(* request names, in whole units where something is wrapped, and enough    *)
(* left wrapped where the pool pays less than is unwrapped.                *)
LEMMA RunsThrough ==
  ASSUME NEW q \in PoolRequests, ask[q] \in Pool!Asks(q), pPurse \in Purses,
         market \in Markets,
         ~Pool!ShortOfFunds(q), ~Pool!NothingToMove(q), ~Pool!LosesInWrapping(q),
         ~(Pool!Unwraps(q) /\ pPurse[Tagged] + Pool!LeftWrapped(q) < 0)
  PROVE  Pool!RunPool(q, market) # {}
<1> DEFINE i == Pool!PoolInstruction(q)
           d == market
<1>0. /\ Pool!Sides = {"A", "B"} /\ Pool!Owned = {"A", "B", "lp", "underlying"}
      /\ Unit \in Nat \ {0} /\ Side[q] \in Pool!Sides
      /\ \A s \in Pool!Owned : pPurse[s] \in Nat
      /\ \A s \in Pool!Sides : ask[q].amount[s] \in Nat
  BY PoolFacts, PoolAmounts DEF Pool!Sides, Pool!Owned, Purses
<1>1. \A s \in Pool!Sides :
        Pool!Pays(q, s) /\ s # Tagged => pPurse[s] >= ask[q].amount[s]
  <2> SUFFICES ASSUME NEW s \in Pool!Sides, Pool!Pays(q, s), s # Tagged
               PROVE  pPurse[s] >= ask[q].amount[s]
    OBVIOUS
  <2>1. ~(pPurse[s] < ask[q].amount[s])
    BY DEF Pool!ShortOfFunds, Pool!Funds
  <2>2. pPurse[s] \in Nat /\ ask[q].amount[s] \in Nat
    BY <1>0
  <2>3. QED
    BY <2>1, <2>2
<1>2. PoolKind[q] = "withdraw" => pPurse["lp"] >= ask[q].amount[Side[q]]
  <2>1. PoolKind[q] = "withdraw" => ~(pPurse["lp"] < ask[q].amount[Side[q]])
    BY DEF Pool!ShortOfFunds
  <2>2. pPurse["lp"] \in Nat /\ ask[q].amount[Side[q]] \in Nat
    BY <1>0
  <2>3. QED
    BY <2>1, <2>2
<1>3. CASE Pool!Wraps(q)
  <2>1. Tagged \in Pool!Sides /\ Pool!Pays(q, Tagged)
    BY <1>3 DEF Pool!Wraps
  <2> DEFINE w == Pool!WrapAmount(q)
             a == ask[q].amount[Tagged]
             u == pPurse["underlying"]
  <2>2. w \in Nat /\ w > 0 /\ w * Unit = a
    BY <1>3, WrappedAmount
  <2>3. ~(u * Unit < a)
    BY <2>1 DEF Pool!ShortOfFunds, Pool!Funds
  <2>4. u \in Nat
    BY <1>0
  <2> HIDE DEF w, a, u
  <2>5. u >= w
    <3> SUFFICES ASSUME u < w
                 PROVE  FALSE
      BY <2>2, <2>4
    <3>1. u * Unit < w * Unit
      BY <1>0, <2>2, <2>4
    <3>2. QED
      BY <2>2, <2>3, <3>1
  <2>6. PICK p : p \in Pool!Results(Wrapper(q), pPurse, d)
    BY <2>1, <2>2, <2>5, WrapRuns DEF Wrapper, w, u
  <2>7. /\ p \in Purses /\ p[Tagged] = pPurse[Tagged] + a
        /\ \A s \in Pool!Owned \ {Tagged, "underlying"} : p[s] = pPurse[s]
    BY <2>1, <2>2, <2>6, WrapRuns DEF Wrapper, w
  <2>8. p[Tagged] >= a
    <3>1. pPurse[Tagged] \in Nat /\ a \in Nat
      BY <1>0, <2>1 DEF a
    <3>2. QED
      BY <2>7, <3>1
  <2>9. \A s \in Pool!Sides : Pool!Pays(q, s) => p[s] >= ask[q].amount[s]
    BY <1>0, <1>1, <2>7, <2>8 DEF a
  <2>10. PoolKind[q] # "withdraw"
    BY <2>1 DEF Pool!Pays
  <2>11. Affords(q, p)
    BY <2>7, <2>9, <2>10, Enough
  <2>12. Pool!Results(i, p, d) # {}
    BY <2>7, <2>11, MiddleRuns
  <2>13. QED
    BY <1>3, <2>6, <2>12, PoolLists, RunTwo DEF PoolStep
<1>4. ASSUME ~Pool!Wraps(q)
      PROVE  Affords(q, pPurse)
  <2>1. \A s \in Pool!Sides : Pool!Pays(q, s) => s # Tagged
    BY <1>4 DEF Pool!Wraps
  <2>2. QED
    BY <1>1, <1>2, <2>1, Enough
<1>5. CASE Pool!Unwraps(q)
  <2>1. /\ Tagged \in Pool!Sides /\ Pool!Receives(q, Tagged) /\ ~Pool!Pays(q, Tagged)
        /\ PoolKind[q] # "deposit" /\ ~Pool!Wraps(q)
    BY <1>5 DEF Pool!Unwraps, Pool!Receives, Pool!Pays, Pool!Wraps
  <2> DEFINE n == Pool!PoolAmount(q, Side[q])
             a == ask[q].amount[Side[q]]
             f == ask[q].fine[Side[q]]
             c == Quote[d][i]
  <2>2. PICK p : p \in Pool!Results(i, pPurse, d)
    BY <1>4, <2>1, MiddleRuns
  <2>3. p \in Purses /\ Affords(q, pPurse) /\ Moved(q, pPurse, p, d, Tagged)
    BY <2>1, <2>2, MiddleRuns
  <2>4. a \in Nat /\ f \in {0, 1} /\ n \in Nat /\ n = a - f /\ c \in Nat
    BY <1>0, PoolAmounts, TradeQuoted
  <2>5. n > 0
    BY <2>1, <2>3 DEF Affords
  <2>6. p[Tagged] = pPurse[Tagged] + c
    BY <2>1, <2>3 DEF Moved
  <2>7. pPurse[Tagged] \in Nat /\ ~(pPurse[Tagged] + (c - a) < 0)
    BY <1>0, <1>5, <2>1 DEF Pool!LeftWrapped, Pool!Quoted
  <2> HIDE DEF n, a, f, c
  <2>8. p[Tagged] >= n
    BY <2>4, <2>6, <2>7
  <2>9. Pool!Results(Unwrapper(q), p, d) # {}
    BY <2>1, <2>3, <2>4, <2>5, <2>8, UnwrapRuns DEF Unwrapper, Pool!UnwrapAmount, n
  <2>10. QED
    BY <1>5, <2>2, <2>9, PoolLists, RunTwo DEF PoolStep
<1>6. CASE ~Pool!Wraps(q) /\ ~Pool!Unwraps(q)
  <2>1. Pool!Results(i, pPurse, d) # {}
    BY <1>4, <1>6, MiddleRuns
  <2>2. QED
    BY <1>6, <2>1, PoolLists, RunOne DEF PoolStep
<1>7. QED
  BY <1>3, <1>5, <1>6
-----------------------------------------------------------------------------
(* The inductive invariant.  What a handler observed was looked at, and    *)
(* what its transaction creates is the rest; an answer comes after the last*)
(* look-up.                                                                *)
Seen(q) ==
  pPc[q] \in {"preparing", "answered"} =>
    /\ pObserved[q] \subseteq Pool!Looked(q)
    /\ ~pFaulted[q] => pCreates[q] = Pool!Looked(q) \ pObserved[q]

PoolInv ==
  /\ pPurse \in Purses
  /\ market \in Markets
  /\ Pool!TypeOK
  /\ DOMAIN ask = PoolRequests
  /\ \A q \in PoolRequests : ask[q] \in Pool!Asks(q) /\ Seen(q)
  /\ \A q \in PoolRequests : pPc[q] = "answered" => pIdx[q] > Len(PoolCalls[q])

LEMMA NothingAsked ==
  ASSUME NEW q
  PROVE  Pool!NoAsk \in Pool!Asks(q)
<1> DEFINE a == Pool!NoAsk
<1>1. a \in [amount : [Pool!Sides -> Amounts \cup {0}], coarse : {0, 1},
             fine : [Pool!Sides -> {0, 1}]]
  BY DEF Pool!NoAsk
<1>2. a.coarse = 0 /\ \A s \in Pool!Sides : a.amount[s] = 0 /\ a.fine[s] = 0
  BY DEF Pool!NoAsk
<1> HIDE DEF a
<1>3. a \in Pool!Asks(q)
  BY <1>1, <1>2 DEF Pool!Asks
<1>4. QED
  BY <1>3 DEF a

LEMMA SeenFrame ==
  ASSUME NEW q, Seen(q),
         pPc'[q] \in {"preparing", "answered"} => pPc[q] \in {"preparing", "answered"},
         pIdx'[q] = pIdx[q], pCreates'[q] = pCreates[q],
         pObserved'[q] = pObserved[q], pFaulted'[q] = pFaulted[q]
  PROVE  Seen(q)'
<1>1. Pool!Looked(q)' = Pool!Looked(q)
  BY DEF Pool!Looked, Pool!Asked
<1>2. QED
  BY <1>1 DEF Seen

LEMMA PoolLookedGrows ==
  ASSUME PoolInv, NEW q \in PoolRequests, Pool!Awaiting(q),
         pIdx' = [pIdx EXCEPT ![q] = @ + 1]
  PROVE  LET m == Pool!Asked(q, pIdx[q]).mint
         IN  /\ Pool!Looked(q)' = Pool!Looked(q) \cup {m}
             /\ m \notin Pool!Looked(q) /\ m \in PoolMints \ {Native}
             /\ Pool!Asked(q, pIdx[q]).kept
<1> DEFINE n == pIdx[q]
           c == PoolCalls[q]
<1>1. /\ n \in Nat \ {0} /\ n <= Len(c) /\ pIdx'[q] = n + 1
  BY DEF PoolInv, Pool!TypeOK, Pool!Awaiting
<1>2. Orderly(c)
  BY PoolLooks
<1>3. n \in 1..Len(c) /\ c[n].mint \in Pool!Owned /\ c[n].kept
  BY <1>1, <1>2 DEF Orderly
<1>4. c[n].mint \in PoolMints \ {Native}
  BY <1>3, PoolFacts DEF Pool!Owned, Pool!Sides
<1>5. \A i \in 1..Len(c) : /\ i < n + 1 <=> (i < n \/ i = n)
                           /\ i < n => c[i].mint # c[n].mint
  <2>1. \A i \in 1..Len(c) : i < n => i # n
    BY <1>1
  <2>2. \A i \in 1..Len(c) : i < n => c[i].mint # c[n].mint
    BY <1>2, <1>3, <2>1 DEF Orderly
  <2>3. \A i \in 1..Len(c) : i < n + 1 <=> (i < n \/ i = n)
    BY <1>1
  <2>4. QED
    BY <2>2, <2>3
<1>6. Pool!Looked(q)' = Pool!Looked(q) \cup {c[n].mint}
  BY <1>1, <1>3, <1>4, <1>5 DEF Pool!Looked, Pool!Asked
<1>7. c[n].mint \notin Pool!Looked(q)
  BY <1>5 DEF Pool!Looked, Pool!Asked
<1>8. QED
  BY <1>3, <1>4, <1>6, <1>7 DEF Pool!Asked

(* A look-up goes for a mint of the pool, never for SOL.                   *)
LEMMA SeenLookup ==
  ASSUME PoolInv, NEW q \in PoolRequests, Pool!Lookup(q)
  PROVE  Seen(q)'
<1> DEFINE m == Pool!Asked(q, pIdx[q]).mint
<1>1. Pool!Awaiting(q) /\ pIdx' = [pIdx EXCEPT ![q] = @ + 1]
  BY DEF Pool!Lookup, Pool!LookupNative, Pool!LookupFound, Pool!LookupMissing,
         Pool!LookupFails
<1>2. /\ Pool!Looked(q)' = Pool!Looked(q) \cup {m}
      /\ m \notin Pool!Looked(q) /\ m \in PoolMints \ {Native}
      /\ Pool!Asked(q, pIdx[q]).kept
  BY <1>1, PoolLookedGrows
<1>3. /\ pObserved[q] \subseteq Pool!Looked(q)
      /\ ~pFaulted[q] => pCreates[q] = Pool!Looked(q) \ pObserved[q]
  BY <1>1 DEF PoolInv, Seen, Pool!Awaiting
<1>4. /\ DOMAIN pObserved = PoolRequests /\ DOMAIN pCreates = PoolRequests
      /\ DOMAIN pFaulted = PoolRequests
  BY DEF PoolInv, Pool!TypeOK
<1>5. CASE Pool!LookupNative(q)
  BY <1>2, <1>5 DEF Pool!LookupNative
<1>6. CASE Pool!LookupFound(q)
  <2>1. pObserved'[q] = pObserved[q] \cup {m} /\ pCreates' = pCreates /\ pFaulted' = pFaulted
    BY <1>4, <1>6 DEF Pool!LookupFound
  <2>2. QED
    BY <1>2, <1>3, <2>1 DEF Seen
<1>7. CASE Pool!LookupMissing(q)
  <2>1. pCreates'[q] = pCreates[q] \cup {m} /\ pObserved' = pObserved /\ pFaulted' = pFaulted
    BY <1>2, <1>4, <1>7 DEF Pool!LookupMissing, Pool!Prepend
  <2>2. QED
    BY <1>2, <1>3, <2>1 DEF Seen
<1>8. CASE Pool!LookupFails(q)
  <2>1. pObserved'[q] = pObserved[q] \cup ({m} \cap pAccounts) /\ pFaulted'[q]
    BY <1>4, <1>8 DEF Pool!LookupFails
  <2>2. QED
    BY <1>2, <1>3, <2>1 DEF Seen
<1>9. QED
  BY <1>5, <1>6, <1>7, <1>8 DEF Pool!Lookup
-----------------------------------------------------------------------------
(* The end of a request, whichever it is.                                  *)
Ends(q) == \E to \in {"idle", "done", "failed"} : Pool!Finish(q, to)

LEMMA ExecuteKeepsPurses ==
  ASSUME PoolInv, NEW q \in PoolRequests, Pool!PoolExecute(q)
  PROVE  pPurse' \in Purses
<1>1. pPurse' \in Pool!RunPool(q, market)
  BY DEF Pool!PoolExecute
<1>2. pPurse \in Purses /\ market \in Markets /\ ask[q] \in Pool!Asks(q)
  BY DEF PoolInv
<1>3. QED
  BY <1>1, <1>2, WrapperSettles

(* The steps, sorted by what they leave of a request's own fields.         *)
LEMMA PoolSteps ==
  ASSUME Pool!PoolNext
  PROVE  \/ \E q \in PoolRequests : Pool!PoolBegin(q) \/ Pool!PoolLookup(q) \/ Pool!PoolAnswer(q)
         \/ \E q \in PoolRequests : Ends(q) /\ (\/ Pool!PoolReject(q) \/ Pool!PoolExecute(q)
                                               \/ Pool!PoolRefuse(q) \/ Pool!PoolAbandon(q))
         \/ \E m \in PoolMints \ {Native} : Pool!PoolElsewhere(m)
         \/ \E s \in Pool!Owned : Pool!PoolSpend(s)
         \/ Pool!PoolTraded
<1>1. ASSUME NEW q \in PoolRequests,
             Pool!PoolReject(q) \/ Pool!PoolExecute(q) \/ Pool!PoolRefuse(q) \/ Pool!PoolAbandon(q)
      PROVE  Ends(q)
  BY <1>1 DEF Ends, Pool!PoolReject, Pool!PoolExecute, Pool!PoolRefuse, Pool!PoolAbandon
<1>2. QED
  BY <1>1 DEF Pool!PoolNext

LEMMA PurseKept ==
  ASSUME PoolInv, [Pool!PoolNext]_(Pool!poolVars)
  PROVE  pPurse' \in Purses
<1>0. pPurse \in Purses
  BY DEF PoolInv
<1>1. CASE UNCHANGED Pool!poolVars
  BY <1>0, <1>1 DEF Pool!poolVars
<1>2. ASSUME NEW q \in PoolRequests, Pool!PoolExecute(q)
      PROVE  pPurse' \in Purses
  BY <1>2, ExecuteKeepsPurses
<1>3. ASSUME NEW s \in Pool!Owned, Pool!PoolSpend(s)
      PROVE  pPurse' \in Purses
  <2>1. pPurse' = [pPurse EXCEPT ![s] = MaxOwned] /\ MaxOwned \in Nat
    BY <1>3, PoolFacts DEF Pool!PoolSpend
  <2>2. QED
    BY <1>0, <2>1 DEF Purses
<1>4. ASSUME NEW m, Pool!PoolElsewhere(m)
      PROVE  pPurse' \in Purses
  BY <1>0, <1>4 DEF Pool!PoolElsewhere
<1>5. ASSUME NEW q,
             \/ Pool!PoolBegin(q) \/ Pool!PoolLookup(q) \/ Pool!PoolAnswer(q)
             \/ Pool!PoolReject(q) \/ Pool!PoolRefuse(q) \/ Pool!PoolAbandon(q)
      PROVE  pPurse' \in Purses
  BY <1>0, <1>5 DEF Pool!PoolBegin, Pool!PoolLookup, Pool!PoolAnswer, Pool!PoolReject,
                    Pool!PoolRefuse, Pool!PoolAbandon
<1>6. ASSUME Pool!PoolTraded
      PROVE  pPurse' \in Purses
  BY <1>0, <1>6 DEF Pool!PoolTraded
<1>7. QED
  BY <1>1, <1>2, <1>3, <1>4, <1>5, <1>6 DEF Pool!PoolNext

LEMMA MarketKept ==
  ASSUME PoolInv, [Pool!PoolNext]_(Pool!poolVars)
  PROVE  market' \in Markets
<1>1. CASE market' = market
  BY <1>1 DEF PoolInv
<1>2. CASE Pool!PoolTraded
  BY <1>2 DEF Pool!PoolTraded
<1>3. ASSUME NEW q,
             \/ Pool!PoolBegin(q) \/ Pool!PoolLookup(q) \/ Pool!PoolAnswer(q)
             \/ Pool!PoolReject(q) \/ Pool!PoolExecute(q) \/ Pool!PoolRefuse(q)
             \/ Pool!PoolAbandon(q)
      PROVE  market' = market
  BY <1>3 DEF Pool!PoolBegin, Pool!PoolLookup, Pool!PoolAnswer, Pool!PoolReject,
              Pool!PoolExecute, Pool!PoolRefuse, Pool!PoolAbandon
<1>4. ASSUME NEW m, Pool!PoolElsewhere(m) \/ Pool!PoolSpend(m)
      PROVE  market' = market
  BY <1>4 DEF Pool!PoolElsewhere, Pool!PoolSpend
<1>5. ASSUME UNCHANGED Pool!poolVars
      PROVE  market' = market
  BY <1>5 DEF Pool!poolVars
<1>6. QED
  BY <1>1, <1>2, <1>3, <1>4, <1>5 DEF Pool!PoolNext

LEMMA AsksKept ==
  ASSUME PoolInv, [Pool!PoolNext]_(Pool!poolVars)
  PROVE  DOMAIN ask' = PoolRequests /\ \A q \in PoolRequests : ask'[q] \in Pool!Asks(q)
<1>0. DOMAIN ask = PoolRequests /\ \A q \in PoolRequests : ask[q] \in Pool!Asks(q)
  BY DEF PoolInv
<1>1. CASE ask' = ask
  BY <1>0, <1>1
<1>2. ASSUME NEW q, NEW a \in Pool!Asks(q), ask' = [ask EXCEPT ![q] = a]
      PROVE  DOMAIN ask' = PoolRequests /\ \A r \in PoolRequests : ask'[r] \in Pool!Asks(r)
  <2>1. DOMAIN ask' = PoolRequests
    BY <1>0, <1>2
  <2>2. \A r \in PoolRequests : ask'[r] = IF r = q THEN a ELSE ask[r]
    BY <1>0, <1>2
  <2>3. QED
    BY <1>0, <2>1, <2>2
<1>3. ASSUME NEW q, Ends(q)
      PROVE  DOMAIN ask' = PoolRequests /\ \A r \in PoolRequests : ask'[r] \in Pool!Asks(r)
  <2>1. ask' = [ask EXCEPT ![q] = Pool!NoAsk]
    BY <1>3 DEF Ends, Pool!Finish
  <2>2. QED
    BY <1>2, <2>1, NothingAsked
<1>4. ASSUME NEW q, Pool!PoolAnswer(q)
      PROVE  DOMAIN ask' = PoolRequests /\ \A r \in PoolRequests : ask'[r] \in Pool!Asks(r)
  <2>1. PICK a \in Pool!Asks(q) : ask' = [ask EXCEPT ![q] = a]
    BY <1>4 DEF Pool!PoolAnswer
  <2>2. QED
    BY <1>2, <2>1
<1>5. ASSUME NEW q, Pool!PoolBegin(q) \/ Pool!PoolLookup(q)
      PROVE  ask' = ask
  BY <1>5 DEF Pool!PoolBegin, Pool!PoolLookup
<1>6. ASSUME NEW m, Pool!PoolElsewhere(m) \/ Pool!PoolSpend(m)
      PROVE  ask' = ask
  BY <1>6 DEF Pool!PoolElsewhere, Pool!PoolSpend
<1>7. ASSUME UNCHANGED Pool!poolVars \/ Pool!PoolTraded
      PROVE  ask' = ask
  BY <1>7 DEF Pool!poolVars, Pool!PoolTraded
<1>8. QED
  BY <1>1, <1>3, <1>4, <1>5, <1>6, <1>7, PoolSteps

LEMMA PoolTypesKept ==
  ASSUME PoolInv, [Pool!PoolNext]_(Pool!poolVars)
  PROVE  Pool!TypeOK'
<1>0. Pool!TypeOK
  BY DEF PoolInv
<1> USE DEF Pool!TypeOK, Pool!PCs
<1>1. CASE UNCHANGED Pool!poolVars \/ Pool!PoolTraded
  BY <1>0, <1>1 DEF Pool!poolVars, Pool!PoolTraded, Pool!vars
<1>2. ASSUME NEW q \in PoolRequests, Pool!PoolBegin(q)
      PROVE  Pool!TypeOK'
  BY <1>0, <1>2 DEF Pool!PoolBegin, Pool!Begin
<1>3. ASSUME NEW q \in PoolRequests, Pool!PoolLookup(q)
      PROVE  Pool!TypeOK'
  <2>1. Pool!Lookup(q)
    BY <1>3 DEF Pool!PoolLookup
  <2> DEFINE m == Pool!Asked(q, pIdx[q]).mint
  <2>2. Pool!Awaiting(q) /\ pIdx' = [pIdx EXCEPT ![q] = @ + 1]
    BY <2>1 DEF Pool!Lookup, Pool!LookupNative, Pool!LookupFound, Pool!LookupMissing,
                Pool!LookupFails
  <2>3. m \in PoolMints \ {Native} /\ Pool!Asked(q, pIdx[q]).kept
    BY <2>2, PoolLookedGrows
  <2>4. pIdx' \in [PoolRequests -> Nat \ {0}]
    BY <1>0, <2>2
  <2>5. CASE Pool!LookupNative(q)
    BY <2>3, <2>5 DEF Pool!LookupNative
  <2>6. CASE Pool!LookupFound(q)
    <3> HIDE DEF m
    <3>1. pObserved' = [pObserved EXCEPT ![q] = @ \cup {m}]
      BY <2>6 DEF Pool!LookupFound, m
    <3>2. UNCHANGED <<pAccounts, pPc, pCreates, pFaulted>>
      BY <2>6 DEF Pool!LookupFound
    <3>3. QED
      BY <1>0, <2>3, <2>4, <3>1, <3>2
  <2>7. CASE Pool!LookupMissing(q)
    <3> HIDE DEF m
    <3>1. pCreates' = [pCreates EXCEPT ![q] = @ \cup {m}]
      BY <2>3, <2>7 DEF Pool!LookupMissing, Pool!Prepend, m
    <3>2. UNCHANGED <<pAccounts, pPc, pObserved, pFaulted>>
      BY <2>7 DEF Pool!LookupMissing
    <3>3. QED
      BY <1>0, <2>3, <2>4, <3>1, <3>2
  <2>8. CASE Pool!LookupFails(q)
    <3> HIDE DEF m
    <3>1. /\ pCreates' = [pCreates EXCEPT ![q] = @ \cup {m}]
          /\ pObserved' = [pObserved EXCEPT ![q] = @ \cup ({m} \cap pAccounts)]
          /\ pFaulted' = [pFaulted EXCEPT ![q] = TRUE]
      BY <2>3, <2>8 DEF Pool!LookupFails, Pool!Prepend, m
    <3>2. UNCHANGED <<pAccounts, pPc>>
      BY <2>8 DEF Pool!LookupFails
    <3>3. QED
      BY <1>0, <2>3, <2>4, <3>1, <3>2
  <2>9. QED
    BY <2>1, <2>5, <2>6, <2>7, <2>8 DEF Pool!Lookup
<1>4. ASSUME NEW q \in PoolRequests, Pool!PoolAnswer(q)
      PROVE  Pool!TypeOK'
  BY <1>0, <1>4 DEF Pool!PoolAnswer, Pool!Answer
<1>5. ASSUME NEW q \in PoolRequests, Ends(q),
             \/ Pool!PoolReject(q) \/ Pool!PoolExecute(q)
             \/ Pool!PoolRefuse(q) \/ Pool!PoolAbandon(q)
      PROVE  Pool!TypeOK'
  <2>1. pAccounts' = pAccounts \/ pAccounts' = pAccounts \cup pCreates[q]
    BY <1>5 DEF Pool!PoolReject, Pool!PoolExecute, Pool!PoolRefuse, Pool!PoolAbandon
  <2>2. pAccounts' \subseteq PoolMints \ {Native}
    BY <1>0, <2>1
  <2>3. QED
    BY <1>0, <1>5, <2>2 DEF Ends, Pool!Finish
<1>6. ASSUME NEW m \in PoolMints \ {Native}, Pool!PoolElsewhere(m)
      PROVE  Pool!TypeOK'
  BY <1>0, <1>6 DEF Pool!PoolElsewhere, Pool!OpenElsewhere, Pool!CloseElsewhere
<1>7. ASSUME NEW s \in Pool!Owned, Pool!PoolSpend(s)
      PROVE  Pool!TypeOK'
  BY <1>0, <1>7 DEF Pool!PoolSpend, Pool!vars
<1>8. QED
  BY <1>1, <1>2, <1>3, <1>4, <1>5, <1>6, <1>7, PoolSteps

LEMMA SeenKept ==
  ASSUME PoolInv, [Pool!PoolNext]_(Pool!poolVars), NEW r \in PoolRequests
  PROVE  /\ Seen(r)'
         /\ pPc'[r] = "answered" => pIdx'[r] > Len(PoolCalls[r])
<1>0. /\ Pool!TypeOK /\ Seen(r)
      /\ pPc[r] = "answered" => pIdx[r] > Len(PoolCalls[r])
  BY DEF PoolInv
<1> DEFINE Goal == Seen(r)' /\ (pPc'[r] = "answered" => pIdx'[r] > Len(PoolCalls[r]))
<1>1. ASSUME UNCHANGED <<pPc, pIdx, pCreates, pObserved, pFaulted>>
      PROVE  Goal
  BY <1>0, <1>1, SeenFrame
<1>2. ASSUME NEW q \in PoolRequests, Pool!PoolBegin(q)
      PROVE  Goal
  <2>1. CASE q # r
    BY <1>0, <1>2, <2>1, SeenFrame DEF Pool!PoolBegin, Pool!Begin, Pool!TypeOK
  <2>2. CASE q = r
    <3>1. /\ pIdx'[r] = 1 /\ pCreates'[r] = {} /\ pObserved'[r] = {}
          /\ pPc'[r] = "preparing"
      BY <1>0, <1>2, <2>2 DEF Pool!PoolBegin, Pool!Begin, Pool!TypeOK
    <3>2. Pool!Looked(r)' = {}
      BY <3>1 DEF Pool!Looked
    <3>3. QED
      BY <3>1, <3>2 DEF Seen
  <2>3. QED
    BY <2>1, <2>2
<1>3. ASSUME NEW q \in PoolRequests, Pool!PoolLookup(q)
      PROVE  Goal
  <2>1. Pool!Lookup(q)
    BY <1>3 DEF Pool!PoolLookup
  <2>2. CASE q # r
    <3>1. /\ pPc'[r] = pPc[r] /\ pIdx'[r] = pIdx[r] /\ pCreates'[r] = pCreates[r]
          /\ pObserved'[r] = pObserved[r] /\ pFaulted'[r] = pFaulted[r]
      BY <1>0, <2>1, <2>2
         DEF Pool!Lookup, Pool!LookupNative, Pool!LookupFound, Pool!LookupMissing,
             Pool!LookupFails, Pool!Prepend, Pool!TypeOK
    <3>2. QED
      BY <1>0, <3>1, SeenFrame
  <2>3. CASE q = r
    <3>1. Seen(r)'
      BY <2>1, <2>3, SeenLookup
    <3>2. pPc'[r] = "preparing"
      BY <1>0, <2>1, <2>3
         DEF Pool!Lookup, Pool!LookupNative, Pool!LookupFound, Pool!LookupMissing,
             Pool!LookupFails, Pool!Awaiting
    <3>3. QED
      BY <3>1, <3>2
  <2>4. QED
    BY <2>2, <2>3
<1>4. ASSUME NEW q \in PoolRequests, Pool!PoolAnswer(q)
      PROVE  Goal
  <2>1. /\ UNCHANGED <<pIdx, pCreates, pObserved, pFaulted>>
        /\ pPc[q] = "preparing" /\ pIdx[q] > Len(PoolCalls[q])
        /\ pPc' = [pPc EXCEPT ![q] = "answered"]
    BY <1>4 DEF Pool!PoolAnswer, Pool!Answer
  <2>2. pPc'[r] \in {"preparing", "answered"} => pPc[r] \in {"preparing", "answered"}
    BY <1>0, <2>1 DEF Pool!TypeOK
  <2>3. Seen(r)'
    BY <1>0, <2>1, <2>2, SeenFrame
  <2>4. pPc'[r] = "answered" => pIdx'[r] > Len(PoolCalls[r])
    BY <1>0, <2>1 DEF Pool!TypeOK
  <2>5. QED
    BY <2>3, <2>4
<1>5. ASSUME NEW q \in PoolRequests, Ends(q)
      PROVE  Goal
  <2>1. CASE q # r
    <3>1. /\ pPc'[r] = pPc[r] /\ pIdx'[r] = pIdx[r] /\ pCreates'[r] = pCreates[r]
          /\ pObserved'[r] = pObserved[r] /\ pFaulted'[r] = pFaulted[r]
      BY <1>0, <1>5, <2>1 DEF Ends, Pool!Finish, Pool!TypeOK
    <3>2. QED
      BY <1>0, <3>1, SeenFrame
  <2>2. CASE q = r
    <3>1. pPc'[r] \notin {"preparing", "answered"}
      BY <1>0, <1>5, <2>2 DEF Ends, Pool!Finish, Pool!TypeOK
    <3>2. QED
      BY <3>1 DEF Seen
  <2>3. QED
    BY <2>1, <2>2
<1>6. ASSUME NEW m, Pool!PoolElsewhere(m) \/ Pool!PoolSpend(m)
      PROVE  UNCHANGED <<pPc, pIdx, pCreates, pObserved, pFaulted>>
  BY <1>6 DEF Pool!PoolElsewhere, Pool!OpenElsewhere, Pool!CloseElsewhere,
              Pool!PoolSpend, Pool!vars
<1>7. ASSUME UNCHANGED Pool!poolVars \/ Pool!PoolTraded
      PROVE  UNCHANGED <<pPc, pIdx, pCreates, pObserved, pFaulted>>
  BY <1>7 DEF Pool!poolVars, Pool!PoolTraded, Pool!vars
<1> HIDE DEF Goal
<1>8. Goal
  BY <1>1, <1>2, <1>3, <1>4, <1>5, <1>6, <1>7, PoolSteps
<1>9. QED
  BY <1>8 DEF Goal
-----------------------------------------------------------------------------
(* The invariant holds in every reachable state.                           *)
THEOREM PoolInvariance == Pool!PoolSpec => []PoolInv
<1>1. Pool!PoolInit => PoolInv
  <2> SUFFICES ASSUME Pool!PoolInit
               PROVE  PoolInv
    OBVIOUS
  <2>1. pPurse \in Purses /\ market \in Markets
    BY PoolFacts DEF Pool!PoolInit, Purses
  <2>2. Pool!TypeOK /\ \A q \in PoolRequests : pPc[q] = "idle"
    BY DEF Pool!PoolInit, Pool!Init, Pool!TypeOK, Pool!PCs
  <2>3. DOMAIN ask = PoolRequests /\ \A q \in PoolRequests : ask[q] \in Pool!Asks(q)
    BY NothingAsked DEF Pool!PoolInit
  <2>4. QED
    BY <2>1, <2>2, <2>3 DEF PoolInv, Seen
<1>2. PoolInv /\ [Pool!PoolNext]_(Pool!poolVars) => PoolInv'
  BY PurseKept, MarketKept, AsksKept, PoolTypesKept, SeenKept DEF PoolInv
<1>3. QED
  BY <1>1, <1>2, PTL DEF Pool!PoolSpec

(* Only executing an answer makes a request done, only refusing it makes it*)
(* failed.                                                                 *)
LEMMA WhoEnds ==
  ASSUME PoolInv, [Pool!PoolNext]_(Pool!poolVars), NEW q \in PoolRequests
  PROVE  /\ Pool!Executed(q) => Pool!PoolExecute(q)
         /\ Pool!Refused(q) => Pool!PoolRefuse(q)
<1> SUFFICES ASSUME pPc[q] = "answered", pPc'[q] \in {"done", "failed"}
             PROVE  /\ pPc'[q] = "done" => Pool!PoolExecute(q)
                    /\ pPc'[q] = "failed" => Pool!PoolRefuse(q)
  BY DEF Pool!Executed, Pool!Refused
<1>0. DOMAIN pPc = PoolRequests
  BY DEF PoolInv, Pool!TypeOK
<1>1. pPc' # pPc /\ Pool!PoolNext
  BY DEF Pool!poolVars, Pool!vars
<1>2. ASSUME NEW r \in PoolRequests,
             Pool!PoolBegin(r) \/ Pool!PoolLookup(r) \/ Pool!PoolAnswer(r)
      PROVE  FALSE
  <2>1. r # q \/ pPc'[q] \notin {"done", "failed"}
    BY <1>0, <1>2 DEF Pool!PoolBegin, Pool!Begin, Pool!PoolLookup, Pool!Lookup,
       Pool!LookupNative, Pool!LookupFound, Pool!LookupMissing, Pool!LookupFails,
       Pool!PoolAnswer, Pool!Answer
  <2>2. r # q => pPc'[q] = pPc[q]
    BY <1>0, <1>2 DEF Pool!PoolBegin, Pool!Begin, Pool!PoolLookup, Pool!Lookup,
       Pool!LookupNative, Pool!LookupFound, Pool!LookupMissing, Pool!LookupFails,
       Pool!PoolAnswer, Pool!Answer
  <2>3. QED
    BY <2>1, <2>2
<1>3. ASSUME NEW r \in PoolRequests, NEW to, Pool!Finish(r, to)
      PROVE  r = q /\ pPc'[q] = to
  BY <1>0, <1>3 DEF Pool!Finish
<1>4. ASSUME NEW m, Pool!PoolElsewhere(m) \/ Pool!PoolSpend(m) \/ Pool!PoolTraded
      PROVE  FALSE
  BY <1>1, <1>4 DEF Pool!PoolElsewhere, Pool!OpenElsewhere, Pool!CloseElsewhere,
                    Pool!PoolSpend, Pool!PoolTraded, Pool!vars
<1>5. ASSUME NEW r \in PoolRequests, Pool!PoolReject(r) \/ Pool!PoolAbandon(r)
      PROVE  FALSE
  <2>1. Pool!Finish(r, "idle")
    BY <1>5 DEF Pool!PoolReject, Pool!PoolAbandon
  <2>2. QED
    BY <1>3, <2>1
<1>6. ASSUME NEW r \in PoolRequests, Pool!PoolExecute(r)
      PROVE  r = q /\ pPc'[q] = "done"
  BY <1>3, <1>6 DEF Pool!PoolExecute
<1>7. ASSUME NEW r \in PoolRequests, Pool!PoolRefuse(r)
      PROVE  r = q /\ pPc'[q] = "failed"
  BY <1>3, <1>7 DEF Pool!PoolRefuse
<1>8. QED
  BY <1>1, <1>2, <1>4, <1>5, <1>6, <1>7 DEF Pool!PoolNext

(* Wrapping goes by one rounding of the amount and paying by another,      *)
(* unwrapping by what was asked and not by what came in: whatever the      *)
(* amounts, the unit of the wrapper and the prices of the pool, an answer  *)
(* that executes leaves wrapped what the pool pays beyond the amount asked,*)
(* takes what it pays less from what was wrapped before, and is out by a   *)
(* unit at most.                                                           *)
THEOREM OnlyTheQuoteStaysWrapped == Pool!PoolSpec => WrappedByTheQuote
<1> DEFINE Settled(q) ==
      Pool!Executed(q) /\ Tagged \in Pool!Sides =>
         pPurse'[Tagged] - pPurse[Tagged] - Pool!LeftWrapped(q) \in -Unit..Unit
<1>1. ASSUME PoolInv, [Pool!PoolNext]_(Pool!poolVars), NEW q \in PoolRequests
      PROVE  Settled(q)
  <2> SUFFICES ASSUME Pool!Executed(q), Tagged \in Pool!Sides
               PROVE  pPurse'[Tagged] - pPurse[Tagged] - Pool!LeftWrapped(q) \in -Unit..Unit
    OBVIOUS
  <2>1. Pool!PoolExecute(q)
    BY <1>1, WhoEnds
  <2>2. pPurse' \in Pool!RunPool(q, market)
    BY <2>1 DEF Pool!PoolExecute
  <2>3. pPurse \in Purses /\ market \in Markets /\ ask[q] \in Pool!Asks(q)
    BY <1>1 DEF PoolInv
  <2>4. QED
    BY <2>2, <2>3, WrapperSettles
<1>2. PoolInv /\ [Pool!PoolNext]_(Pool!poolVars)
        => [\A q \in PoolRequests : Settled(q)]_(Pool!poolVars)
  BY <1>1
<1>3. QED
  BY <1>2, PoolInvariance, PTL DEF Pool!PoolSpec, WrappedByTheQuote, Pool!WrappedByTheQuote

-----------------------------------------------------------------------------
(* Every account that an instruction names has been looked up.             *)
LEMMA UsesLookedUp ==
  ASSUME NEW q \in PoolRequests
  PROVE  \A k \in 1..Len(Pool!PoolInstructions(q)) :
            Pool!Uses(Pool!PoolInstructions(q)[k]) \subseteq MintsOf(PoolCalls[q])
<1> DEFINE i == Pool!PoolInstruction(q)
           M == MintsOf(PoolCalls[q])
<1>1. /\ {"A", "B"} \subseteq M /\ Side[q] \in {"A", "B"}
      /\ PoolKind[q] # "swap" => "lp" \in M
      /\ Pool!Wraps(q) \/ Pool!Unwraps(q) => Tagged \in {"A", "B"} /\ "underlying" \in M
      /\ PoolKind[q] \in {"deposit", "withdraw", "swap"}
  BY PoolLooks, PoolFacts DEF Pool!Wraps, Pool!Unwraps, Pool!Sides
<1>2. Pool!Uses(i) \subseteq M
  <2>1. CASE PoolKind[q] = "deposit"
    <3>1. i.op = "deposit"
      BY <2>1 DEF Pool!PoolInstruction
    <3> HIDE DEF i, M
    <3>2. QED
      BY <1>1, <2>1, <3>1 DEF Pool!Uses
  <2>2. CASE PoolKind[q] = "withdraw"
    <3>1. i.op = "withdraw" /\ i.side = Side[q]
      BY <2>2 DEF Pool!PoolInstruction
    <3> HIDE DEF i, M
    <3>2. QED
      BY <1>1, <2>2, <3>1 DEF Pool!Uses
  <2>3. CASE PoolKind[q] = "swap"
    <3>1. i.op = "swap"
      BY <2>3 DEF Pool!PoolInstruction
    <3> HIDE DEF i, M
    <3>2. QED
      BY <1>1, <2>3, <3>1 DEF Pool!Uses
  <2>4. QED
    BY <1>1, <2>1, <2>2, <2>3
<1>3. /\ Pool!Uses(Wrapper(q)) = {Tagged, "underlying"}
      /\ Pool!Uses(Unwrapper(q)) = {Tagged, "underlying"}
  BY DEF Pool!Uses, Wrapper, Unwrapper
<1> HIDE DEF i, M
<1>4. CASE Pool!Wraps(q)
  <2>1. Pool!PoolInstructions(q) = <<Wrapper(q), i>>
    BY <1>4, PoolLists DEF i
  <2>2. \A k \in 1..Len(<<Wrapper(q), i>>) : <<Wrapper(q), i>>[k] \in {Wrapper(q), i}
    OBVIOUS
  <2>3. QED
    BY <1>1, <1>2, <1>3, <1>4, <2>1, <2>2 DEF M
<1>5. CASE Pool!Unwraps(q)
  <2>1. Pool!PoolInstructions(q) = <<i, Unwrapper(q)>>
    BY <1>5, PoolLists DEF i
  <2>2. \A k \in 1..Len(<<i, Unwrapper(q)>>) : <<i, Unwrapper(q)>>[k] \in {Unwrapper(q), i}
    OBVIOUS
  <2>3. QED
    BY <1>1, <1>2, <1>3, <1>5, <2>1, <2>2 DEF M
<1>6. CASE ~Pool!Wraps(q) /\ ~Pool!Unwraps(q)
  <2>1. Pool!PoolInstructions(q) = <<i>>
    BY <1>6, PoolLists DEF i
  <2>2. \A k \in 1..Len(<<i>>) : <<i>>[k] = i
    OBVIOUS
  <2>3. QED
    BY <1>2, <2>1, <2>2 DEF M
<1>7. QED
  BY <1>4, <1>5, <1>6

(* A snapshot that is right and still holds names only accounts that will  *)
(* be there.                                                               *)
LEMMA AccountsFound ==
  ASSUME PoolInv, NEW q \in PoolRequests, pPc[q] = "answered", ~pFaulted[q],
         pAccounts \cap Pool!Looked(q) = pObserved[q]
  PROVE  Pool!AccountsThere(q)
<1> DEFINE M == MintsOf(PoolCalls[q])
           c == PoolCalls[q]
<1>1. pCreates[q] = Pool!Looked(q) \ pObserved[q] /\ pIdx[q] > Len(c) /\ pIdx[q] \in Nat
  BY DEF PoolInv, Seen, Pool!TypeOK
<1>2. Orderly(c)
  BY PoolLooks
<1>3. M \subseteq Pool!Looked(q)
  <2>1. \A i \in 1..Len(c) : i < pIdx[q]
    BY <1>1, <1>2 DEF Orderly
  <2>2. \A i \in 1..Len(c) : c[i].mint \in PoolMints \ {Native}
    BY <1>2, PoolFacts DEF Orderly, Pool!Owned, Pool!Sides
  <2>3. QED
    BY <2>1, <2>2 DEF MintsOf, Pool!Looked, Pool!Asked
<1>4. Pool!Looked(q) \subseteq pAccounts \cup pCreates[q]
  BY <1>1
<1>5. pCreates[q] \cap pAccounts = {}
  BY <1>1
<1>6. \A k \in 1..Len(Pool!PoolInstructions(q)) :
         Pool!Uses(Pool!PoolInstructions(q)[k]) \subseteq pAccounts \cup pCreates[q]
  BY <1>3, <1>4, UsesLookedUp
<1>7. QED
  BY <1>5, <1>6 DEF Pool!AccountsThere

(* Every refusal has one of the six causes: with the accounts as they were *)
(* seen, enough in the wallet, whole units where something is wrapped and, *)
(* where something is unwrapped, what the pool pays beside what was left   *)
(* wrapped before no less than the amount named, no instruction of an      *)
(* answer fails, at whatever price.                                        *)
THEOREM PoolRefusalsAreExplained == Pool!PoolSpec => PoolRefusalExplained
<1> DEFINE Explained(q) ==
      Pool!Refused(q) =>
         \/ pFaulted[q]
         \/ pAccounts \cap Pool!Looked(q) # pObserved[q]
         \/ Pool!ShortOfFunds(q)
         \/ Pool!NothingToMove(q)
         \/ Pool!LosesInWrapping(q)
         \/ Pool!Unwraps(q) /\ pPurse[Tagged] + Pool!LeftWrapped(q) < 0
<1>1. ASSUME PoolInv, [Pool!PoolNext]_(Pool!poolVars), NEW q \in PoolRequests
      PROVE  Explained(q)
  <2> SUFFICES ASSUME Pool!Refused(q), ~Explained(q)
               PROVE  FALSE
    OBVIOUS
  <2>1. pPc[q] = "answered"
    BY DEF Pool!Refused
  <2>2. Pool!AccountsThere(q)
    BY <1>1, <2>1, AccountsFound
  <2>3. Pool!PoolRefuse(q)
    BY <1>1, WhoEnds
  <2>4. Pool!RunPool(q, market) = {}
    BY <2>2, <2>3 DEF Pool!PoolRefuse
  <2>5. pPurse \in Purses /\ market \in Markets /\ ask[q] \in Pool!Asks(q)
    BY <1>1 DEF PoolInv
  <2>6. QED
    BY <2>4, <2>5, RunsThrough
<1>2. PoolInv /\ [Pool!PoolNext]_(Pool!poolVars)
        => [\A q \in PoolRequests : Explained(q)]_(Pool!poolVars)
  BY <1>1
<1>3. QED
  BY <1>2, PoolInvariance, PTL
     DEF Pool!PoolSpec, PoolRefusalExplained, Pool!PoolRefusalExplained
=============================================================================
