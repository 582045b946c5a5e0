-------------------------- MODULE MiddlewareProofs --------------------------
(***************************************************************************)
(* The middleware onion for any number of runs, any layers in any order    *)
(* and any number of attempts.  Where a property needs an order of the     *)
(* layers, the theorem names it as a hypothesis on the runners.            *)
(***************************************************************************)
EXTENDS Middleware, TLAPS

Phases == {"idle", "call", "claim", "reget", "returned", "running",
           "value", "error", "cancelled", "finished"}

\* A run on its way inwards, the backend included.
Inward == {"call", "claim", "reget", "returned", "running"}

TxnStates == {"open", "committed", "refused", "rolled back"}

Values == Runs \X Nat

\* Where a run can be in each phase.
Placed(r) ==
    /\ phase[r] \in {"idle", "finished"} => at[r] = 0
    /\ phase[r] = "call" => at[r] \in 1..Backend
    /\ phase[r] \in {"claim", "reget"} =>
          at[r] \in 1..Len(Layers) /\ Layers[at[r]] = "idempotency"
    /\ phase[r] \in {"returned", "running"} => at[r] = Backend
    /\ phase[r] \in Outcomes => at[r] \in 0..Len(Layers)
    /\ phase[r] = "value" => value[r] \in Values
    /\ phase[r] = "returned" => Async /\ ~looping[r]
    /\ looping[r] => Async
    /\ ~(Async /\ Cancellable) => phase[r] # "cancelled"

TypeInv ==
    /\ runner \in Runners
    /\ phase \in [Runs -> Phases]
    /\ at \in [Runs -> Int]
    /\ tries \in [Runs -> Nat]
    /\ looping \in [Runs -> BOOLEAN]
    /\ value \in [Runs -> {NoValue} \cup Values]
    /\ plain \in [Runs -> BOOLEAN]
    /\ calls \in [Runs -> Nat]
    /\ store \in {Free, Claimed} \cup {Completed(v) : v \in Values}
    /\ txns \in [Runs -> Seq(TxnStates)]
    /\ audit \in [Runs -> Seq({"started", "completed", "failed"})]
    /\ \A r \in Runs : Placed(r)

\* What the layers of a runner are.
LEMMA LayerFacts ==
    ASSUME TypeInv
    PROVE  /\ Len(Layers) \in Nat /\ DOMAIN Layers = 1..Len(Layers)
           /\ Backend = Len(Layers) + 1
           /\ \A i \in 1..Len(Layers) : Layers[i] \in LayerKinds
           /\ \A i, j \in 1..Len(Layers) : Layers[i] = Layers[j] => i = j
           /\ Async \in BOOLEAN /\ Cancellable \in BOOLEAN
           /\ RetryLayers = {d \in 1..Len(Layers) : Layers[d] = "retry"}
  <1>1. Layers \in Seq(LayerKinds)
    BY MiddlewareAssumption DEF TypeInv, Layers
  <1>2. \A i, j \in DOMAIN Layers : Layers[i] = Layers[j] => i = j
    BY MiddlewareAssumption DEF TypeInv, Layers
  <1>3. Async \in BOOLEAN /\ Cancellable \in BOOLEAN
    BY MiddlewareAssumption DEF TypeInv, Async, Cancellable
  <1>4. DOMAIN Layers = 1..Len(Layers) /\ Len(Layers) \in Nat
    BY <1>1
  <1>5. RetryLayers = {d \in 1..Len(Layers) : Layers[d] = "retry"}
    BY <1>4 DEF RetryLayers
  <1> QED BY <1>1, <1>2, <1>3, <1>4, <1>5 DEF Backend

\* The runner never changes.
LEMMA SameRunner ==
    ASSUME UNCHANGED runner
    PROVE  /\ Layers' = Layers /\ Backend' = Backend /\ Async' = Async
           /\ Cancellable' = Cancellable /\ RetryLayers' = RetryLayers
  BY DEF Layers, Backend, Async, Cancellable, RetryLayers

\* The entries of the store tell its states apart.
LEMMA StoreFacts ==
    ASSUME TypeInv
    PROVE  /\ Stored => store.value \in Values /\ store = Completed(store.value)
           /\ ~Stored => store \in {Free, Claimed}
           /\ Free # Claimed
           /\ \A v : Completed(v) \notin {Free, Claimed} /\ Completed(v).value = v
           /\ \A v : Completed(v).state = "completed"
  BY DEF TypeInv, Stored, Free, Claimed, Completed

\* Closing a transaction keeps a sequence of transactions.
LEMMA CloseType ==
    ASSUME NEW s \in Seq(TxnStates), NEW x \in TxnStates
    PROVE  /\ [s EXCEPT ![Len(s)] = x] \in Seq(TxnStates)
           /\ Len([s EXCEPT ![Len(s)] = x]) = Len(s)
           /\ DOMAIN [s EXCEPT ![Len(s)] = x] = DOMAIN s
           /\ \A i \in DOMAIN s : [s EXCEPT ![Len(s)] = x][i] = IF i = Len(s) THEN x ELSE s[i]
  <1> DEFINE n == Len(s)  t == [s EXCEPT ![n] = x]
  <1>1. n \in Nat /\ DOMAIN s = 1..n /\ \A i \in 1..n : s[i] \in TxnStates
    OBVIOUS
  <1>2. t = [i \in 1..n |-> IF i = n THEN x ELSE s[i]]
    BY <1>1
  <1> HIDE DEF n, t
  <1>3. t \in [1..n -> TxnStates] /\ DOMAIN t = 1..n
    BY <1>1, <1>2
  <1>4. t \in Seq(TxnStates) /\ Len(t) = n
    BY <1>1, <1>3
  <1> QED BY <1>1, <1>2, <1>3, <1>4 DEF n, t

\* Nothing has run.
LEMMA InitType == Init => TypeInv
  BY DEF Init, TypeInv, Phases, Placed, Outcomes, NoValue

\* A step of one run changes what is its own, and leaves the others where they are.
LEMMA OwnStep ==
    ASSUME TypeInv, NEW r \in Runs, Step(r)
    PROVE  /\ phase' = [phase EXCEPT ![r] = phase'[r]] /\ at' = [at EXCEPT ![r] = at'[r]]
           /\ tries' = [tries EXCEPT ![r] = tries'[r]]
           /\ looping' = [looping EXCEPT ![r] = looping'[r]]
           /\ value' = [value EXCEPT ![r] = value'[r]]
           /\ plain' = [plain EXCEPT ![r] = plain'[r]]
           /\ calls' = [calls EXCEPT ![r] = calls'[r]]
           /\ txns' = [txns EXCEPT ![r] = txns'[r]]
           /\ audit' = [audit EXCEPT ![r] = audit'[r]]
  <1>1. CASE Start(r)
    BY <1>1 DEF TypeInv, Start, Go
  <1>2. CASE CallAudit(r)
    BY <1>2 DEF TypeInv, CallAudit, In, Go
  <1>3. CASE CallTransaction(r)
    BY <1>3 DEF TypeInv, CallTransaction, In, Go
  <1>4. CASE CallRetry(r)
    BY <1>4 DEF TypeInv, CallRetry, In, Go
  <1>5. CASE CallIdempotency(r)
    BY <1>5 DEF TypeInv, CallIdempotency, ReturnStored, In, Go
  <1>6. CASE Claim(r)
    BY <1>6 DEF TypeInv, Claim, Go
  <1>7. CASE Reget(r)
    BY <1>7 DEF TypeInv, Reget, ReturnStored, Go
  <1>8. CASE CallBackend(r)
    BY <1>8 DEF TypeInv, CallBackend, Go
  <1>9. CASE Await(r)
    BY <1>9 DEF TypeInv, Await, Go
  <1>10. CASE RunBackend(r)
    BY <1>10 DEF TypeInv, RunBackend, Go
  <1>11. CASE LeaveAudit(r)
    BY <1>11 DEF TypeInv, LeaveAudit, In, Go
  <1>12. CASE LeaveTransaction(r)
    BY <1>12 DEF TypeInv, LeaveTransaction, CloseTransaction, In, Go
  <1>13. CASE LeaveIdempotency(r)
    BY <1>13 DEF TypeInv, LeaveIdempotency, In, Go
  <1>14. CASE LeaveRetry(r)
    BY <1>14 DEF TypeInv, LeaveRetry, AttemptFailed, In, Go
  <1>15. CASE Finish(r)
    BY <1>15 DEF TypeInv, Finish, Go
  <1> QED BY <1>1, <1>2, <1>3, <1>4, <1>5, <1>6, <1>7, <1>8, <1>9, <1>10, <1>11, <1>12, <1>13, <1>14, <1>15
          DEF Step

\* The other runs keep all that is theirs.
LEMMA OthersStay ==
    ASSUME TypeInv, NEW r \in Runs, Step(r), NEW s \in Runs, s # r
    PROVE  /\ phase'[s] = phase[s] /\ at'[s] = at[s] /\ tries'[s] = tries[s]
           /\ looping'[s] = looping[s] /\ value'[s] = value[s] /\ plain'[s] = plain[s]
           /\ calls'[s] = calls[s] /\ txns'[s] = txns[s] /\ audit'[s] = audit[s]
  BY OwnStep DEF TypeInv

\* A step of a run keeps the types.
LEMMA TypeStep ==
    ASSUME TypeInv, NEW r \in Runs, Step(r)
    PROVE  TypeInv'
  <1>1. /\ Len(Layers) \in Nat /\ DOMAIN Layers = 1..Len(Layers)
        /\ Backend = Len(Layers) + 1 /\ Async \in BOOLEAN /\ Cancellable \in BOOLEAN
        /\ \A d \in RetryLayers : d \in 1..Len(Layers)
    BY LayerFacts
  <1>2. /\ UNCHANGED runner /\ Layers' = Layers /\ Backend' = Backend
        /\ Async' = Async /\ Cancellable' = Cancellable
    BY SameRunner DEF Step
  <1>3. ASSUME NEW s \in Runs, s # r PROVE Placed(s)'
    BY <1>2, <1>3, OthersStay DEF TypeInv, Placed
  <1> DEFINE Own == /\ phase'[r] \in Phases /\ at'[r] \in Int
                    /\ tries'[r] \in Nat /\ looping'[r] \in BOOLEAN
                    /\ value'[r] \in {NoValue} \cup Values
                    /\ plain'[r] \in BOOLEAN /\ calls'[r] \in Nat
                    /\ store' \in {Free, Claimed} \cup {Completed(v) : v \in Values}
                    /\ txns'[r] \in Seq(TxnStates)
                    /\ audit'[r] \in Seq({"started", "completed", "failed"})
  <1>4. SUFFICES Own /\ Placed(r)'
    <2>1. Own
      BY <1>4
    <2>2. /\ phase' \in [Runs -> Phases] /\ at' \in [Runs -> Int]
          /\ tries' \in [Runs -> Nat] /\ looping' \in [Runs -> BOOLEAN]
      BY ZenonT(40), <2>1, OwnStep DEF TypeInv
    <2>3. /\ value' \in [Runs -> {NoValue} \cup Values]
          /\ plain' \in [Runs -> BOOLEAN] /\ calls' \in [Runs -> Nat]
      BY ZenonT(40), <2>1, OwnStep DEF TypeInv
    <2>4. /\ txns' \in [Runs -> Seq(TxnStates)]
          /\ audit' \in [Runs -> Seq({"started", "completed", "failed"})]
      BY <2>1, OwnStep DEF TypeInv
    <2>5. \A s \in Runs : Placed(s)'
      BY <1>3, <1>4
    <2> QED BY <1>2, <2>1, <2>2, <2>3, <2>4, <2>5 DEF TypeInv
  <1>5. /\ phase \in [Runs -> Phases] /\ at \in [Runs -> Int]
        /\ tries \in [Runs -> Nat] /\ looping \in [Runs -> BOOLEAN]
        /\ value \in [Runs -> {NoValue} \cup Values]
        /\ plain \in [Runs -> BOOLEAN] /\ calls \in [Runs -> Nat]
        /\ store \in {Free, Claimed} \cup {Completed(v) : v \in Values}
        /\ txns \in [Runs -> Seq(TxnStates)]
        /\ audit \in [Runs -> Seq({"started", "completed", "failed"})]
        /\ Placed(r)
    BY DEF TypeInv
  <1>6. CASE Start(r)
    <2>1. Own
      BY <1>1, <1>5, <1>6 DEF Placed, Phases, Start, Go
    <2>2. Placed(r)'
      BY <1>1, <1>2, <1>5, <1>6 DEF Placed, Outcomes, Start, Go
    <2> QED BY <2>1, <2>2
  <1>7. CASE CallAudit(r)
    <2>1. Own
      BY <1>1, <1>5, <1>7 DEF Placed, Phases, CallAudit, In, Go
    <2>2. Placed(r)'
      BY <1>1, <1>2, <1>5, <1>7 DEF Placed, Outcomes, CallAudit, In, Go
    <2> QED BY <2>1, <2>2
  <1>8. CASE CallTransaction(r)
    <2>1. Own
      <3>1. txns'[r] \in Seq(TxnStates)
        <4>1. txns'[r] = Append(txns[r], "open")
          BY <1>5, <1>8 DEF CallTransaction
        <4>2. txns[r] \in Seq(TxnStates) /\ "open" \in TxnStates
          BY <1>5 DEF TxnStates
        <4> QED BY <4>1, <4>2
      <3> QED BY <1>5, <1>8, <3>1 DEF Phases, CallTransaction, Go
    <2>2. Placed(r)'
      BY <1>1, <1>2, <1>5, <1>8 DEF Placed, Outcomes, CallTransaction, In, Go
    <2> QED BY <2>1, <2>2
  <1>9. CASE CallRetry(r)
    <2>1. Own
      BY <1>1, <1>5, <1>9 DEF Placed, Phases, CallRetry, In, Go
    <2>2. Placed(r)'
      BY <1>1, <1>2, <1>5, <1>9 DEF Placed, Outcomes, CallRetry, In, Go
    <2> QED BY <2>1, <2>2
  <1>10. CASE CallIdempotency(r)
    <2>1. Stored => store.value \in Values
      BY StoreFacts
    <2>2. Own
      <3>1. CASE ReturnStored(r)
        BY <1>5, <2>1, <3>1 DEF Phases, ReturnStored, In, Go
      <3>2. CASE ~ReturnStored(r)
        BY <1>5, <1>10, <3>2 DEF Phases, CallIdempotency, Go
      <3> QED BY <3>1, <3>2
    <2>3. Placed(r)'
      BY <1>1, <1>2, <1>5, <1>10, <2>1 DEF Placed, Outcomes, CallIdempotency, ReturnStored, In, Go
    <2> QED BY <2>2, <2>3
  <1>11. CASE Claim(r)
    <2>1. Own
      BY <1>1, <1>5, <1>11 DEF Placed, Phases, Claim, Go
    <2>2. Placed(r)'
      BY <1>1, <1>2, <1>5, <1>11 DEF Placed, Outcomes, Claim, Go
    <2> QED BY <2>1, <2>2
  <1>12. CASE Reget(r)
    <2>1. Stored => store.value \in Values
      BY StoreFacts
    <2>2. Own
      <3>1. CASE ReturnStored(r)
        BY <1>5, <2>1, <3>1 DEF Phases, ReturnStored, Go
      <3>2. CASE ~ReturnStored(r)
        BY <1>5, <1>12, <3>2 DEF Phases, Reget, Go
      <3> QED BY <3>1, <3>2
    <2>3. Placed(r)'
      BY <1>1, <1>2, <1>5, <1>12, <2>1 DEF Placed, Outcomes, Reget, ReturnStored, Go
    <2> QED BY <2>2, <2>3
  <1>13. CASE CallBackend(r)
    <2>1. Own
      BY <1>1, <1>5, <1>13 DEF Placed, Phases, CallBackend, Go
    <2>2. Placed(r)'
      BY <1>1, <1>2, <1>5, <1>13 DEF Placed, Outcomes, CallBackend, Go
    <2> QED BY <2>1, <2>2
  <1>14. CASE Await(r)
    <2>1. Own
      <3>1. phase'[r] \in Phases /\ at'[r] \in Int
        BY <1>1, <1>5, <1>14 DEF Phases, Await, Go
      <3>2. tries'[r] \in Nat /\ looping'[r] \in BOOLEAN
        <4>1. CASE UNCHANGED <<tries, looping>>
          BY <1>5, <4>1
        <4>2. CASE /\ tries' = [tries EXCEPT ![r] = 1]
                   /\ looping' = [looping EXCEPT ![r] = TRUE]
          BY <1>5, <4>2
        <4> QED BY <1>14, <4>1, <4>2 DEF Await
      <3> QED BY <1>5, <1>14, <3>1, <3>2 DEF Await
    <2>2. Placed(r)'
      BY <1>1, <1>2, <1>5, <1>14 DEF Placed, Outcomes, Await, Go
    <2> QED BY <2>1, <2>2
  <1>15. CASE RunBackend(r)
    <2>1. Own
      BY <1>1, <1>5, <1>15 DEF Placed, Phases, RunBackend, Go, Values
    <2>2. Placed(r)'
      <3>1. value'[r] \in Values
        BY <1>5, <1>15 DEF RunBackend, Values
      <3>2. phase'[r] \in Outcomes /\ at'[r] = at[r] - 1 /\ at[r] = Len(Layers) + 1
        BY <1>1, <1>5, <1>15 DEF Placed, Outcomes, RunBackend, Go
      <3>3. at'[r] \in 0..Len(Layers)
        BY <1>1, <3>2
      <3>4. ~(Async /\ Cancellable) => phase'[r] # "cancelled"
        BY <1>5, <1>15 DEF RunBackend, Go
      <3>5. looping'[r] = looping[r]
        BY <1>15 DEF RunBackend
      <3> QED BY <1>2, <1>5, <3>1, <3>2, <3>3, <3>4, <3>5 DEF Placed, Outcomes
    <2> QED BY <2>1, <2>2
  <1>16. CASE LeaveAudit(r)
    <2>1. Own
      BY <1>1, <1>5, <1>16 DEF Placed, Phases, LeaveAudit, In, Go, Outcomes
    <2>2. Placed(r)'
      BY <1>1, <1>2, <1>5, <1>16 DEF Placed, Outcomes, LeaveAudit, In, Go
    <2> QED BY <2>1, <2>2
  <1>17. CASE LeaveTransaction(r)
    <2>1. PICK p \in Outcomes : Go(r, p, at[r] - 1) /\ at[r] \in 1..Len(Layers)
                              /\ (p = "value" => phase[r] = "value")
                              /\ (p = "cancelled" => phase[r] = "cancelled")
      BY <1>1, <1>17 DEF LeaveTransaction, In, Outcomes
    <2>2. UNCHANGED <<tries, looping, value, plain, calls, store, audit>>
      BY <1>17 DEF LeaveTransaction
    <2>3. txns'[r] \in Seq(TxnStates)
      <3>1. txns'[r] = txns[r] \/ \E x \in TxnStates : txns'[r] = [txns[r] EXCEPT ![Len(txns[r])] = x]
        BY <1>5, <1>17 DEF LeaveTransaction, CloseTransaction, TxnStates
      <3>2. txns[r] \in Seq(TxnStates)
        BY <1>5
      <3>3. CASE \E x \in TxnStates : txns'[r] = [txns[r] EXCEPT ![Len(txns[r])] = x]
        BY <3>2, <3>3, CloseType
      <3> QED BY <3>1, <3>2, <3>3
    <2>4. Own
      BY <1>5, <2>1, <2>2, <2>3 DEF Go, Phases, Outcomes
    <2>5. Placed(r)'
      BY <1>1, <1>2, <1>5, <2>1, <2>2 DEF Go, Outcomes, Placed
    <2> QED BY <2>4, <2>5
  <1>18. CASE LeaveIdempotency(r)
    <2>1. Own
      BY <1>1, <1>5, <1>18 DEF Placed, Phases, LeaveIdempotency, In, Go, Outcomes
    <2>2. Placed(r)'
      BY <1>1, <1>2, <1>5, <1>18 DEF Placed, Outcomes, LeaveIdempotency, In, Go
    <2> QED BY <2>1, <2>2
  <1>19. CASE LeaveRetry(r)
    <2>1. Own
      BY <1>1, <1>5, <1>19 DEF Placed, Phases, LeaveRetry, AttemptFailed, In, Go
    <2>2. Placed(r)'
      BY <1>1, <1>2, <1>5, <1>19 DEF Placed, Outcomes, LeaveRetry, AttemptFailed, In, Go
    <2> QED BY <2>1, <2>2
  <1>20. CASE Finish(r)
    <2>1. Own
      BY <1>1, <1>5, <1>20 DEF Placed, Phases, Finish, Go
    <2>2. Placed(r)'
      BY <1>1, <1>2, <1>5, <1>20 DEF Placed, Outcomes, Finish, Go
    <2> QED BY <2>1, <2>2
  <1> QED BY <1>6, <1>7, <1>8, <1>9, <1>10, <1>11, <1>12, <1>13, <1>14, <1>15, <1>16, <1>17, <1>18, <1>19, <1>20
          DEF Step

-----------------------------------------------------------------------------
(* The order of the layers.  A retry layer over an asynchronous backend     *)
(* executes what is below it, drops the awaitable and executes it anew, so   *)
(* what must be undone stands above it.                                     *)

\* Runner w has a layer of kind k above one of kind l.
Over(w, k, l) ==
    \E i, j \in DOMAIN w.layers : i < j /\ w.layers[i] = k /\ w.layers[j] = l

\* The retry layer of an asynchronous runner stands below the layers of kind k.
RetryBelow(k, w) == w.async => ~Over(w, "retry", k)

\* Transactions are committed before the store is told.
CommitFirst(w) == ~Over(w, "transaction", "idempotency")

\* Only the run that holds the claim begins a transaction.
ClaimFirst(w) == "transaction" \in Range(w.layers) => Over(w, "idempotency", "transaction")

\* Run r has entered the layer at position p and has not left it.
Inside(r, p) ==
    \/ phase[r] \in Inward /\ at[r] > p
    \/ phase[r] \in Outcomes /\ at[r] >= p

\* The positions of the layers of kind k.
At(k) == {d \in DOMAIN Layers : Layers[d] = k}

\* The backend runs at most once for each try, and never before the coroutine of
\* the retry layer runs, when it is asynchronous.
RetryInv(r) ==
    /\ calls[r] <= Attempts
    /\ phase[r] = "running" => ~Async \/ looping[r] \/ At("retry") = {}
    /\ At("retry") = {} =>
          /\ calls[r] <= 1
          /\ phase[r] = "idle" \/ phase[r] \in Inward => calls[r] = 0
    /\ \A p \in At("retry") :
          /\ Async /\ ~looping[r] => calls[r] = 0
          /\ phase[r] = "idle" \/ (phase[r] \in Inward /\ at[r] <= p) =>
                calls[r] = 0 /\ ~looping[r]
          /\ Inside(r, p) => tries[r] \in 1..Attempts /\ calls[r] <= tries[r]
          /\ phase[r] \in Inward /\ at[r] > p => calls[r] < tries[r]

\* A run inside the transaction layer holds its newest transaction open.
HoldsOpen(r) ==
    \A t \in At("transaction") : Inside(r, t) =>
        Len(txns[r]) > 0 /\ txns[r][Len(txns[r])] = "open"

\* Only that one is open.
OpenHeld(r) ==
    ~Cancellable => \A i \in DOMAIN txns[r] : txns[r][i] = "open" =>
        i = Len(txns[r]) /\ \E t \in At("transaction") : Inside(r, t)

\* Run r has a value that left the layer at position p.
Got(r, p) ==
    \/ phase[r] = "value" /\ at[r] < p
    \/ phase[r] = "finished" /\ value[r] # NoValue

\* The store's entry is claimed by the run that is inside the idempotency layer,
\* and holds the value that the runs get from it.
ClaimInv ==
    /\ \A p \in At("idempotency") : \A r, s \in Runs :
          Inside(r, p) /\ Inside(s, p) => r = s
    /\ \A p \in At("idempotency") : \A r \in Runs :
          /\ Inside(r, p) => store = Claimed
          /\ Got(r, p) => store = Completed(value[r])
    /\ ~Cancellable /\ store = Claimed => \E p \in At("idempotency") : \E r \in Runs : Inside(r, p)

\* Run r carries a committed value to the idempotency layer.
Commits(r) ==
    \E p \in At("idempotency"), t \in At("transaction") :
        phase[r] = "value" /\ at[r] >= p /\ at[r] < t

\* A commit is on its way to the store or has reached it.
CommitInv ==
    \A r \in Runs : \A i \in DOMAIN txns[r] : txns[r][i] = "committed" => Stored \/ Commits(r)

\* A value from below the idempotency layer is a backend's: a retry loop that awaits
\* it gets it.
AwaitedInv(r) ==
    \A p \in At("idempotency") : phase[r] = "value" /\ at[r] >= p => plain[r] = ~Async

\* A value outside the transaction layer was committed.
ValueInv ==
    \A t \in At("transaction") :
        /\ Stored => HasTxn(store.value[1], "committed")
        /\ \A r \in Runs :
              /\ phase[r] = "value" /\ at[r] >= t => value[r][1] = r
              /\ Got(r, t) => HasTxn(value[r][1], "committed")

\* What the audit layer has recorded, when it is the outermost.
AuditInv(r) ==
    /\ phase[r] = "idle" \/ (phase[r] \in Inward /\ at[r] <= 1) => audit[r] = << >>
    /\ Inside(r, 1) => audit[r] = <<"started">>
    /\ phase[r] = "value" /\ at[r] = 0 => audit[r] = <<"started", "completed">>
    /\ phase[r] = "error" /\ at[r] = 0 => audit[r] = <<"started", "failed">>
    /\ phase[r] = "finished" /\ ~Cancellable =>
          audit[r] = <<"started", IF value[r] = NoValue THEN "failed" ELSE "completed">>

-----------------------------------------------------------------------------
(* What every step of a run does to its place in the onion. *)

\* The positions of the layers of a kind: at most one, and the same for ever.
LEMMA AtFacts ==
    ASSUME TypeInv, NEW k
    PROVE  /\ At(k) = {d \in 1..Len(Layers) : Layers[d] = k}
           /\ At(k) \subseteq 1..Len(Layers)
           /\ \A i, j \in At(k) : i = j
           /\ (UNCHANGED runner) => At(k)' = At(k)
  <1>1. At(k) = {d \in 1..Len(Layers) : Layers[d] = k}
    BY LayerFacts DEF At
  <1>2. \A i, j \in At(k) : i = j
    BY LayerFacts, <1>1
  <1>3. (UNCHANGED runner) => At(k)' = At(k)
    BY DEF At, Layers
  <1> QED BY <1>1, <1>2, <1>3

\* A run enters and leaves a layer with the actions of that layer, or leaves it when
\* the retry layer drops the awaitable.
LEMMA Crossing ==
    ASSUME TypeInv, NEW r \in Runs, Step(r), NEW p \in 1..Len(Layers)
    PROVE  \/ Inside(r, p)' <=> Inside(r, p)
           \/ Layers[p] = "audit" /\ (CallAudit(r) \/ LeaveAudit(r))
           \/ Layers[p] = "transaction" /\ (CallTransaction(r) \/ LeaveTransaction(r))
           \/ Layers[p] = "retry" /\ (CallRetry(r) \/ LeaveRetry(r))
           \/ Layers[p] = "idempotency" /\ (Claim(r) \/ LeaveIdempotency(r))
           \/ Await(r)
  <1>1. /\ Len(Layers) \in Nat /\ DOMAIN Layers = 1..Len(Layers)
        /\ Backend = Len(Layers) + 1 /\ phase \in [Runs -> Phases] /\ at \in [Runs -> Int] /\ Placed(r)
    BY LayerFacts DEF TypeInv
  <1>2. CASE Start(r)
    BY <1>1, <1>2 DEF Placed, Inside, Inward, Outcomes, Start, Go
  <1>3. CASE CallAudit(r)
    BY <1>1, <1>3 DEF Placed, Inside, Inward, Outcomes, CallAudit, In, Go
  <1>4. CASE CallTransaction(r)
    BY <1>1, <1>4 DEF Placed, Inside, Inward, Outcomes, CallTransaction, In, Go
  <1>5. CASE CallRetry(r)
    BY <1>1, <1>5 DEF Placed, Inside, Inward, Outcomes, CallRetry, In, Go
  <1>6. CASE CallIdempotency(r)
    BY <1>1, <1>6 DEF Placed, Inside, Inward, Outcomes, CallIdempotency, ReturnStored, In, Go
  <1>7. CASE Claim(r)
    BY <1>1, <1>7 DEF Placed, Inside, Inward, Outcomes, Claim, Go
  <1>8. CASE Reget(r)
    BY <1>1, <1>8 DEF Placed, Inside, Inward, Outcomes, Reget, ReturnStored, Go
  <1>9. CASE CallBackend(r)
    BY <1>1, <1>9 DEF Placed, Inside, Inward, Outcomes, CallBackend, Go
  <1>10. CASE RunBackend(r)
    BY <1>1, <1>10 DEF Placed, Inside, Inward, Outcomes, RunBackend, Go
  <1>11. CASE LeaveAudit(r)
    <2>1. phase[r] \in Outcomes /\ at[r] \in 1..Len(Layers) /\ Layers[at[r]] = "audit"
      BY <1>1, <1>11 DEF LeaveAudit, In
    <2>2. phase'[r] \in Outcomes /\ at'[r] = at[r] - 1
      BY <1>1, <1>11 DEF LeaveAudit, Go
    <2> QED BY <1>1, <1>11, <2>1, <2>2 DEF Inside, Inward, Outcomes
  <1>12. CASE LeaveTransaction(r)
    <2>1. phase[r] \in Outcomes /\ at[r] \in 1..Len(Layers) /\ Layers[at[r]] = "transaction"
      BY <1>1, <1>12 DEF LeaveTransaction, In, Outcomes
    <2>2. phase'[r] \in Outcomes /\ at'[r] = at[r] - 1
      BY <1>1, <1>12 DEF LeaveTransaction, Go, Outcomes
    <2> QED BY <1>1, <1>12, <2>1, <2>2 DEF Inside, Inward, Outcomes
  <1>13. CASE LeaveIdempotency(r)
    <2>1. phase[r] \in Outcomes /\ at[r] \in 1..Len(Layers) /\ Layers[at[r]] = "idempotency"
      BY <1>1, <1>13 DEF LeaveIdempotency, In, Placed
    <2>2. phase'[r] \in Outcomes /\ at'[r] = at[r] - 1
      BY <1>1, <1>13 DEF LeaveIdempotency, Go
    <2> QED BY <1>1, <1>13, <2>1, <2>2 DEF Inside, Inward, Outcomes
  <1>14. CASE LeaveRetry(r)
    <2>1. phase[r] \in Outcomes /\ at[r] \in 1..Len(Layers) /\ Layers[at[r]] = "retry"
      BY <1>1, <1>14 DEF LeaveRetry, AttemptFailed, In, Placed, Outcomes
    <2>2. \/ phase'[r] \in Outcomes /\ at'[r] = at[r] - 1
          \/ phase'[r] = "call" /\ at'[r] = at[r] + 1
      BY <1>1, <1>14 DEF LeaveRetry, Go, Outcomes
    <2> QED BY <1>1, <1>14, <2>1, <2>2 DEF Inside, Inward, Outcomes
  <1>15. CASE Finish(r)
    BY <1>1, <1>15 DEF Placed, Inside, Inward, Outcomes, Finish, Go
  <1> QED BY <1>2, <1>3, <1>4, <1>5, <1>6, <1>7, <1>8, <1>9, <1>10, <1>11, <1>12, <1>13, <1>14, <1>15
          DEF Step

\* Every state the runs reach is well typed.
LEMMA TypeCorrect == Spec => []TypeInv
  <1>1. TypeInv /\ [Next]_vars => TypeInv'
    <2>1. ASSUME TypeInv, UNCHANGED vars PROVE TypeInv'
      BY <2>1, SameRunner DEF TypeInv, Placed, vars
    <2> QED BY <2>1, TypeStep DEF Next, Done
  <1> QED BY InitType, <1>1, PTL DEF Spec

-----------------------------------------------------------------------------
(* Retries. *)

\* No step of a run begins an execution of the backend without a try.
LEMMA RetryStep ==
    ASSUME TypeInv, NEW r \in Runs, Step(r), RetryInv(r)
    PROVE  RetryInv(r)'
  <1>1. /\ Len(Layers) \in Nat /\ DOMAIN Layers = 1..Len(Layers)
        /\ Backend = Len(Layers) + 1 /\ Async \in BOOLEAN
        /\ phase \in [Runs -> Phases] /\ at \in [Runs -> Int] /\ tries \in [Runs -> Nat]
        /\ calls \in [Runs -> Nat] /\ looping \in [Runs -> BOOLEAN] /\ Placed(r)
        /\ Attempts \in Nat \ {0}
    BY LayerFacts, MiddlewareAssumption DEF TypeInv
  <1>2. /\ At("retry") = RetryLayers /\ \A p \in At("retry") : p \in 1..Len(Layers) /\ Layers[p] = "retry"
        /\ \A i, j \in At("retry") : i = j
    BY AtFacts DEF At, RetryLayers
  <1>3. At("retry")' = At("retry") /\ Async' = Async
    BY AtFacts, SameRunner DEF Step
  <1>4. \A d \in 1..Len(Layers) : Layers[d] = "retry" => d \in At("retry")
    BY AtFacts
  <1>5. CASE Start(r)
    BY <1>1, <1>2, <1>3, <1>4, <1>5
       DEF RetryInv, Placed, Inside, Inward, Outcomes, Start, Go
  <1>6. CASE CallAudit(r)
    BY <1>1, <1>2, <1>3, <1>4, <1>6
       DEF RetryInv, Placed, Inside, Inward, Outcomes, CallAudit, In, Go
  <1>7. CASE CallTransaction(r)
    BY <1>1, <1>2, <1>3, <1>4, <1>7
       DEF RetryInv, Placed, Inside, Inward, Outcomes, CallTransaction, In, Go
  <1>8. CASE CallRetry(r)
    BY <1>1, <1>2, <1>3, <1>4, <1>8
       DEF RetryInv, Placed, Inside, Inward, Outcomes, CallRetry, In, Go
  <1>9. CASE CallIdempotency(r)
    BY <1>1, <1>2, <1>3, <1>4, <1>9
       DEF RetryInv, Placed, Inside, Inward, Outcomes, CallIdempotency, ReturnStored, In, Go
  <1>10. CASE Claim(r)
    BY <1>1, <1>2, <1>3, <1>4, <1>10
       DEF RetryInv, Placed, Inside, Inward, Outcomes, Claim, Go
  <1>11. CASE Reget(r)
    BY <1>1, <1>2, <1>3, <1>4, <1>11
       DEF RetryInv, Placed, Inside, Inward, Outcomes, Reget, ReturnStored, Go
  <1>12. CASE CallBackend(r)
    BY <1>1, <1>2, <1>3, <1>4, <1>12
       DEF RetryInv, Placed, Inside, Inward, Outcomes, CallBackend, Go
  <1>13. CASE Await(r)
    BY <1>1, <1>2, <1>3, <1>4, <1>13
       DEF RetryInv, Placed, Inside, Inward, Outcomes, Await, Go
  <1>14. CASE RunBackend(r)
    BY <1>1, <1>2, <1>3, <1>4, <1>14
       DEF RetryInv, Placed, Inside, Inward, Outcomes, RunBackend, Go
  <1>15. CASE LeaveAudit(r)
    BY <1>1, <1>2, <1>3, <1>4, <1>15
       DEF RetryInv, Placed, Inside, Inward, Outcomes, LeaveAudit, In, Go
  <1>16. CASE LeaveTransaction(r)
    <2>1. phase[r] \in Outcomes /\ at[r] \in 1..Len(Layers) /\ Layers[at[r]] = "transaction"
      BY <1>1, <1>16 DEF LeaveTransaction, In, Outcomes
    <2>2. phase'[r] \in Outcomes /\ at'[r] = at[r] - 1
      BY <1>1, <1>16 DEF LeaveTransaction, Go, Outcomes
    <2>3. UNCHANGED <<calls, looping, tries>>
      BY <1>16 DEF LeaveTransaction
    <2> QED BY <1>1, <1>2, <1>3, <2>1, <2>2, <2>3 DEF RetryInv, Inside, Inward, Outcomes
  <1>17. CASE LeaveIdempotency(r)
    BY <1>1, <1>2, <1>3, <1>4, <1>17
       DEF RetryInv, Placed, Inside, Inward, Outcomes, LeaveIdempotency, In, Go
  <1>18. CASE LeaveRetry(r)
    BY <1>1, <1>2, <1>3, <1>4, <1>18
       DEF RetryInv, Placed, Inside, Inward, Outcomes, LeaveRetry, AttemptFailed, In, Go
  <1>19. CASE Finish(r)
    BY <1>1, <1>2, <1>3, <1>4, <1>19
       DEF RetryInv, Placed, Inside, Inward, Outcomes, Finish, Go
  <1> QED BY <1>5, <1>6, <1>7, <1>8, <1>9, <1>10, <1>11, <1>12, <1>13, <1>14, <1>15, <1>16, <1>17, <1>18, <1>19
          DEF Step

\* For every number of runs and attempts, and layers in any order, the backend runs
\* at most as often as the retry layer has attempts.
THEOREM BackendRunsBounded == Spec => []RetriesBounded
  <1> DEFINE I == \A r \in Runs : RetryInv(r)
  <1>1. Init => I
    BY MiddlewareAssumption DEF Init, RetryInv, Inside, Inward, Outcomes
  <1>2. TypeInv /\ I /\ [Next]_vars => I'
    <2>1. ASSUME TypeInv, I, NEW r \in Runs, Step(r) PROVE I'
      <3>1. ASSUME NEW s \in Runs, s # r PROVE RetryInv(s)'
        <4>1. /\ phase'[s] = phase[s] /\ at'[s] = at[s] /\ tries'[s] = tries[s]
              /\ looping'[s] = looping[s] /\ calls'[s] = calls[s]
          BY <2>1, <3>1, OthersStay
        <4>2. At("retry")' = At("retry") /\ Async' = Async
          BY <2>1, AtFacts, SameRunner DEF Step
        <4> QED BY <2>1, <4>1, <4>2 DEF RetryInv, Inside
      <3> QED BY <2>1, <3>1, RetryStep
    <2>2. ASSUME I, UNCHANGED vars PROVE I'
      BY <2>2, SameRunner DEF RetryInv, Inside, vars, At
    <2> QED BY <2>1, <2>2 DEF Next, Done
  <1>3. I => RetriesBounded
    BY DEF RetryInv, RetriesBounded
  <1> QED BY TypeCorrect, <1>1, <1>2, <1>3, PTL DEF Spec

-----------------------------------------------------------------------------
(* Transactions. *)

\* Only the transaction layer touches the transactions.
LEMMA TxnsKept ==
    ASSUME NEW r \in Runs, Step(r), ~CallTransaction(r), ~LeaveTransaction(r)
    PROVE  UNCHANGED txns
  BY DEF Step, Start, CallAudit, CallRetry, CallIdempotency, ReturnStored, Claim, Reget,
         CallBackend, Await, RunBackend, LeaveAudit, LeaveIdempotency, LeaveRetry, Finish

\* Where the caller's await takes a run.
LEMMA AwaitFacts ==
    ASSUME TypeInv, NEW r \in Runs, Step(r), Await(r)
    PROVE  /\ phase[r] = "returned" /\ at[r] = Len(Layers) + 1 /\ Async
           /\ \A p \in 1..Len(Layers) :
                /\ Inside(r, p)
                /\ Inside(r, p)' \/ \E d \in At("retry") : d <= p
                /\ phase[r]' \in Inward
  <1>1. /\ Len(Layers) \in Nat /\ phase \in [Runs -> Phases] /\ at \in [Runs -> Int]
        /\ Backend = Len(Layers) + 1 /\ Placed(r)
    BY LayerFacts DEF TypeInv
  <1>2. At("retry") = RetryLayers /\ \A d \in At("retry") : d \in 1..Len(Layers)
    BY AtFacts DEF At, RetryLayers
  <1>3. phase[r] = "returned" /\ at[r] = Len(Layers) + 1 /\ Async
    BY <1>1 DEF Await, Placed
  <1>4. \/ phase'[r] = "running" /\ at'[r] = at[r]
        \/ phase'[r] = "call" /\ \E d \in At("retry") : at'[r] = d + 1
    BY <1>1, <1>2 DEF Await, Go
  <1> QED BY <1>1, <1>2, <1>3, <1>4 DEF Inside, Inward

\* The newest transaction of a run inside the transaction layer is open.
LEMMA HoldsOpenStep ==
    ASSUME TypeInv, NEW r \in Runs, Step(r), HoldsOpen(r)
    PROVE  HoldsOpen(r)'
  <1>1. /\ Len(Layers) \in Nat /\ DOMAIN Layers = 1..Len(Layers) /\ txns[r] \in Seq(TxnStates)
        /\ phase \in [Runs -> Phases] /\ at \in [Runs -> Int] /\ txns \in [Runs -> Seq(TxnStates)]
    BY LayerFacts DEF TypeInv
  <1>2. At("transaction")' = At("transaction")
    BY AtFacts DEF Step
  <1>3. SUFFICES ASSUME NEW t \in At("transaction"), Inside(r, t)'
                 PROVE  Len(txns'[r]) > 0 /\ txns'[r][Len(txns'[r])] = "open"
    BY <1>2 DEF HoldsOpen
  <1>4. t \in 1..Len(Layers) /\ Layers[t] = "transaction"
    BY AtFacts
  <1>5. CASE CallTransaction(r)
    <2>1. txns'[r] = Append(txns[r], "open")
      BY <1>1, <1>5 DEF CallTransaction
    <2> QED BY <1>1, <2>1
  <1>6. CASE LeaveTransaction(r)
    <2>1. at[r] \in At("transaction") /\ phase'[r] \in Outcomes /\ at'[r] = at[r] - 1
      BY <1>1, <1>6 DEF LeaveTransaction, In, Go, Outcomes, At
    <2>2. at[r] = t
      BY <2>1, AtFacts
    <2> QED BY <1>1, <1>3, <2>1, <2>2 DEF Inside, Outcomes, Inward
  <1>7. CASE ~CallTransaction(r) /\ ~LeaveTransaction(r)
    <2>1. UNCHANGED txns
      BY <1>7, TxnsKept
    <2>2. Inside(r, t)
      <3>1. CASE Await(r)
        BY <1>4, <3>1, AwaitFacts
      <3>2. CASE ~Await(r)
        BY <1>3, <1>4, <1>7, <3>2, Crossing
      <3> QED BY <3>1, <3>2
    <2> QED BY <2>1, <2>2 DEF HoldsOpen
  <1> QED BY <1>5, <1>6, <1>7

\* No other is.
LEMMA OpenHeldStep ==
    ASSUME TypeInv, NEW r \in Runs, Step(r), HoldsOpen(r), OpenHeld(r),
           RetryBelow("transaction", runner)
    PROVE  OpenHeld(r)'
  <1>1. /\ Len(Layers) \in Nat /\ DOMAIN Layers = 1..Len(Layers) /\ txns[r] \in Seq(TxnStates)
        /\ phase \in [Runs -> Phases] /\ at \in [Runs -> Int] /\ txns \in [Runs -> Seq(TxnStates)]
        /\ Placed(r)
    BY LayerFacts DEF TypeInv
  <1>2. At("transaction")' = At("transaction") /\ Cancellable' = Cancellable
    BY AtFacts, SameRunner DEF Step
  <1>3. SUFFICES ASSUME ~Cancellable, NEW i \in DOMAIN txns'[r], txns'[r][i] = "open"
                 PROVE  i = Len(txns'[r]) /\ \E t \in At("transaction") : Inside(r, t)'
    BY <1>2 DEF OpenHeld
  <1>4. \A j \in DOMAIN txns[r] : txns[r][j] = "open" =>
          j = Len(txns[r]) /\ \E t \in At("transaction") : Inside(r, t)
    BY <1>3 DEF OpenHeld
  <1>5. CASE CallTransaction(r)
    <2>1. /\ at[r] \in At("transaction") /\ phase[r] = "call" /\ phase'[r] = "call"
          /\ at'[r] = at[r] + 1 /\ txns'[r] = Append(txns[r], "open")
      BY <1>1, <1>5 DEF CallTransaction, In, Go, At
    <2>2. \A t \in At("transaction") : t = at[r]
      BY <2>1, AtFacts
    <2>3. ~\E t \in At("transaction") : Inside(r, t)
      BY <1>1, <2>1, <2>2 DEF Inside, Outcomes
    <2>4. \A t \in At("transaction") : Inside(r, t)'
      BY <1>1, <2>1, <2>2 DEF Inside, Inward
    <2>5. i = Len(txns[r]) + 1
      BY <1>1, <1>3, <1>4, <2>1, <2>3
    <2> QED BY <1>1, <2>1, <2>4, <2>5
  <1>6. CASE LeaveTransaction(r)
    <2>1. phase[r] # "cancelled"
      BY <1>1, <1>3 DEF Placed
    <2>2. PICK x \in TxnStates : x # "open" /\ txns'[r] = [txns[r] EXCEPT ![Len(txns[r])] = x]
      <3>1. PICK x \in {"committed", "refused", "rolled back"} : CloseTransaction(r, x)
        BY <1>6, <2>1 DEF LeaveTransaction, In
      <3> QED BY <1>1, <3>1 DEF CloseTransaction, TxnStates
    <2>3. i \in DOMAIN txns[r] /\ txns'[r][i] = IF i = Len(txns[r]) THEN x ELSE txns[r][i]
      BY <1>1, <1>3, <2>2, CloseType
    <2>4. i # Len(txns[r]) /\ txns[r][i] = "open"
      BY <1>3, <2>2, <2>3
    <2> QED BY <1>4, <2>3, <2>4
  <1>7. CASE ~CallTransaction(r) /\ ~LeaveTransaction(r)
    <2>1. UNCHANGED txns
      BY <1>7, TxnsKept
    <2>2. i = Len(txns[r]) /\ \E t \in At("transaction") : Inside(r, t)
      BY <1>3, <1>4, <2>1
    <2>3. PICK t \in At("transaction") : Inside(r, t)
      BY <2>2
    <2>4. t \in 1..Len(Layers) /\ Layers[t] = "transaction"
      BY AtFacts
    <2>5. Inside(r, t)'
      <3>1. CASE Await(r)
        <4>1. Async /\ (Inside(r, t)' \/ \E d \in At("retry") : d <= t)
          BY <2>4, <3>1, AwaitFacts
        <4>2. ASSUME NEW d \in At("retry"), d <= t PROVE FALSE
          <5>1. d \in 1..Len(Layers) /\ Layers[d] = "retry" /\ d < t
            BY <2>4, <4>2, AtFacts
          <5> QED BY <1>1, <2>4, <4>1, <5>1 DEF RetryBelow, Over, Async, Layers
        <4> QED BY <4>1, <4>2
      <3>2. CASE ~Await(r)
        BY <2>3, <2>4, <1>7, <3>2, Crossing
      <3> QED BY <3>1, <3>2
    <2> QED BY <2>1, <2>2, <2>5
  <1> QED BY <1>5, <1>6, <1>7

\* A run inside the transaction layer holds its newest transaction open, whatever the
\* order of the layers.
LEMMA OpenHolds == Spec => [](\A r \in Runs : HoldsOpen(r))
  <1> DEFINE I == \A r \in Runs : HoldsOpen(r)
  <1>1. Init => I
    BY DEF Init, HoldsOpen, Inside, Inward, Outcomes
  <1>2. TypeInv /\ I /\ [Next]_vars => I'
    <2>1. ASSUME TypeInv, I, NEW r \in Runs, Step(r) PROVE I'
      <3>1. ASSUME NEW s \in Runs, s # r PROVE HoldsOpen(s)'
        <4>1. phase'[s] = phase[s] /\ at'[s] = at[s] /\ txns'[s] = txns[s]
          BY <2>1, <3>1, OthersStay
        <4>2. At("transaction")' = At("transaction")
          BY <2>1, AtFacts DEF Step
        <4> QED BY <2>1, <4>1, <4>2 DEF HoldsOpen, Inside
      <3> QED BY <2>1, <3>1, HoldsOpenStep
    <2>2. ASSUME I, UNCHANGED vars PROVE I'
      BY <2>2, SameRunner DEF HoldsOpen, Inside, vars, At
    <2> QED BY <2>1, <2>2 DEF Next, Done
  <1> QED BY TypeCorrect, <1>1, <1>2, PTL DEF Spec

\* Where nothing is cancelled and no retry layer of an asynchronous runner stands
\* above the transactions, a run that is over left no transaction open.
THEOREM TransactionsAreClosed ==
    ASSUME \A w \in Runners : RetryBelow("transaction", w)
    PROVE  Spec => []TransactionsClosed
  <1> DEFINE I == \A r \in Runs : OpenHeld(r)
             J == \A r \in Runs : HoldsOpen(r)
  <1>1. Init => I
    BY DEF Init, OpenHeld
  <1>2. TypeInv /\ J /\ I /\ [Next]_vars => I'
    <2>1. ASSUME TypeInv, J, I, NEW r \in Runs, Step(r) PROVE I'
      <3>1. ASSUME NEW s \in Runs, s # r PROVE OpenHeld(s)'
        <4>1. phase'[s] = phase[s] /\ at'[s] = at[s] /\ txns'[s] = txns[s]
          BY <2>1, <3>1, OthersStay
        <4>2. At("transaction")' = At("transaction") /\ Cancellable' = Cancellable
          BY <2>1, AtFacts, SameRunner DEF Step
        <4> QED BY <2>1, <4>1, <4>2 DEF OpenHeld, Inside
      <3>2. RetryBelow("transaction", runner)
        BY <2>1 DEF TypeInv
      <3> QED BY <2>1, <3>1, <3>2, OpenHeldStep
    <2>2. ASSUME I, UNCHANGED vars PROVE I'
      BY <2>2, SameRunner DEF OpenHeld, Inside, vars, At
    <2> QED BY <2>1, <2>2 DEF Next, Done
  <1>3. TypeInv /\ I => TransactionsClosed
    BY DEF OpenHeld, TransactionsClosed, Finished, HasTxn, Inside, Inward, Outcomes
  <1> QED BY TypeCorrect, OpenHolds, <1>1, <1>2, <1>3, PTL DEF Spec

-----------------------------------------------------------------------------
(* The idempotency store. *)

\* Only the idempotency layer writes the store.
LEMMA StoreKept ==
    ASSUME NEW r \in Runs, Step(r), ~Claim(r), ~LeaveIdempotency(r)
    PROVE  UNCHANGED store
  BY DEF Step, Start, CallAudit, CallRetry, CallTransaction, CallIdempotency, ReturnStored, Reget,
         CallBackend, Await, RunBackend, LeaveAudit, LeaveTransaction, LeaveRetry, Finish

\* A value leaves a layer when it comes from below, or from the store of the
\* idempotency layer.
LEMMA GotStep ==
    ASSUME TypeInv, NEW r \in Runs, Step(r), NEW p \in 1..Len(Layers), Got(r, p)'
    PROVE  \/ Got(r, p) /\ value'[r] = value[r]
           \/ phase[r] = "value" /\ at[r] = p /\ value'[r] = value[r] /\ phase'[r] = "value"
              /\ at'[r] = p - 1
           \/ /\ Stored /\ UNCHANGED store /\ value'[r] = store.value
              /\ phase'[r] = "value" /\ at[r] <= p
              /\ at[r] \in At("idempotency") /\ phase[r] \in Inward
  <1>1. /\ Len(Layers) \in Nat /\ DOMAIN Layers = 1..Len(Layers) /\ Backend = Len(Layers) + 1
        /\ phase \in [Runs -> Phases] /\ at \in [Runs -> Int] /\ Placed(r)
        /\ value \in [Runs -> {NoValue} \cup Values]
    BY LayerFacts DEF TypeInv
  <1>2. \/ phase'[r] = "value" /\ at'[r] < p
        \/ phase'[r] = "finished" /\ value'[r] # NoValue
    BY DEF Got
  <1>3. CASE Start(r) \/ CallAudit(r) \/ CallTransaction(r) \/ CallRetry(r) \/ Claim(r)
              \/ CallBackend(r) \/ Await(r)
    <2>1. phase'[r] \in Inward
      BY <1>1, <1>3 DEF Start, CallAudit, CallTransaction, CallRetry, Claim, CallBackend, Await,
                        Inward, Go
    <2> QED BY <1>2, <2>1 DEF Inward
  <1>4. CASE CallIdempotency(r)
    BY <1>1, <1>2, <1>4 DEF CallIdempotency, ReturnStored, In, Go, At, Inward
  <1>5. CASE Reget(r)
    BY <1>1, <1>2, <1>5 DEF Reget, ReturnStored, Placed, Go, At, Inward
  <1>6. CASE RunBackend(r)
    BY <1>1, <1>2, <1>6 DEF RunBackend, Placed, Go
  <1>7. CASE LeaveAudit(r)
    BY <1>1, <1>2, <1>7 DEF LeaveAudit, Go, Got, In, Outcomes
  <1>8. CASE LeaveTransaction(r)
    <2>1. phase'[r] = "value" => phase[r] = "value" /\ at'[r] = at[r] - 1
      BY <1>1, <1>8 DEF LeaveTransaction, Go, In
    <2>2. phase'[r] # "finished" /\ UNCHANGED value
      BY <1>1, <1>8 DEF LeaveTransaction, Go
    <2> QED BY <1>1, <1>2, <2>1, <2>2 DEF Got
  <1>9. CASE LeaveIdempotency(r)
    BY <1>1, <1>2, <1>9 DEF LeaveIdempotency, Go, Got, In, Outcomes
  <1>10. CASE LeaveRetry(r)
    BY <1>1, <1>2, <1>10 DEF LeaveRetry, Go, Got, In, Outcomes
  <1>11. CASE Finish(r)
    BY <1>1, <1>2, <1>11 DEF Finish, Go, Got, Outcomes
  <1> QED BY <1>3, <1>4, <1>5, <1>6, <1>7, <1>8, <1>9, <1>10, <1>11 DEF Step

\* What a step does to the claim and to the store together.
LEMMA ClaimCrossing ==
    ASSUME TypeInv, NEW r \in Runs, Step(r), NEW p \in At("idempotency"),
           RetryBelow("idempotency", runner)
    PROVE  \/ (Inside(r, p)' <=> Inside(r, p)) /\ UNCHANGED store
           \/ ~Inside(r, p) /\ Inside(r, p)' /\ store = Free /\ store' = Claimed
           \/ /\ Inside(r, p) /\ ~Inside(r, p)'
              /\ \/ store' = Free
                 \/ phase[r] = "cancelled"
                 \/ phase[r] = "value" /\ store' = Completed(value[r])
  <1>1. /\ Len(Layers) \in Nat /\ DOMAIN Layers = 1..Len(Layers)
        /\ phase \in [Runs -> Phases] /\ at \in [Runs -> Int] /\ Placed(r)
    BY LayerFacts DEF TypeInv
  <1>2. p \in 1..Len(Layers) /\ Layers[p] = "idempotency"
    BY AtFacts
  <1>3. \A q \in At("idempotency") : q = p
    BY AtFacts
  <1>4. CASE Claim(r)
    <2>1. phase[r] = "claim" /\ at[r] = p
      BY <1>1, <1>3, <1>4 DEF Claim, Placed, At
    <2> QED BY <1>1, <1>2, <1>4, <2>1 DEF Claim, Go, Inside, Inward, Outcomes
  <1>5. CASE LeaveIdempotency(r)
    <2>1. /\ phase[r] \in Outcomes /\ at[r] = p /\ phase'[r] = phase[r] /\ at'[r] = p - 1
      BY <1>1, <1>3, <1>5 DEF LeaveIdempotency, In, Go, At
    <2>2. store' = CASE phase[r] = "value" -> Completed(value[r])
                     [] phase[r] = "error" -> Free
                     [] OTHER -> store
      BY <1>5 DEF LeaveIdempotency, In
    <2> QED BY <1>1, <1>2, <2>1, <2>2 DEF Inside, Inward, Outcomes
  <1>6. CASE Await(r)
    <2>1. /\ Inside(r, p) /\ Async
          /\ Inside(r, p)' \/ \E d \in At("retry") : d <= p
      BY <1>2, <1>6, AwaitFacts
    <2>2. ASSUME NEW d \in At("retry"), d <= p PROVE FALSE
      <3>1. d \in 1..Len(Layers) /\ Layers[d] = "retry" /\ d < p
        BY <1>2, <2>2, AtFacts
      <3> QED BY <1>1, <1>2, <2>1, <3>1 DEF RetryBelow, Over, Async, Layers
    <2> QED BY <1>6, <2>1, <2>2 DEF Await
  <1>7. CASE ~Claim(r) /\ ~LeaveIdempotency(r) /\ ~Await(r)
    <2>1. UNCHANGED store
      BY <1>7, StoreKept
    <2> QED BY <1>2, <1>7, <2>1, Crossing
  <1> QED BY <1>4, <1>5, <1>6, <1>7

\* A step of a run keeps the claim with the run inside the layer.
LEMMA ClaimStep ==
    ASSUME TypeInv, NEW r \in Runs, Step(r), ClaimInv, RetryBelow("idempotency", runner)
    PROVE  ClaimInv'
  <1>1. At("idempotency")' = At("idempotency") /\ Cancellable' = Cancellable
    BY AtFacts, SameRunner DEF Step
  <1>2. \A s \in Runs : s # r => \A p \in At("idempotency") :
           /\ Inside(s, p)' <=> Inside(s, p)
           /\ Got(s, p)' <=> Got(s, p)
           /\ value'[s] = value[s]
    BY OthersStay DEF Inside, Got
  <1>3. \A p, q \in At("idempotency") : p = q
    BY AtFacts
  <1>4. /\ Free # Claimed /\ \A v : Completed(v) # Free /\ Completed(v) # Claimed
        /\ Stored => store = Completed(store.value)
    BY StoreFacts
  <1>5. \A p \in At("idempotency") : \A u, s \in Runs : Inside(u, p)' /\ Inside(s, p)' => u = s
    <2>1. SUFFICES ASSUME NEW p \in At("idempotency") 
                   PROVE  \A u, s \in Runs : Inside(u, p)' /\ Inside(s, p)' => u = s
      OBVIOUS
    <2>2. \A u, s \in Runs : Inside(u, p) /\ Inside(s, p) => u = s
      BY DEF ClaimInv
    <2>3. CASE Inside(r, p)' => Inside(r, p)
      BY <1>2, <2>2, <2>3
    <2>4. CASE ~Inside(r, p) /\ Inside(r, p)' /\ store = Free
      <3>1. \A s \in Runs : ~Inside(s, p)
        BY <1>4, <2>4 DEF ClaimInv
      <3> QED BY <1>2, <3>1
    <2> QED BY <2>3, <2>4, ClaimCrossing
  <1>6. ASSUME NEW p \in At("idempotency"), NEW s \in Runs, Inside(s, p)'
        PROVE  store' = Claimed
    <2>1. CASE UNCHANGED store /\ (Inside(r, p)' <=> Inside(r, p))
      BY <1>2, <1>6, <2>1 DEF ClaimInv
    <2>2. CASE Inside(r, p) /\ ~Inside(r, p)'
      BY <1>2, <1>6, <2>2 DEF ClaimInv
    <2> QED BY <2>1, <2>2, ClaimCrossing
  <1>7. ASSUME NEW p \in At("idempotency"), NEW s \in Runs, Got(s, p)'
        PROVE  store' = Completed(value'[s])
    <2>1. p \in 1..Len(Layers) /\ Layers[p] = "idempotency"
      BY AtFacts
    <2>2. \A v : store = Completed(v) => UNCHANGED store
      <3>1. \A v : store = Completed(v) => ~Inside(r, p)
        BY <1>4 DEF ClaimInv
      <3> QED BY <1>4, <3>1, ClaimCrossing
    <2>3. CASE Got(s, p) /\ value'[s] = value[s]
      BY <2>2, <2>3 DEF ClaimInv
    <2>4. CASE s = r /\ Stored /\ UNCHANGED store /\ value'[r] = store.value
      BY <1>4, <2>4
    <2>5. CASE /\ s = r /\ phase[r] = "value" /\ at[r] = p /\ value'[r] = value[r]
               /\ phase'[r] = "value" /\ at'[r] = p - 1
      <3>1. Inside(r, p) /\ ~Inside(r, p)'
        BY <2>1, <2>5, LayerFacts DEF Inside, Outcomes, Inward
      <3>2. store' = Free \/ store' = Completed(value[r])
        BY <2>5, <3>1, ClaimCrossing
      <3>3. LeaveIdempotency(r)
        BY <2>1, <2>5, <3>1, Crossing DEF Claim, Await
      <3>4. store' = Completed(value[r])
        BY <2>5, <3>3 DEF LeaveIdempotency, In, Outcomes
      <3> QED BY <2>5, <3>4
    <2> QED BY <1>2, <1>7, <2>1, <2>3, <2>4, <2>5, GotStep
  <1>8. ASSUME ~Cancellable, store' = Claimed
        PROVE  \E p \in At("idempotency") : \E s \in Runs : Inside(s, p)'
    <2>1. CASE store = Claimed
      <3>1. PICK p \in At("idempotency"), s \in Runs : Inside(s, p)
        BY <1>8, <2>1 DEF ClaimInv
      <3>2. phase[r] # "cancelled"
        BY <1>8 DEF TypeInv, Placed
      <3>3. s = r => Inside(r, p)'
        BY <1>4, <1>8, <3>1, <3>2, ClaimCrossing
      <3> QED BY <1>2, <3>1, <3>3
    <2>2. CASE store # Claimed
      <3>1. Claim(r)
        <4>1. Claim(r) \/ LeaveIdempotency(r)
          BY <1>8, <2>2, StoreKept
        <4>2. LeaveIdempotency(r) => store' # Claimed
          BY <1>4, <2>2 DEF LeaveIdempotency, Outcomes
        <4> QED BY <1>8, <4>1, <4>2
      <3>2. at[r] \in At("idempotency")
        BY <3>1, LayerFacts DEF Claim, TypeInv, Placed, At
      <3>3. PICK p \in At("idempotency") : p = at[r]
        BY <3>2
      <3>4. Inside(r, p)'
        BY <1>4, <1>8, <2>2, <3>1, ClaimCrossing DEF Claim
      <3> QED BY <3>4
    <2> QED BY <2>1, <2>2
  <1>9. SUFFICES /\ \A p \in At("idempotency") : \A u, s \in Runs :
                       Inside(u, p)' /\ Inside(s, p)' => u = s
                 /\ \A p \in At("idempotency") : \A s \in Runs :
                       /\ Inside(s, p)' => store' = Claimed
                       /\ Got(s, p)' => store' = Completed(value'[s])
                 /\ ~Cancellable /\ store' = Claimed =>
                       \E p \in At("idempotency") : \E s \in Runs : Inside(s, p)'
    BY <1>1 DEF ClaimInv, Completed, Claimed, NoValue
  <1> QED BY <1>5, <1>6, <1>7, <1>8

\* The claim, where no asynchronous runner retries the idempotency layer.
LEMMA ClaimCorrect ==
    ASSUME \A w \in Runners : RetryBelow("idempotency", w)
    PROVE  Spec => []ClaimInv
  <1>1. Init => ClaimInv
    BY DEF Init, ClaimInv, Inside, Got, Inward, Outcomes, Free, Claimed, NoValue
  <1>2. TypeInv /\ ClaimInv /\ [Next]_vars => ClaimInv'
    <2>1. ASSUME TypeInv, ClaimInv, NEW r \in Runs, Step(r) PROVE ClaimInv'
      BY <2>1, ClaimStep DEF TypeInv
    <2>2. ASSUME ClaimInv, UNCHANGED vars PROVE ClaimInv'
      BY <2>2, SameRunner DEF ClaimInv, Inside, Got, vars, At, Completed, Claimed, NoValue
    <2> QED BY <2>1, <2>2 DEF Next, Done
  <1> QED BY TypeCorrect, <1>1, <1>2, PTL DEF Spec

\* Where nothing is cancelled and no asynchronous runner retries the idempotency
\* layer, no claim outlives the runs, however many there are.
THEOREM ClaimsAreReleased ==
    ASSUME \A w \in Runners : RetryBelow("idempotency", w)
    PROVE  Spec => []NoOrphanClaim
  <1>1. ClaimInv => NoOrphanClaim
    BY DEF ClaimInv, NoOrphanClaim, Inside, Inward, Outcomes
  <1> QED BY ClaimCorrect, <1>1, PTL

\* Runs with one key that return a value return the same value, where every runner
\* has the idempotency layer and no asynchronous one retries it.
THEOREM RunsAgree ==
    ASSUME \A w \in Runners : RetryBelow("idempotency", w) /\ "idempotency" \in Range(w.layers)
    PROVE  Spec => []ResultsAgree
  <1>1. TypeInv /\ ClaimInv => ResultsAgree
    <2> SUFFICES ASSUME TypeInv, ClaimInv, NEW r \in Runs, NEW s \in Runs,
                        Finished(r), Finished(s), value[r] # NoValue, value[s] # NoValue
                 PROVE  value[r] = value[s]
      BY DEF ResultsAgree
    <2>1. PICK p \in At("idempotency") : TRUE
      BY DEF TypeInv, At, Layers, Range
    <2>2. store = Completed(value[r]) /\ store = Completed(value[s])
      BY <2>1 DEF ClaimInv, Got, Finished
    <2> QED BY <2>2 DEF Completed
  <1>2. \A w \in Runners : RetryBelow("idempotency", w)
    OBVIOUS
  <1>3. Spec => []ClaimInv
    BY <1>2, ClaimCorrect
  <1> QED BY TypeCorrect, <1>1, <1>3, PTL

-----------------------------------------------------------------------------
(* Commits. *)

\* Values that come from the store pass the layers above the idempotency layer only.
LEMMA AwaitedStep ==
    ASSUME TypeInv, NEW r \in Runs, Step(r), AwaitedInv(r)
    PROVE  AwaitedInv(r)'
  <1>1. /\ Len(Layers) \in Nat /\ DOMAIN Layers = 1..Len(Layers)
        /\ phase \in [Runs -> Phases] /\ at \in [Runs -> Int] /\ Placed(r)
        /\ plain \in [Runs -> BOOLEAN] /\ Async \in BOOLEAN
    BY LayerFacts DEF TypeInv
  <1>2. At("idempotency")' = At("idempotency") /\ Async' = Async
    BY AtFacts, SameRunner DEF Step
  <1>3. SUFFICES ASSUME NEW p \in At("idempotency"), phase'[r] = "value", at'[r] >= p
                 PROVE  plain'[r] = ~Async
    BY <1>2 DEF AwaitedInv
  <1>4. p \in 1..Len(Layers) /\ \A q \in At("idempotency") : q = p
    BY AtFacts
  <1>5. ~ReturnStored(r) \/ ~(CallIdempotency(r) \/ Reget(r))
    <2>1. SUFFICES ASSUME ReturnStored(r), CallIdempotency(r) \/ Reget(r) PROVE FALSE
      OBVIOUS
    <2>2. at[r] = p
      BY <1>1, <1>4, <2>1 DEF CallIdempotency, Reget, In, Placed, At
    <2> QED BY <1>1, <1>3, <1>4, <2>1, <2>2 DEF ReturnStored, Go
  <1>6. CASE RunBackend(r)
    BY <1>1, <1>6 DEF RunBackend
  <1>7. CASE LeaveAudit(r) \/ LeaveTransaction(r) \/ LeaveIdempotency(r) \/ LeaveRetry(r)
    <2>1. UNCHANGED plain
      BY <1>7 DEF LeaveAudit, LeaveTransaction, LeaveIdempotency, LeaveRetry
    <2>2. phase[r] = "value" /\ at'[r] = at[r] - 1
      <3>1. CASE LeaveAudit(r) \/ LeaveIdempotency(r)
        BY <1>1, <1>3, <3>1 DEF LeaveAudit, LeaveIdempotency, In, Go, Outcomes
      <3>2. CASE LeaveTransaction(r)
        BY <1>1, <1>3, <3>2 DEF LeaveTransaction, In, Go, Outcomes
      <3>3. CASE LeaveRetry(r)
        BY <1>1, <1>3, <3>3 DEF LeaveRetry, In, Go, Outcomes
      <3> QED BY <1>7, <3>1, <3>2, <3>3
    <2>3. at[r] >= p
      BY <1>1, <1>3, <1>4, <2>2
    <2> QED BY <2>1, <2>2, <2>3 DEF AwaitedInv
  <1>8. CASE Start(r) \/ CallAudit(r) \/ CallTransaction(r) \/ CallRetry(r) \/ Claim(r)
              \/ CallBackend(r) \/ Await(r) \/ Finish(r)
    BY <1>1, <1>3, <1>8 DEF Start, CallAudit, CallTransaction, CallRetry, Claim, CallBackend,
                            Await, Finish, Go
  <1>9. CASE ~ReturnStored(r) /\ (CallIdempotency(r) \/ Reget(r))
    BY <1>1, <1>3, <1>9 DEF CallIdempotency, Reget, Go
  <1> QED BY <1>5, <1>6, <1>7, <1>8, <1>9 DEF Step

\* A committed value between the two layers moves on to the idempotency layer.
LEMMA CarryStep ==
    ASSUME TypeInv, NEW r \in Runs, Step(r), Commits(r), AwaitedInv(r), ~LeaveIdempotency(r)
    PROVE  Commits(r)' /\ ~LeaveTransaction(r) /\ ~CallTransaction(r) /\ ~Claim(r)
  <1>1. /\ Len(Layers) \in Nat /\ DOMAIN Layers = 1..Len(Layers)
        /\ phase \in [Runs -> Phases] /\ at \in [Runs -> Int] /\ Placed(r)
    BY LayerFacts DEF TypeInv
  <1>2. At("idempotency")' = At("idempotency") /\ At("transaction")' = At("transaction")
    BY AtFacts DEF Step
  <1>3. PICK p \in At("idempotency"), t \in At("transaction") :
             phase[r] = "value" /\ at[r] >= p /\ at[r] < t
    BY DEF Commits
  <1>4. /\ p \in 1..Len(Layers) /\ Layers[p] = "idempotency"
        /\ t \in 1..Len(Layers) /\ Layers[t] = "transaction"
        /\ \A u \in 1..Len(Layers) : Layers[u] = "transaction" => u = t
    BY AtFacts
  <1>5. plain[r] = ~Async /\ (looping[r] => Async)
    BY <1>1, <1>3 DEF AwaitedInv, Placed
  <1>6. /\ ~LeaveTransaction(r) /\ ~CallTransaction(r) /\ ~Claim(r)
    BY <1>1, <1>3, <1>4 DEF LeaveTransaction, CallTransaction, Claim, In
  <1>7. LeaveAudit(r) \/ LeaveRetry(r)
    BY <1>1, <1>3, <1>4, <1>6 DEF Step, Start, CallAudit, CallTransaction, CallRetry, CallIdempotency,
       Reget, CallBackend, Await, RunBackend, Finish, In
  <1>8. at[r] # p /\ phase'[r] = "value" /\ at'[r] = at[r] - 1
    <2>1. CASE LeaveAudit(r)
      BY <1>1, <1>3, <1>4, <2>1 DEF LeaveAudit, In, Go
    <2>2. CASE LeaveRetry(r)
      BY <1>1, <1>3, <1>4, <1>5, <2>2 DEF LeaveRetry, AttemptFailed, In, Go
    <2> QED BY <1>7, <2>1, <2>2
  <1>9. at'[r] >= p /\ at'[r] < t
    BY <1>1, <1>3, <1>4, <1>8
  <1> QED BY <1>2, <1>6, <1>8, <1>9 DEF Commits

\* A stored value stays.
LEMMA StoredStays ==
    ASSUME TypeInv, NEW r \in Runs, Step(r), ClaimInv, RetryBelow("idempotency", runner), Stored
    PROVE  UNCHANGED store
  <1>1. \A p \in At("idempotency") : ~Inside(r, p) /\ store # Free
    BY StoreFacts DEF ClaimInv, Stored, Free, Claimed
  <1>2. At("idempotency") # {} => UNCHANGED store
    BY <1>1, ClaimCrossing
  <1>3. At("idempotency") = {} => ~Claim(r) /\ ~LeaveIdempotency(r)
    BY LayerFacts DEF Claim, LeaveIdempotency, In, At, TypeInv, Placed
  <1> QED BY <1>2, <1>3, StoreKept

\* A run that carries a commit holds the claim.
LEMMA CarrierClaims ==
    ASSUME TypeInv, NEW r \in Runs, Commits(r)
    PROVE  \E p \in At("idempotency") : Inside(r, p)
  BY DEF Commits, Inside, Outcomes

\* Transaction i of run r is committed.
Committed(r, i) == i \in DOMAIN txns[r] /\ txns[r][i] = "committed"

\* What a step does to the committed transactions: at most it commits one more, with
\* the value of the run that makes it.
LEMMA CommittedStep ==
    ASSUME TypeInv, NEW r \in Runs, Step(r), NEW s \in Runs, NEW i, Committed(s, i)'
    PROVE  \/ Committed(s, i)
           \/ /\ s = r /\ i = Len(txns[r]) /\ LeaveTransaction(r)
              /\ phase[r] = "value" /\ phase'[r] = "value" /\ at'[r] = at[r] - 1
              /\ at[r] \in At("transaction")
  <1>1. /\ phase \in [Runs -> Phases] /\ at \in [Runs -> Int] /\ txns[s] \in Seq(TxnStates)
        /\ txns \in [Runs -> Seq(TxnStates)] /\ txns[r] \in Seq(TxnStates)
    BY DEF TypeInv
  <1>2. CASE s # r
    BY <1>2, OthersStay DEF Committed
  <1>3. CASE s = r /\ CallTransaction(r)
    <2>1. txns'[r] = Append(txns[r], "open")
      BY <1>1, <1>3 DEF CallTransaction
    <2>2. i \in 1 .. Len(txns[r]) + 1 /\ Append(txns[r], "open")[i] = "committed"
      BY <1>1, <1>3, <2>1 DEF Committed
    <2>3. i # Len(txns[r]) + 1
      BY <1>1, <2>2
    <2> QED BY <1>1, <1>3, <2>2, <2>3 DEF Committed
  <1>4. CASE s = r /\ LeaveTransaction(r)
    <2>1. CASE UNCHANGED txns
      BY <2>1 DEF Committed
    <2>2. ASSUME NEW x \in {"committed", "refused", "rolled back"}, CloseTransaction(r, x)
          PROVE  Committed(s, i) \/ (x = "committed" /\ i = Len(txns[r]))
      <3>1. txns'[r] = [txns[r] EXCEPT ![Len(txns[r])] = x] /\ x \in TxnStates
        BY <1>1, <2>2 DEF CloseTransaction, TxnStates
      <3>2. /\ DOMAIN txns'[r] = DOMAIN txns[r]
            /\ \A j \in DOMAIN txns[r] : txns'[r][j] = IF j = Len(txns[r]) THEN x ELSE txns[r][j]
        BY <1>1, <3>1, CloseType
      <3> QED BY <1>4, <3>2 DEF Committed
    <2>3. CASE In(r, "value", "transaction") /\ CloseTransaction(r, "committed") /\ Go(r, "value", at[r] - 1)
      BY <1>1, <1>4, <2>2, <2>3 DEF In, Go, At
    <2>4. \/ In(r, "value", "transaction") /\ CloseTransaction(r, "committed") /\ Go(r, "value", at[r] - 1)
          \/ CloseTransaction(r, "refused") \/ CloseTransaction(r, "rolled back") \/ UNCHANGED txns
      BY <1>4 DEF LeaveTransaction
    <2> QED BY <2>1, <2>2, <2>3, <2>4
  <1>5. CASE ~CallTransaction(r) /\ ~LeaveTransaction(r)
    BY <1>5, TxnsKept DEF Committed
  <1> QED BY <1>2, <1>3, <1>4, <1>5

\* A step commits nothing beside a commit that is carried or stored.
LEMMA CommitStep ==
    ASSUME TypeInv, NEW r \in Runs, Step(r), ClaimInv, CommitInv, \A s \in Runs : AwaitedInv(s),
           AtMostOneCommit, RetryBelow("idempotency", runner), ClaimFirst(runner)
    PROVE  CommitInv' /\ AtMostOneCommit'
  <1>1. /\ Len(Layers) \in Nat /\ DOMAIN Layers = 1..Len(Layers)
        /\ phase \in [Runs -> Phases] /\ at \in [Runs -> Int]
    BY LayerFacts DEF TypeInv
  <1>2. At("idempotency")' = At("idempotency") /\ At("transaction")' = At("transaction")
    BY AtFacts DEF Step
  <1>3. ASSUME NEW t \in At("transaction")
        PROVE  \E p \in At("idempotency") : p < t
    <2>1. t \in 1..Len(Layers) /\ Layers[t] = "transaction"
      BY AtFacts
    <2>2. Over(runner, "idempotency", "transaction")
      BY <1>1, <2>1 DEF ClaimFirst, Range, Layers
    <2>3. PICK i, j \in 1..Len(Layers) : i < j /\ Layers[i] = "idempotency" /\ Layers[j] = "transaction"
      BY <1>1, <2>2 DEF Over, Layers
    <2>4. j = t /\ i \in At("idempotency")
      BY <1>1, <2>1, <2>3, LayerFacts DEF At
    <2> QED BY <2>3, <2>4
  <1>4. \A s \in Runs : \A i : Committed(s, i) => Stored \/ Commits(s)
    BY DEF CommitInv, Committed
  <1>5. \A s \in Runs : Commits(s) => ~Stored /\ \A u \in Runs : Commits(u) => u = s
    <2>1. SUFFICES ASSUME NEW s \in Runs, Commits(s)
                   PROVE  ~Stored /\ \A u \in Runs : Commits(u) => u = s
      OBVIOUS
    <2>2. PICK p \in At("idempotency") : Inside(s, p)
      BY <2>1, CarrierClaims
    <2>3. \A u \in Runs : Commits(u) => Inside(u, p)
      <3>1. \A q \in At("idempotency") : q = p
        BY AtFacts
      <3> QED BY <3>1, CarrierClaims
    <2> QED BY <2>2, <2>3 DEF ClaimInv, Claimed, Stored
  <1>6. ASSUME LeaveTransaction(r), phase[r] = "value", at[r] \in At("transaction")
        PROVE  \A s \in Runs : \A i : ~Committed(s, i)
    <2>1. PICK p \in At("idempotency") : p < at[r]
      BY <1>3, <1>6
    <2>2. Inside(r, p) /\ p \in 1..Len(Layers)
      BY <1>1, <1>6, <2>1, AtFacts DEF Inside, Outcomes
    <2>3. store = Claimed /\ \A s \in Runs : Inside(s, p) => s = r
      BY <2>2 DEF ClaimInv
    <2>4. ~Stored
      BY <2>3 DEF Stored, Claimed
    <2>5. ~Commits(r)
      <3>1. \A t \in At("transaction") : t = at[r]
        BY <1>6, AtFacts
      <3> QED BY <1>1, <3>1 DEF Commits
    <2>6. \A s \in Runs : Commits(s) => s = r
      <3>1. \A q \in At("idempotency") : q = p
        BY AtFacts
      <3> QED BY <2>3, <3>1, CarrierClaims
    <2> QED BY <1>4, <2>4, <2>5, <2>6
  <1>7. AtMostOneCommit'
    <2>1. \A s, u \in Runs : \A i, j : Committed(s, i) /\ Committed(u, j) => s = u /\ i = j
      BY DEF AtMostOneCommit, Committed
    <2>2. \A s, u \in Runs : \A i, j : Committed(s, i)' /\ Committed(u, j)' => s = u /\ i = j
      <3>1. CASE LeaveTransaction(r) /\ phase[r] = "value" /\ at[r] \in At("transaction")
        BY <1>6, <3>1, CommittedStep
      <3>2. CASE ~(LeaveTransaction(r) /\ phase[r] = "value" /\ at[r] \in At("transaction"))
        BY <2>1, <3>2, CommittedStep
      <3> QED BY <3>1, <3>2
    <2> QED BY <2>2 DEF AtMostOneCommit, Committed
  <1>8. CommitInv'
    <2>1. SUFFICES ASSUME NEW s \in Runs, NEW i, Committed(s, i)' PROVE Stored' \/ Commits(s)'
      BY DEF CommitInv, Committed
    <2>2. CASE Stored
      BY <2>2, StoredStays DEF Stored
    <2>3. CASE ~Committed(s, i)
      <3>1. /\ s = r /\ at[r] \in At("transaction")
            /\ phase'[r] = "value" /\ at'[r] = at[r] - 1
        BY <2>1, <2>3, CommittedStep
      <3>2. PICK p \in At("idempotency") : p < at[r]
        BY <1>3, <3>1
      <3>3. p \in Int /\ at[r] \in Int
        BY <1>1, AtFacts
      <3>4. at'[r] >= p /\ at'[r] < at[r]
        BY <3>1, <3>2, <3>3
      <3> QED BY <1>2, <3>1, <3>4 DEF Commits
    <2>4. CASE Committed(s, i) /\ ~Stored
      <3>1. Commits(s)
        BY <1>4, <2>4
      <3>2. CASE s # r
        BY <1>2, <3>1, <3>2, OthersStay DEF Commits
      <3>3. CASE s = r /\ ~LeaveIdempotency(r)
        BY <3>1, <3>3, CarryStep
      <3>4. CASE s = r /\ LeaveIdempotency(r)
        <4>1. phase[r] = "value"
          BY <3>1, <3>4 DEF Commits
        <4> QED BY <3>4, <4>1 DEF LeaveIdempotency, In, Stored, Completed
      <3> QED BY <3>2, <3>3, <3>4
    <2> QED BY <2>2, <2>3, <2>4
  <1> QED BY <1>7, <1>8

\* However many runs with one key interleave, fail and retry, at most one of their
\* transactions is committed: where transactions are begun under a claim, and no
\* asynchronous runner retries the idempotency layer.
THEOREM OneCommitPerKey ==
    ASSUME \A w \in Runners : RetryBelow("idempotency", w) /\ ClaimFirst(w)
    PROVE  Spec => []AtMostOneCommit
  <1> DEFINE I == CommitInv /\ (\A s \in Runs : AwaitedInv(s)) /\ AtMostOneCommit
  <1>1. Init => I
    BY DEF Init, CommitInv, AwaitedInv, AtMostOneCommit
  <1>2. TypeInv /\ ClaimInv /\ I /\ [Next]_vars => I'
    <2>1. ASSUME TypeInv, ClaimInv, I, NEW r \in Runs, Step(r) PROVE I'
      <3>1. RetryBelow("idempotency", runner) /\ ClaimFirst(runner)
        BY <2>1 DEF TypeInv
      <3>2. CommitInv' /\ AtMostOneCommit'
        BY <2>1, <3>1, CommitStep
      <3>3. ASSUME NEW s \in Runs, s # r PROVE AwaitedInv(s)'
        <4>1. At("idempotency")' = At("idempotency") /\ Async' = Async
          BY <2>1, AtFacts, SameRunner DEF Step
        <4>2. phase'[s] = phase[s] /\ at'[s] = at[s] /\ plain'[s] = plain[s]
          BY <2>1, <3>3, OthersStay
        <4> QED BY <2>1, <4>1, <4>2 DEF AwaitedInv
      <3> QED BY <2>1, <3>2, <3>3, AwaitedStep
    <2>2. ASSUME I, UNCHANGED vars PROVE I'
      <3>1. Async' = Async /\ At("idempotency")' = At("idempotency") /\ At("transaction")' = At("transaction")
        BY <2>2, SameRunner DEF At, vars
      <3> QED BY <2>2, <3>1 DEF CommitInv, Commits, AwaitedInv, AtMostOneCommit, Stored, vars
    <2> QED BY <2>1, <2>2 DEF Next, Done
  <1>3. \A w \in Runners : RetryBelow("idempotency", w)
    OBVIOUS
  <1>4. Spec => []ClaimInv
    BY <1>3, ClaimCorrect
  <1> QED BY TypeCorrect, <1>1, <1>2, <1>4, PTL DEF Spec

-----------------------------------------------------------------------------
(* What a caller gets was committed. *)

\* A committed transaction stays so: what a run closes is its newest, which is open.
LEMMA CommittedStays ==
    ASSUME TypeInv, NEW r \in Runs, Step(r), HoldsOpen(r), NEW s \in Runs, HasTxn(s, "committed")
    PROVE  HasTxn(s, "committed")'
  <1>1. /\ Len(Layers) \in Nat /\ DOMAIN Layers = 1..Len(Layers) /\ txns[r] \in Seq(TxnStates)
        /\ phase \in [Runs -> Phases] /\ at \in [Runs -> Int] /\ txns \in [Runs -> Seq(TxnStates)]
    BY LayerFacts DEF TypeInv
  <1>2. PICK i \in DOMAIN txns[s] : txns[s][i] = "committed"
    BY DEF HasTxn
  <1>3. CASE s # r
    BY <1>2, <1>3, OthersStay DEF HasTxn
  <1>4. CASE s = r /\ CallTransaction(r)
    <2>1. txns'[r] = Append(txns[r], "open")
      BY <1>1, <1>4 DEF CallTransaction
    <2>2. i \in DOMAIN txns'[r] /\ txns'[r][i] = "committed"
      BY <1>1, <1>2, <1>4, <2>1
    <2> QED BY <1>4, <2>2 DEF HasTxn
  <1>5. CASE s = r /\ LeaveTransaction(r)
    <2>1. at[r] \in At("transaction") /\ phase[r] \in Outcomes
      BY <1>5 DEF LeaveTransaction, In, At, Outcomes
    <2>2. txns[r][Len(txns[r])] = "open"
      <3>1. Inside(r, at[r])
        BY <1>1, <2>1 DEF Inside
      <3> QED BY <2>1, <3>1 DEF HoldsOpen
    <2>3. CASE UNCHANGED txns
      BY <1>2, <1>5, <2>3 DEF HasTxn
    <2>4. ASSUME NEW x \in {"committed", "refused", "rolled back"}, CloseTransaction(r, x)
          PROVE  txns'[r][i] = "committed" /\ i \in DOMAIN txns'[r]
      <3>1. txns'[r] = [txns[r] EXCEPT ![Len(txns[r])] = x] /\ x \in TxnStates
        BY <1>1, <2>4 DEF CloseTransaction, TxnStates
      <3>2. /\ DOMAIN txns'[r] = DOMAIN txns[r]
            /\ \A j \in DOMAIN txns[r] : txns'[r][j] = IF j = Len(txns[r]) THEN x ELSE txns[r][j]
        BY <1>1, <3>1, CloseType
      <3> QED BY <1>2, <1>5, <2>2, <3>2
    <2> QED BY <1>5, <2>3, <2>4 DEF LeaveTransaction, HasTxn
  <1>6. CASE ~CallTransaction(r) /\ ~LeaveTransaction(r)
    BY <1>2, <1>6, TxnsKept DEF HasTxn
  <1> QED BY <1>3, <1>4, <1>5, <1>6

\* A value that comes out of the transaction layer was committed there.
LEMMA LeftCommitted ==
    ASSUME TypeInv, NEW r \in Runs, Step(r), HoldsOpen(r), at[r] \in At("transaction"),
           phase[r] = "value", phase'[r] = "value", at'[r] = at[r] - 1
    PROVE  HasTxn(r, "committed")'
  <1>1. /\ Len(Layers) \in Nat /\ DOMAIN Layers = 1..Len(Layers) /\ txns[r] \in Seq(TxnStates)
        /\ phase \in [Runs -> Phases] /\ at \in [Runs -> Int] /\ txns \in [Runs -> Seq(TxnStates)]
        /\ at[r] \in 1..Len(Layers) /\ Layers[at[r]] = "transaction"
    BY LayerFacts, AtFacts DEF TypeInv
  <1>2. Inside(r, at[r]) /\ phase[r] = "value"
    BY <1>1 DEF Inside, Outcomes
  <1>3. Len(txns[r]) > 0
    BY <1>2 DEF HoldsOpen
  <1>4. LeaveTransaction(r)
    <2>1. PICK p \in 1..Len(Layers) : p = at[r]
      BY <1>1
    <2>2. Inside(r, p) /\ ~Inside(r, p)'
      BY <1>1, <2>1 DEF Inside, Inward, Outcomes
    <2> QED BY <1>1, <2>1, <2>2, Crossing DEF CallTransaction, In, Await
  <1>5. CloseTransaction(r, "committed")
    BY <1>1, <1>4 DEF LeaveTransaction, In, Go
  <1>6. txns'[r] = [txns[r] EXCEPT ![Len(txns[r])] = "committed"] /\ "committed" \in TxnStates
    BY <1>1, <1>5 DEF CloseTransaction, TxnStates
  <1>7. Len(txns[r]) \in DOMAIN txns'[r] /\ txns'[r][Len(txns[r])] = "committed"
    BY <1>1, <1>3, <1>6, CloseType
  <1> QED BY <1>7 DEF HasTxn

\* Where commits come first, a value that is stored or has left the transaction layer
\* stays a committed one.
LEMMA ValueStep ==
    ASSUME TypeInv, NEW r \in Runs, Step(r), HoldsOpen(r), ValueInv, CommitFirst(runner)
    PROVE  ValueInv'
  <1>1. /\ Len(Layers) \in Nat /\ DOMAIN Layers = 1..Len(Layers) /\ Backend = Len(Layers) + 1
        /\ phase \in [Runs -> Phases] /\ at \in [Runs -> Int] /\ Placed(r)
        /\ value \in [Runs -> {NoValue} \cup Values]
    BY LayerFacts DEF TypeInv
  <1>2. At("transaction")' = At("transaction")
    BY AtFacts DEF Step
  <1>3. SUFFICES ASSUME NEW t \in At("transaction")
                 PROVE  /\ Stored' => HasTxn(store.value[1], "committed")'
                        /\ \A s \in Runs :
                              /\ phase'[s] = "value" /\ at'[s] >= t => value'[s][1] = s
                              /\ Got(s, t)' => HasTxn(value[s][1], "committed")'
    BY <1>2 DEF ValueInv
  <1>4. /\ t \in 1..Len(Layers) /\ Layers[t] = "transaction"
        /\ \A u \in At("transaction") : u = t
    BY AtFacts
  <1>5. \A p \in At("idempotency") : p \in 1..Len(Layers) /\ p < t
    <2>1. SUFFICES ASSUME NEW p \in At("idempotency") PROVE p \in 1..Len(Layers) /\ p < t
      OBVIOUS
    <2>2. p \in 1..Len(Layers) /\ Layers[p] = "idempotency"
      BY AtFacts
    <2> QED BY <1>1, <1>4, <2>2 DEF CommitFirst, Over, Layers
  <1>6. \A v \in Values : HasTxn(v[1], "committed") => v[1] \in Runs /\ HasTxn(v[1], "committed")'
    BY CommittedStays DEF Values
  <1>7. Stored => store.value \in Values /\ HasTxn(store.value[1], "committed")
    BY StoreFacts DEF ValueInv
  <1>8. \A s \in Runs : Got(s, t) => value[s] \in Values /\ HasTxn(value[s][1], "committed")
    BY DEF ValueInv, Got, TypeInv, Placed
  <1>9. Stored' => HasTxn(store.value[1], "committed")'
    <2>1. CASE UNCHANGED store
      BY <1>6, <1>7, <2>1 DEF Stored, HasTxn
    <2>2. CASE LeaveIdempotency(r) /\ ~UNCHANGED store
      <3>1. SUFFICES ASSUME Stored' PROVE HasTxn(store.value[1], "committed")'
        OBVIOUS
      <3>2. phase[r] = "value" /\ store' = Completed(value[r]) /\ at[r] \in At("idempotency")
        BY <2>2, <3>1 DEF LeaveIdempotency, In, At, Stored, Free, Outcomes
      <3>3. Got(r, t)
        BY <1>1, <1>5, <3>2 DEF Got
      <3>4. store'.value = value[r]
        BY <3>2 DEF Completed
      <3> QED BY <1>6, <1>8, <3>3, <3>4 DEF HasTxn
    <2>3. CASE Claim(r) /\ ~UNCHANGED store
      BY <2>3 DEF Claim, Stored, Claimed
    <2> QED BY <2>1, <2>2, <2>3, StoreKept
  <1>10. ASSUME NEW s \in Runs, s # r
         PROVE  /\ phase'[s] = "value" /\ at'[s] >= t => value'[s][1] = s
                /\ Got(s, t)' => HasTxn(value[s][1], "committed")'
    <2>1. phase'[s] = phase[s] /\ at'[s] = at[s] /\ value'[s] = value[s]
      BY <1>10, OthersStay
    <2>2. Got(s, t)' <=> Got(s, t)
      BY <2>1 DEF Got
    <2> QED BY <1>6, <1>8, <2>1, <2>2 DEF ValueInv, HasTxn
  <1>11. Got(r, t)' => HasTxn(value[r][1], "committed")'
    <2>1. SUFFICES ASSUME Got(r, t)' PROVE HasTxn(value[r][1], "committed")'
      OBVIOUS
    <2>2. CASE Got(r, t) /\ value'[r] = value[r]
      BY <1>6, <1>8, <2>2 DEF HasTxn
    <2>3. CASE /\ phase[r] = "value" /\ at[r] = t /\ value'[r] = value[r] /\ phase'[r] = "value"
               /\ at'[r] = t - 1
      <3>1. value[r][1] = r
        BY <1>1, <1>4, <2>3 DEF ValueInv
      <3>2. HasTxn(r, "committed")'
        BY <2>3, LeftCommitted
      <3> QED BY <2>3, <3>1, <3>2 DEF HasTxn
    <2>4. CASE Stored /\ value'[r] = store.value
      BY <1>6, <1>7, <2>4 DEF HasTxn
    <2> QED BY <1>4, <2>1, <2>2, <2>3, <2>4, GotStep
  <1>12. ASSUME phase'[r] = "value", at'[r] >= t PROVE value'[r][1] = r
    <2>1. CASE RunBackend(r)
      BY <1>1, <2>1 DEF RunBackend
    <2>2. CASE LeaveAudit(r) \/ LeaveTransaction(r) \/ LeaveIdempotency(r) \/ LeaveRetry(r)
      <3>1. UNCHANGED value
        BY <2>2 DEF LeaveAudit, LeaveTransaction, LeaveIdempotency, LeaveRetry
      <3>2. phase[r] = "value" /\ at'[r] = at[r] - 1
        <4>1. CASE LeaveAudit(r) \/ LeaveIdempotency(r)
          BY <1>1, <1>12, <4>1 DEF LeaveAudit, LeaveIdempotency, In, Go, Outcomes
        <4>2. CASE LeaveTransaction(r)
          BY <1>1, <1>12, <4>2 DEF LeaveTransaction, In, Go, Outcomes
        <4>3. CASE LeaveRetry(r)
          BY <1>1, <1>12, <4>3 DEF LeaveRetry, In, Go, Outcomes
        <4> QED BY <2>2, <4>1, <4>2, <4>3
      <3>3. at[r] >= t
        BY <1>1, <1>4, <1>12, <3>2
      <3> QED BY <3>1, <3>2, <3>3 DEF ValueInv
    <2>3. CASE ReturnStored(r) /\ (CallIdempotency(r) \/ Reget(r))
      <3>1. at[r] \in At("idempotency")
        BY <1>1, <2>3 DEF CallIdempotency, Reget, In, Placed, At
      <3> QED BY <1>1, <1>4, <1>5, <1>12, <2>3, <3>1 DEF ReturnStored, Go
    <2>4. CASE ~ReturnStored(r) /\ (CallIdempotency(r) \/ Reget(r))
      BY <1>1, <1>12, <2>4 DEF CallIdempotency, Reget, Go
    <2>5. CASE Start(r) \/ CallAudit(r) \/ CallTransaction(r) \/ CallRetry(r) \/ Claim(r)
                \/ CallBackend(r) \/ Await(r) \/ Finish(r)
      BY <1>1, <1>12, <2>5 DEF Start, CallAudit, CallTransaction, CallRetry, Claim, CallBackend,
                               Await, Finish, Go
    <2> QED BY <2>1, <2>2, <2>3, <2>4, <2>5 DEF Step
  <1> QED BY <1>9, <1>10, <1>11, <1>12

\* A value handed to a caller, from the store or not, was committed, where no runner
\* has the transaction layer above the idempotency layer.
THEOREM ResultsAreCommitted ==
    ASSUME \A w \in Runners : CommitFirst(w)
    PROVE  Spec => []ResultCommitted
  <1> DEFINE J == \A r \in Runs : HoldsOpen(r)
  <1>1. Init => ValueInv
    BY DEF Init, ValueInv, Got, Stored, Free, NoValue
  <1>2. TypeInv /\ J /\ ValueInv /\ [Next]_vars => ValueInv'
    <2>1. ASSUME TypeInv, J, ValueInv, NEW r \in Runs, Step(r) PROVE ValueInv'
      BY <2>1, ValueStep DEF TypeInv
    <2>2. ASSUME ValueInv, UNCHANGED vars PROVE ValueInv'
      BY <2>2, SameRunner DEF ValueInv, Got, HasTxn, Stored, vars, At
    <2> QED BY <2>1, <2>2 DEF Next, Done
  <1>3. TypeInv /\ ValueInv => ResultCommitted
    <2> SUFFICES ASSUME TypeInv, ValueInv, "transaction" \in Range(Layers)
                 PROVE  \A r \in Runs : Finished(r) /\ value[r] # NoValue => HasTxn(value[r][1], "committed")
      BY DEF ResultCommitted
    <2>1. PICK t \in At("transaction") : TRUE
      BY DEF At, Range
    <2> QED BY <2>1 DEF ValueInv, Got, Finished
  <1> QED BY TypeCorrect, OpenHolds, <1>1, <1>2, <1>3, PTL DEF Spec

-----------------------------------------------------------------------------
(* The audit trail. *)

\* The audit layer is the outermost.
AuditFirst(w) == Len(w.layers) > 0 /\ w.layers[1] = "audit"

\* A second record follows the first.
LEMMA TwoRecords ==
    ASSUME NEW a, NEW b
    PROVE  Append(<<a>>, b) = <<a, b>>
  <1> DEFINE s == Append(<<a>>, b)
             t == <<a, b>>
  <1>1. /\ <<a>> \in Seq({a, b}) /\ b \in {a, b} /\ Len(<<a>>) = 1
        /\ t \in Seq({a, b}) /\ Len(t) = 2
    OBVIOUS
  <1>2. s \in Seq({a, b}) /\ Len(s) = 2
    BY <1>1
  <1>3. \A i \in 1..2 : s[i] = t[i]
    BY <1>1
  <1> HIDE DEF s, t
  <1>4. s = [i \in 1..2 |-> s[i]] /\ t = [i \in 1..2 |-> t[i]]
    BY <1>1, <1>2
  <1> QED BY <1>3, <1>4 DEF s, t

\* Only the audit layer writes the audit trail.
LEMMA AuditKept ==
    ASSUME NEW r \in Runs, Step(r), ~CallAudit(r), ~LeaveAudit(r)
    PROVE  UNCHANGED audit
  BY DEF Step, Start, CallTransaction, CallRetry, CallIdempotency, ReturnStored, Claim, Reget,
         CallBackend, Await, RunBackend, LeaveTransaction, LeaveIdempotency, LeaveRetry, Finish

\* A step of a run keeps the trail in line with its place.
LEMMA AuditStep ==
    ASSUME TypeInv, NEW r \in Runs, Step(r), AuditInv(r), AuditFirst(runner)
    PROVE  AuditInv(r)'
  <1>1. /\ Len(Layers) \in Nat /\ DOMAIN Layers = 1..Len(Layers) /\ Backend = Len(Layers) + 1
        /\ phase \in [Runs -> Phases] /\ at \in [Runs -> Int] /\ Placed(r)
        /\ audit \in [Runs -> Seq({"started", "completed", "failed"})]
        /\ value \in [Runs -> {NoValue} \cup Values]
        /\ \A i \in 1..Len(Layers) : Layers[i] = "audit" => i = 1
        /\ Layers[1] = "audit" /\ Len(Layers) > 0
    <2>1. Len(Layers) \in Nat /\ Len(Layers) > 0 /\ Layers[1] = "audit"
      BY LayerFacts DEF AuditFirst, Layers
    <2>2. \A i \in 1..Len(Layers) : Layers[i] = "audit" => i = 1
      BY <2>1, LayerFacts
    <2> QED BY <2>1, <2>2, LayerFacts DEF TypeInv
  <1>2. Cancellable' = Cancellable
    BY SameRunner DEF Step
  <1>3. CASE CallAudit(r)
    <2>1. phase[r] = "call" /\ at[r] = 1 /\ phase'[r] = "call" /\ at'[r] = 2
      BY <1>1, <1>3 DEF CallAudit, In, Go
    <2>2. audit[r] = << >> /\ audit'[r] = Append(audit[r], "started")
      BY <1>1, <1>3, <2>1 DEF CallAudit, AuditInv, Inward
    <2> QED BY <2>1, <2>2 DEF AuditInv, Inside, Inward, Outcomes
  <1>4. CASE LeaveAudit(r)
    <2>1. phase[r] \in Outcomes /\ at[r] = 1 /\ phase'[r] = phase[r] /\ at'[r] = 0
      BY <1>1, <1>4 DEF LeaveAudit, In, Go
    <2>2. audit[r] = <<"started">>
      BY <2>1 DEF AuditInv, Inside
    <2>3. CASE phase[r] = "value"
      <3>1. audit'[r] = Append(audit[r], "completed")
        BY <1>1, <1>4, <2>3 DEF LeaveAudit, In, Outcomes
      <3>2. audit'[r] = <<"started", "completed">>
        BY <2>2, <3>1, TwoRecords
      <3> QED BY <2>1, <2>3, <3>2 DEF AuditInv, Inside, Inward, Outcomes
    <2>4. CASE phase[r] = "error"
      <3>1. audit'[r] = Append(audit[r], "failed")
        BY <1>1, <1>4, <2>4 DEF LeaveAudit, In, Outcomes
      <3>2. audit'[r] = <<"started", "failed">>
        BY <2>2, <3>1, TwoRecords
      <3> QED BY <2>1, <2>4, <3>2 DEF AuditInv, Inside, Inward, Outcomes
    <2>5. CASE phase[r] = "cancelled"
      BY <2>1, <2>5 DEF AuditInv, Inside, Inward, Outcomes
    <2> QED BY <2>1, <2>3, <2>4, <2>5 DEF Outcomes
  <1>5. CASE Finish(r)
    <2>1. /\ phase[r] \in Outcomes /\ at[r] = 0 /\ phase'[r] = "finished" /\ at'[r] = 0
          /\ UNCHANGED audit /\ value'[r] = IF phase[r] = "value" THEN value[r] ELSE NoValue
      BY <1>1, <1>5 DEF Finish, Go
    <2>2. phase[r] = "value" => value[r] # NoValue
      <3>1. ASSUME NEW a \in Runs, NEW b \in Nat PROVE <<a, b>> # << >>
        <4>1. Len(<<a, b>>) = 2
          OBVIOUS
        <4> QED BY <4>1
      <3>2. phase[r] = "value" => \E a \in Runs, b \in Nat : value[r] = <<a, b>>
        BY <1>1 DEF Placed, Values
      <3> QED BY <3>1, <3>2 DEF NoValue
    <2>3. ~Cancellable => phase[r] # "cancelled"
      BY <1>1 DEF Placed
    <2>4. ~Cancellable => audit'[r] = <<"started", IF value'[r] = NoValue THEN "failed" ELSE "completed">>
      BY <2>1, <2>2, <2>3 DEF AuditInv, Outcomes
    <2> QED BY <1>2, <2>1, <2>4 DEF AuditInv, Inside, Inward, Outcomes, NoValue
  <1>6. CASE ~CallAudit(r) /\ ~LeaveAudit(r) /\ ~Finish(r)
    <2>1. UNCHANGED audit
      BY <1>6, AuditKept
    <2>2. /\ phase'[r] # "finished" /\ phase'[r] # "idle"
          /\ phase'[r] \in Inward /\ at'[r] <= 1 =>
                phase[r] = "idle" \/ (phase[r] \in Inward /\ at[r] <= 1)
          /\ phase'[r] \in Outcomes => at'[r] # 0
      <3>1. CASE Start(r)
        BY <1>1, <3>1 DEF Placed, Inward, Outcomes, Start, Go
      <3>2. CASE CallTransaction(r)
        BY <1>1, <3>2 DEF Placed, Inward, Outcomes, CallTransaction, In, Go
      <3>3. CASE CallRetry(r)
        BY <1>1, <3>3 DEF Placed, Inward, Outcomes, CallRetry, In, Go
      <3>4. CASE CallIdempotency(r)
        BY <1>1, <3>4 DEF Placed, Inward, Outcomes, CallIdempotency, ReturnStored, In, Go
      <3>5. CASE Claim(r)
        BY <1>1, <3>5 DEF Placed, Inward, Outcomes, Claim, Go
      <3>6. CASE Reget(r)
        BY <1>1, <3>6 DEF Placed, Inward, Outcomes, Reget, ReturnStored, Go
      <3>7. CASE CallBackend(r)
        BY <1>1, <3>7 DEF Placed, Inward, Outcomes, CallBackend, Go
      <3>8. CASE Await(r)
        <4>1. \A d \in RetryLayers : d \in 1..Len(Layers)
          BY LayerFacts
        <4>2. phase'[r] \in {"call", "running"} /\ at'[r] > 1
          BY <1>1, <3>8, <4>1 DEF Placed, Await, Go
        <4>3. at'[r] \in Int
          BY TypeStep DEF TypeInv
        <4> QED BY <4>2, <4>3 DEF Inward, Outcomes
      <3>9. CASE RunBackend(r)
        BY <1>1, <3>9 DEF Placed, Inward, Outcomes, RunBackend, Go
      <3>10. CASE LeaveTransaction(r)
        <4>1. at[r] \in 1..Len(Layers) /\ Layers[at[r]] = "transaction"
          BY <1>1, <3>10 DEF LeaveTransaction, In
        <4>2. phase'[r] \in Outcomes /\ at'[r] = at[r] - 1
          BY <1>1, <3>10 DEF LeaveTransaction, Go, Outcomes
        <4> QED BY <1>1, <4>1, <4>2 DEF Inward, Outcomes
      <3>11. CASE LeaveIdempotency(r)
        BY <1>1, <3>11 DEF Placed, Inward, Outcomes, LeaveIdempotency, In, Go
      <3>12. CASE LeaveRetry(r)
        BY <1>1, <3>12 DEF Placed, Inward, Outcomes, LeaveRetry, AttemptFailed, In, Go
      <3> QED BY <1>6, <3>1, <3>2, <3>3, <3>4, <3>5, <3>6, <3>7, <3>8, <3>9, <3>10, <3>11, <3>12 DEF Step
    <2>3. Inside(r, 1)' => Inside(r, 1)
      <3>1. 1 \in 1..Len(Layers)
        BY <1>1
      <3>2. CASE Await(r)
        BY <3>1, <3>2, AwaitFacts
      <3>3. CASE ~Await(r)
        BY <1>1, <1>6, <3>1, <3>3, Crossing
      <3> QED BY <3>2, <3>3
    <2> QED BY <2>1, <2>2, <2>3 DEF AuditInv, Outcomes, NoValue
  <1> QED BY <1>3, <1>4, <1>5, <1>6

\* With the audit layer outermost and nothing cancelled, a finished run has a start and
\* the end its caller saw, whatever the other layers do below.
THEOREM AuditTellsOutcome ==
    ASSUME \A w \in Runners : AuditFirst(w)
    PROVE  Spec => []AuditMatches
  <1> DEFINE I == \A r \in Runs : AuditInv(r)
  <1>1. Init => I
    BY DEF Init, AuditInv, Inside, Inward, Outcomes
  <1>2. TypeInv /\ I /\ [Next]_vars => I'
    <2>1. ASSUME TypeInv, I, NEW r \in Runs, Step(r) PROVE I'
      <3>1. ASSUME NEW s \in Runs, s # r PROVE AuditInv(s)'
        <4>1. /\ phase'[s] = phase[s] /\ at'[s] = at[s] /\ value'[s] = value[s]
              /\ audit'[s] = audit[s]
          BY <2>1, <3>1, OthersStay
        <4>2. Cancellable' = Cancellable
          BY <2>1, SameRunner DEF Step
        <4> QED BY <2>1, <4>1, <4>2 DEF AuditInv, Inside, NoValue
      <3>2. AuditFirst(runner)
        BY <2>1 DEF TypeInv
      <3> QED BY <2>1, <3>1, <3>2, AuditStep
    <2>2. ASSUME I, UNCHANGED vars PROVE I'
      BY <2>2, SameRunner DEF AuditInv, Inside, NoValue, vars
    <2> QED BY <2>1, <2>2 DEF Next, Done
  <1>3. I => AuditMatches
    BY DEF AuditInv, AuditMatches, Finished
  <1> QED BY TypeCorrect, <1>1, <1>2, <1>3, PTL DEF Spec
=============================================================================
