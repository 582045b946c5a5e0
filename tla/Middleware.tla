----------------------------- MODULE Middleware -----------------------------
(***************************************************************************)
(* Runner.execute through the middleware onion (runtime/runner.py,         *)
(* runtime/middleware): concurrent runs that share one idempotency key,    *)
(* each wrapped in the same layers around a backend that may succeed, fail *)
(* or, when it is asynchronous, be cancelled.                              *)
(*                                                                         *)
(* A layer's execute either gets a plain value or an exception from the    *)
(* layer below, or an awaitable that it wraps; what it does with the value *)
(* or the exception is the same in both cases and happens once it arrives. *)
(* So a run is a position in the onion and what travels through it.  An    *)
(* awaitable does nothing until the caller awaits it.                      *)
(***************************************************************************)
EXTENDS Integers, Sequences, Functions

CONSTANTS
    Runs,     \* runs with one idempotency key
    Runners,  \* the ways the runner may have been assembled
    Attempts  \* attempts of RetryMiddleware

LayerKinds == {"audit", "idempotency", "retry", "transaction"}

\* That no layer occurs twice is assumed: Runner takes any sequence of layers.
ASSUME MiddlewareAssumption ==
    /\ \A w \in Runners :
          /\ w.layers \in Seq(LayerKinds)
          /\ \A i, j \in DOMAIN w.layers : w.layers[i] = w.layers[j] => i = j
          /\ w.async \in BOOLEAN
          /\ w.cancellable \in BOOLEAN
    /\ Attempts \in Nat \ {0}

VARIABLES
    runner,  \* the runner of all runs, which never changes
    phase,   \* what run r is doing at its position
    at,      \* the position of run r: 0 the runner, then the layers, then the backend
    tries,   \* attempts the retry layer has started in its present loop
    looping, \* the retry layer's own coroutine is running
    value,   \* the value travelling outwards: <<run, backend call>>
    plain,   \* ... and it was returned by execute, not awaited
    calls,   \* backend executions of run r that began
    store,   \* the idempotency store's entry for the key
    txns,    \* the transactions run r began, in order, with their state
    audit,   \* the audit records of run r
    events   \* the runner's telemetry for run r

vars == <<runner, phase, at, tries, looping, value, plain, calls, store, txns, audit,
          events>>

\* The middleware of the runner, outermost first.
Layers == runner.layers

\* The backend returns an awaitable.
Async == runner.async

\* The awaiting task may be cancelled.
Cancellable == runner.cancellable

Backend == Len(Layers) + 1

NoValue == << >>

\* An entry of the idempotency store.
Free == [state |-> "free", value |-> NoValue]
Claimed == [state |-> "claimed", value |-> NoValue]
Completed(v) == [state |-> "completed", value |-> v]

Init ==
    /\ runner \in Runners
    /\ phase = [r \in Runs |-> "idle"]
    /\ at = [r \in Runs |-> 0]
    /\ tries = [r \in Runs |-> 0]
    /\ looping = [r \in Runs |-> FALSE]
    /\ value = [r \in Runs |-> NoValue]
    /\ plain = [r \in Runs |-> FALSE]
    /\ calls = [r \in Runs |-> 0]
    /\ store = Free
    /\ txns = [r \in Runs |-> << >>]
    /\ audit = [r \in Runs |-> << >>]
    /\ events = [r \in Runs |-> << >>]

\* Run r is in phase p at a layer of kind k.
In(r, p, k) == phase[r] = p /\ at[r] \in DOMAIN Layers /\ Layers[at[r]] = k

Go(r, p, d) == phase' = [phase EXCEPT ![r] = p] /\ at' = [at EXCEPT ![r] = d]

\* Runner.execute announces the run and calls the outermost layer.
Start(r) ==
    /\ phase[r] = "idle"
    /\ Go(r, "call", 1)
    /\ events' = [events EXCEPT ![r] = Append(@, "started")]
    /\ UNCHANGED <<tries, looping, value, plain, calls, store, txns, audit>>

-----------------------------------------------------------------------------
(* Inwards: execute of each layer up to its call of the layer below. *)

CallAudit(r) ==
    /\ In(r, "call", "audit")
    /\ audit' = [audit EXCEPT ![r] = Append(@, "started")]
    /\ Go(r, "call", at[r] + 1)
    /\ UNCHANGED <<tries, looping, value, plain, calls, store, txns, events>>

CallTransaction(r) ==
    /\ In(r, "call", "transaction")
    /\ txns' = [txns EXCEPT ![r] = Append(@, "open")]
    /\ Go(r, "call", at[r] + 1)
    /\ UNCHANGED <<tries, looping, value, plain, calls, store, audit, events>>

CallRetry(r) ==
    /\ In(r, "call", "retry")
    /\ tries' = [tries EXCEPT ![r] = 1]
    /\ Go(r, "call", at[r] + 1)
    /\ UNCHANGED <<looping, value, plain, calls, store, txns, audit, events>>

Stored == store.state = "completed"

\* Return the stored value as it is, awaited or not.
ReturnStored(r) ==
    /\ Stored
    /\ value' = [value EXCEPT ![r] = store.value]
    /\ plain' = [plain EXCEPT ![r] = TRUE]
    /\ Go(r, "value", at[r] - 1)
    /\ UNCHANGED <<tries, looping, calls, store, txns, audit, events>>

\* The first look into the store.
CallIdempotency(r) ==
    /\ In(r, "call", "idempotency")
    /\ \/ ReturnStored(r)
       \/ /\ ~Stored
          /\ Go(r, "claim", at[r])
          /\ UNCHANGED <<tries, looping, value, plain, calls, store, txns, audit, events>>

\* Mutant: the answer of the store is ignored.
ClaimIgnored(r) ==
    /\ phase[r] = "claim"
    /\ store' = Claimed
    /\ Go(r, "call", at[r] + 1)
    /\ UNCHANGED <<tries, looping, value, plain, calls, txns, audit, events>>

Claim(r) ==
    /\ phase[r] = "claim"
    /\ \/ /\ store = Free
          /\ store' = Claimed
          /\ Go(r, "call", at[r] + 1)
       \/ /\ store # Free
          /\ Go(r, "reget", at[r])
          /\ UNCHANGED store
    /\ UNCHANGED <<tries, looping, value, plain, calls, txns, audit, events>>

\* The second look; a key that is claimed and has no value raises.
Reget(r) ==
    /\ phase[r] = "reget"
    /\ \/ ReturnStored(r)
       \/ /\ ~Stored
          /\ Go(r, "error", at[r] - 1)
          /\ UNCHANGED <<tries, looping, value, plain, calls, store, txns, audit, events>>

\* A synchronous backend runs.  An asynchronous one returns a coroutine, which
\* every layer wraps and the runner returns to its caller, except in the retry
\* layer's own loop, which awaits it.
CallBackend(r) ==
    /\ phase[r] = "call" /\ at[r] = Backend
    /\ Go(r, IF Async /\ ~looping[r] THEN "returned" ELSE "running", at[r])
    /\ UNCHANGED <<tries, looping, value, plain, calls, store, txns, audit, events>>

RetryLayers == {d \in DOMAIN Layers : Layers[d] = "retry"}

\* The caller awaits.  The layers' coroutines await one another down to the
\* backend's, or down to the retry layer's: it dropped the awaitable it had and
\* calls the layer below anew.
Await(r) ==
    /\ phase[r] = "returned"
    /\ \/ /\ RetryLayers = {}
          /\ Go(r, "running", at[r])
          /\ UNCHANGED <<tries, looping>>
       \/ \E d \in RetryLayers :
             /\ Go(r, "call", d + 1)
             /\ tries' = [tries EXCEPT ![r] = 1]
             /\ looping' = [looping EXCEPT ![r] = TRUE]
    /\ UNCHANGED <<value, plain, calls, store, txns, audit, events>>

\* The backend's execution ends one way or another.
RunBackend(r) ==
    /\ phase[r] = "running"
    /\ calls' = [calls EXCEPT ![r] = @ + 1]
    /\ \E p \in {"value", "error"} \cup (IF Async /\ Cancellable THEN {"cancelled"} ELSE {}) :
          Go(r, p, at[r] - 1)
    /\ value' = [value EXCEPT ![r] = <<r, calls[r] + 1>>]
    /\ plain' = [plain EXCEPT ![r] = ~Async]
    /\ UNCHANGED <<tries, looping, store, txns, audit, events>>

-----------------------------------------------------------------------------
(* Outwards: what a layer does with a value or an exception from below.  A  *)
(* cancellation is no Exception, so no layer's handler sees it.             *)

Outcomes == {"value", "error", "cancelled"}

\* Mutant: failures are not recorded.
LeaveAuditSilently(r) ==
    /\ \E p \in Outcomes :
          /\ In(r, p, "audit")
          /\ audit' = [audit EXCEPT ![r] = IF p = "value" THEN Append(@, "completed") ELSE @]
          /\ Go(r, p, at[r] - 1)
    /\ UNCHANGED <<tries, looping, value, plain, calls, store, txns, events>>

LeaveAudit(r) ==
    /\ \E p \in Outcomes :
          /\ In(r, p, "audit")
          /\ audit' = [audit EXCEPT ![r] = CASE p = "value" -> Append(@, "completed")
                                             [] p = "error" -> Append(@, "failed")
                                             [] OTHER -> @]
          /\ Go(r, p, at[r] - 1)
    /\ UNCHANGED <<tries, looping, value, plain, calls, store, txns, events>>

\* The newest transaction of run r, which is the one its coroutine holds.
CloseTransaction(r, state) ==
    txns' = [txns EXCEPT ![r][Len(txns[r])] = state]

\* Mutant: an exception passes without a rollback.
LeaveTransactionOpen(r) ==
    /\ \/ In(r, "value", "transaction") /\ CloseTransaction(r, "committed")
       \/ In(r, "error", "transaction") /\ UNCHANGED txns
    /\ Go(r, phase[r], at[r] - 1)
    /\ UNCHANGED <<tries, looping, value, plain, calls, store, audit, events>>

\* commit stands outside the try: when it raises nothing is rolled back.
LeaveTransaction(r) ==
    /\ \/ /\ In(r, "value", "transaction")
          /\ \/ CloseTransaction(r, "committed") /\ Go(r, "value", at[r] - 1)
             \/ CloseTransaction(r, "refused") /\ Go(r, "error", at[r] - 1)
       \/ /\ In(r, "error", "transaction")
          /\ CloseTransaction(r, "rolled back")
          /\ Go(r, "error", at[r] - 1)
       \/ /\ In(r, "cancelled", "transaction")
          /\ Go(r, "cancelled", at[r] - 1)
          /\ UNCHANGED txns
    /\ UNCHANGED <<tries, looping, value, plain, calls, store, audit, events>>

\* Mutant: the claim is not released after an exception.
LeaveIdempotencyClaimed(r) ==
    /\ \E p \in Outcomes :
          /\ In(r, p, "idempotency")
          /\ store' = IF p = "value" THEN Completed(value[r]) ELSE store
          /\ Go(r, p, at[r] - 1)
    /\ UNCHANGED <<tries, looping, value, plain, calls, txns, audit, events>>

\* Mutant: whatever the backend left behind is stored, after an exception too.
LeaveIdempotencyFailed(r) ==
    /\ \E p \in Outcomes :
          /\ In(r, p, "idempotency")
          /\ store' = Completed(value[r])
          /\ Go(r, p, at[r] - 1)
    /\ UNCHANGED <<tries, looping, value, plain, calls, txns, audit, events>>

LeaveIdempotency(r) ==
    /\ \E p \in Outcomes :
          /\ In(r, p, "idempotency")
          /\ store' = CASE p = "value" -> Completed(value[r])
                        [] p = "error" -> Free
                        [] OTHER -> store
          /\ Go(r, p, at[r] - 1)
    /\ UNCHANGED <<tries, looping, value, plain, calls, txns, audit, events>>

\* An attempt of the retry layer failed: an exception, or a value that its
\* coroutine tried to await.
AttemptFailed(r) ==
    \/ In(r, "error", "retry")
    \/ In(r, "value", "retry") /\ looping[r] /\ plain[r]

\* Mutant: one attempt too many.
LeaveRetryOnceMore(r) ==
    /\ \/ /\ AttemptFailed(r) /\ tries[r] <= Attempts
          /\ tries' = [tries EXCEPT ![r] = @ + 1]
          /\ Go(r, "call", at[r] + 1)
       \/ /\ ~AttemptFailed(r) \/ tries[r] > Attempts
          /\ \E p \in Outcomes : In(r, p, "retry") /\ Go(r, p, at[r] - 1)
          /\ UNCHANGED tries
    /\ UNCHANGED <<looping, value, plain, calls, store, txns, audit, events>>

\* Mutant: the last exception is swallowed and the loop never left.
LeaveRetrySwallow(r) ==
    /\ \/ /\ AttemptFailed(r) /\ tries[r] < Attempts
          /\ tries' = [tries EXCEPT ![r] = @ + 1]
          /\ Go(r, "call", at[r] + 1)
       \/ /\ AttemptFailed(r) /\ tries[r] >= Attempts
          /\ UNCHANGED <<phase, at, tries>>
       \/ /\ ~AttemptFailed(r)
          /\ \E p \in {"value", "cancelled"} : In(r, p, "retry") /\ Go(r, p, at[r] - 1)
          /\ UNCHANGED tries
    /\ UNCHANGED <<looping, value, plain, calls, store, txns, audit, events>>

LeaveRetry(r) ==
    /\ \/ /\ AttemptFailed(r) /\ tries[r] < Attempts
          /\ tries' = [tries EXCEPT ![r] = @ + 1]
          /\ Go(r, "call", at[r] + 1)
       \/ /\ AttemptFailed(r) /\ tries[r] >= Attempts
          /\ Go(r, "error", at[r] - 1)
          /\ UNCHANGED tries
       \/ /\ ~AttemptFailed(r)
          /\ \E p \in {"value", "cancelled"} : In(r, p, "retry") /\ Go(r, p, at[r] - 1)
          /\ UNCHANGED tries
    /\ UNCHANGED <<looping, value, plain, calls, store, txns, audit, events>>

\* The runner hands the outcome to its caller.
Finish(r) ==
    /\ phase[r] \in Outcomes /\ at[r] = 0
    /\ events' = [events EXCEPT ![r] =
                    Append(@, IF phase[r] = "value" THEN "completed" ELSE "failed")]
    /\ value' = [value EXCEPT ![r] = IF phase[r] = "value" THEN @ ELSE NoValue]
    /\ Go(r, "finished", 0)
    /\ UNCHANGED <<tries, looping, plain, calls, store, txns, audit>>

Step(r) ==
    /\ \/ Start(r)
       \/ CallAudit(r) \/ CallTransaction(r) \/ CallRetry(r) \/ CallIdempotency(r)
       \/ Claim(r) \/ Reget(r)
       \/ CallBackend(r) \/ Await(r) \/ RunBackend(r)
       \/ LeaveAudit(r) \/ LeaveTransaction(r) \/ LeaveIdempotency(r) \/ LeaveRetry(r)
       \/ Finish(r)
    /\ UNCHANGED runner

\* All runs have been handed to their callers.
Done == (\A r \in Runs : phase[r] = "finished") /\ UNCHANGED vars

Next == (\E r \in Runs : Step(r)) \/ Done

\* Every run's thread or task is scheduled, and callers await what they get.
Fairness == \A r \in Runs : WF_vars(Step(r))

Spec == Init /\ [][Next]_vars /\ Fairness

-----------------------------------------------------------------------------
(* Properties. *)

\* A retry layer never runs the backend more often than it has attempts, although
\* over an asynchronous backend it executes what is below once more than it awaits
\* ("Retry the entire backend execute call.").
RetriesBounded == \A r \in Runs : calls[r] <= Attempts

Finished(r) == phase[r] = "finished"

HasTxn(r, state) == \E i \in DOMAIN txns[r] : txns[r][i] = state

\* "Wrap the whole backend execution in a transaction.": where nothing is cancelled,
\* a run that is over has closed every transaction it began.
TransactionsClosed ==
    ~Cancellable => \A r \in Runs : Finished(r) => ~HasTxn(r, "open")

\* Where nothing is cancelled, no claim outlives the runs: a key nobody works on is
\* free or has its value, or else every later run with that key is refused.
NoOrphanClaim ==
    ~Cancellable /\ (\A r \in Runs : phase[r] \in {"idle", "finished"}) => store # Claimed

\* However runs with one key interleave, fail and retry, at most one of their
\* transactions is committed.
AtMostOneCommit ==
    \A r, s \in Runs : \A i \in DOMAIN txns[r], j \in DOMAIN txns[s] :
        txns[r][i] = "committed" /\ txns[s][j] = "committed" => r = s /\ i = j

\* Runs with one key that return a value return the same value.
ResultsAgree ==
    \A r, s \in Runs : Finished(r) /\ Finished(s) /\ value[r] # NoValue /\ value[s] # NoValue
                          => value[r] = value[s]

\* A value handed to a caller, from the store or not, was committed, if the runner
\* has a transaction layer.
ResultCommitted ==
    "transaction" \in Range(Layers) =>
        \A r \in Runs : Finished(r) /\ value[r] # NoValue => HasTxn(value[r][1], "committed")

\* "Record start, success, and failure for every run.": with the audit layer
\* outermost and nothing cancelled, a finished run has a start and the end its
\* caller saw.
AuditMatches ==
    ~Cancellable => \A r \in Runs : Finished(r) =>
        audit[r] = <<"started", IF value[r] = NoValue THEN "failed" ELSE "completed">>

\* Every run ends, whatever the others do to the shared key.
Termination == \A r \in Runs : <>Finished(r)
=============================================================================
