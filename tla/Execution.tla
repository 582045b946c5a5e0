------------------------------ MODULE Execution ------------------------------
(***************************************************************************)
(* One run of an execution plan in a backend (runtime/plan.py,             *)
(* runtime/strategies.py, runtime/backends), under a RetryMiddleware that  *)
(* wraps it: the entries of a payload, level by level, each through its    *)
(* migration steps, each step inside the scopes its hooks opened.          *)
(*                                                                         *)
(* The value of an entry is the list of migration functions applied to it  *)
(* and its version stamp.  A migration function either builds its result   *)
(* or, when InPlace, changes the mapping it is handed; that mapping is the *)
(* one in the backend's input unless replacing a descendant has copied it. *)
(***************************************************************************)
EXTENDS Integers, Sequences, FiniteSets

CONSTANTS
    Order,   \* paths of the planned entries, in the order of the plan
    Steps,   \* how many migrations an entry goes through; none at its target
    Configs  \* the ways the run may be set up

Entries == {Order[i] : i \in DOMAIN Order}

ASSUME ExecutionAssumption ==
    /\ Order \in Seq(Seq(STRING))
    /\ \A i, j \in DOMAIN Order : Order[i] = Order[j] => i = j
    /\ Steps \in [Entries -> Nat]
    /\ Configs \subseteq [mode : {"threads", "tasks", "process"}, workers : Nat,
                          scopes : Nat, suppress : BOOLEAN, inPlace : BOOLEAN,
                          cancellable : BOOLEAN, attempts : Nat \ {0}]

VARIABLES
    config,     \* how the run is set up, which never changes
    driver,     \* what the backend's own loop is doing, or how the run ended
    attempt,    \* the attempt the retry layer is in
    left,       \* entries whose level has not been applied
    phase,      \* where an entry is in the life of its step
    step,       \* the step an entry is at
    scopes,     \* scopes an entry's step holds open
    outcome,    \* what an entry's step is about to raise
    current,    \* the value an entry works on, with the entries inside it
    data,       \* the backend's payload
    payload,    \* the payload the backend was given
    cancelling, \* who has asked the tasks to stop: nobody, the group, the caller
    error       \* what the backend raised

vars == <<config, driver, attempt, left, phase, step, scopes, outcome, current, data,
          payload, cancelling, error>>

Mode == config.mode               \* the backend
Workers == config.workers         \* its max_workers
Scopes == config.scopes           \* scopes the hooks of a step open
Suppress == config.suppress       \* whether their exit may suppress an exception
InPlace == config.inPlace         \* functions change their argument and return it
Cancellable == config.cancellable \* the task that awaits the run may be cancelled
Attempts == config.attempts       \* attempts of the RetryMiddleware; 1 without it

-----------------------------------------------------------------------------
(* Levels of a plan. *)

IsDescendantOf(p, q) == Len(p) > Len(q) /\ SubSeq(p, 1, Len(q)) = q

Position(e) == CHOOSE i \in DOMAIN Order : Order[i] = e

First(S) == CHOOSE e \in S : \A f \in S : Position(e) <= Position(f)

\* Mutant: the outer entries first.
ParentsFirst(remaining) ==
    {e \in remaining : \A other \in remaining : ~IsDescendantOf(e, other)}

\* The entries that have no descendant among the remaining ones.
Ready(remaining) ==
    LET ready == {e \in remaining :
                     \A other \in remaining \ {e} : ~IsDescendantOf(other, e)}
    IN  IF ready = {} THEN {First(remaining)} ELSE ready

Level == Ready(left)

-----------------------------------------------------------------------------
(* Values. *)

Value == [applied : Seq(Nat), version : Nat]

Fresh == [applied |-> << >>, version |-> 0]

\* Where a suppressed refusal hands a closed coroutine on in place of a value, the
\* step 0 is noted: v is such a coroutine when that came last, and what was there
\* before it is lost for good.
Replaced(v) == [v EXCEPT !.applied = Append(@, 0)]

IsCoroutine(v) == v.applied # << >> /\ v.applied[Len(v.applied)] = 0

Lost(v) == \E i \in DOMAIN v.applied : v.applied[i] = 0

\* What a payload looks like when every step of e was applied once.
Migrated(e) == [applied |-> [i \in 1..Steps[e] |-> i], version |-> Steps[e]]

Pooled == Mode # "process" /\ Workers > 1

Capacity == IF Pooled THEN Workers ELSE 1

\* The scopes are left: without a result of the function, with the coroutine it
\* was refused for, or with a result.
Closing == {"closing", "holding", "leaving"}

Active == {"ready", "entering", "invoking", "raised", "returned"} \cup Closing

Errors == {"migration", "unsupported", "hook", "unbound"}

Running == {e \in Entries : phase[e] \in Active}

Queued == {e \in Entries : phase[e] = "queued"}

Failed == {e \in Entries : phase[e] = "failed"}

Init ==
    /\ config \in Configs
    /\ driver = "next"
    /\ attempt = 1
    /\ left = Entries
    /\ phase = [e \in Entries |-> "idle"]
    /\ step = [e \in Entries |-> 1]
    /\ scopes = [e \in Entries |-> 0]
    /\ outcome = [e \in Entries |-> "none"]
    /\ current = [e \in Entries |-> [d \in Entries |-> Fresh]]
    /\ data = [e \in Entries |-> Fresh]
    /\ payload = [e \in Entries |-> Fresh]
    /\ cancelling = "nobody"
    /\ error = "none"

-----------------------------------------------------------------------------
(* The step of an entry. *)

Goto(e, p) == phase' = [phase EXCEPT ![e] = p]

\* A worker, a task or the loop itself takes the next entry and reads its value
\* out of the payload; without steps that is its result.
Take(e) ==
    /\ driver = "gather"
    /\ phase[e] = "queued" /\ e = First(Queued)
    /\ Cardinality(Running) < Capacity
    /\ Pooled \/ Failed = {}
    /\ Goto(e, IF Steps[e] = 0 THEN "done" ELSE "ready")
    /\ current' = [current EXCEPT ![e] = data]
    /\ UNCHANGED <<driver, attempt, left, step, scopes, outcome, data, payload,
                   cancelling, error>>

\* Every before_migrate hook is called before any scope is entered, so one that
\* raises leaves nothing to close.
Before(e) ==
    /\ phase[e] = "ready"
    /\ \/ /\ Goto(e, "entering")
          /\ UNCHANGED outcome
       \/ /\ Goto(e, "closing")
          /\ outcome' = [outcome EXCEPT ![e] = "hook"]
    /\ UNCHANGED <<driver, attempt, left, step, scopes, current, data, payload,
                   cancelling, error>>

\* Enter the scopes one by one; one may raise while earlier ones are open.
Enter(e) ==
    /\ phase[e] = "entering"
    /\ \/ /\ scopes[e] < Scopes
          /\ scopes' = [scopes EXCEPT ![e] = @ + 1]
          /\ UNCHANGED <<phase, outcome>>
       \/ /\ scopes[e] = Scopes
          /\ Goto(e, "invoking")
          /\ UNCHANGED <<scopes, outcome>>
       \/ /\ scopes[e] < Scopes
          /\ Goto(e, "closing")
          /\ outcome' = [outcome EXCEPT ![e] = "hook"]
          /\ UNCHANGED scopes
    /\ UNCHANGED <<driver, attempt, left, step, current, data, payload,
                   cancelling, error>>

\* The mapping e works on is the one in the backend's input: nothing below it
\* was replaced, and the function did not run in another process.
Aliased(e) ==
    /\ InPlace /\ Mode # "process"
    /\ \A d \in Entries : ~IsDescendantOf(d, e)

\* e works on value v: in place, or on a value of its own.
Work(e, v) ==
    /\ current' = [current EXCEPT ![e][e] = v]
    /\ data' = IF Aliased(e) THEN [data EXCEPT ![e] = v] ELSE data
    /\ payload' = IF Aliased(e) THEN [payload EXCEPT ![e] = v] ELSE payload

\* How a function fails: every exception becomes a migration error, and a coroutine
\* it returns to a thread is refused.  A process cannot send one back.
Failures == {"migration"} \cup (IF Mode = "threads" THEN {"unsupported"} ELSE {})

\* The function returns or fails; one that works in place has no use for a coroutine.
Invoke(e) ==
    /\ phase[e] = "invoking"
    /\ \/ /\ ~(InPlace /\ IsCoroutine(current[e][e]))
          /\ Work(e, [current[e][e] EXCEPT !.applied = Append(@, step[e])])
          /\ Goto(e, "returned")
          /\ UNCHANGED outcome
       \/ \E x \in Failures :
             /\ outcome' = [outcome EXCEPT ![e] = x]
             /\ Goto(e, "raised")
             /\ UNCHANGED <<current, data, payload>>
    /\ UNCHANGED <<driver, attempt, left, step, scopes, cancelling, error>>

\* on_error hooks run inside the scopes; one that raises replaces the error.  The
\* result of a refused function is bound by now, to its closed coroutine.
OnError(e) ==
    /\ phase[e] = "raised"
    /\ Goto(e, IF outcome[e] = "unsupported" THEN "holding" ELSE "closing")
    /\ \E x \in {outcome[e], "hook"} : outcome' = [outcome EXCEPT ![e] = x]
    /\ UNCHANGED <<driver, attempt, left, step, scopes, current, data, payload,
                   cancelling, error>>

\* after_migrate hooks; an error there is not shown to the on_error hooks.
After(e) ==
    /\ phase[e] = "returned"
    /\ Goto(e, "leaving")
    /\ \E x \in {"none", "hook"} : outcome' = [outcome EXCEPT ![e] = x]
    /\ UNCHANGED <<driver, attempt, left, step, scopes, current, data, payload,
                   cancelling, error>>

\* Leave one scope, innermost first; it may raise, and the others are still left.
\* One that suppresses the exception, a cancellation included, lets the rest of the
\* step go on as if there had been none.
Exit(e) ==
    /\ phase[e] \in Closing /\ scopes[e] > 0
    /\ scopes' = [scopes EXCEPT ![e] = @ - 1]
    /\ \E x \in {outcome[e], "hook"}
                 \cup (IF Suppress THEN {"none"} ELSE {}) :
          outcome' = [outcome EXCEPT ![e] = x]
    /\ UNCHANGED <<driver, attempt, left, phase, step, current, data, payload,
                   cancelling, error>>

Advance(e) ==
    IF step[e] < Steps[e]
    THEN Goto(e, "ready") /\ step' = [step EXCEPT ![e] = @ + 1]
    ELSE Goto(e, "done") /\ UNCHANGED step

\* The step is over: stamp the version and go on with the next one.
EndStep(e) ==
    /\ phase[e] = "leaving" /\ scopes[e] = 0 /\ outcome[e] = "none"
    /\ Work(e, [current[e][e] EXCEPT !.version = step[e]])
    /\ Advance(e)
    /\ UNCHANGED <<driver, attempt, left, scopes, outcome, cancelling, error>>

\* A scope suppressed the refusal of a coroutine: run_sync returns the coroutine,
\* closed, as the migrated value.  It is no mapping, so it gets no version stamp.
HandOn(e) ==
    /\ phase[e] = "holding" /\ scopes[e] = 0 /\ outcome[e] = "none"
    /\ current' = [current EXCEPT ![e] =
                      [d \in Entries |-> IF d = e \/ IsDescendantOf(d, e)
                                         THEN Replaced(current[e][d]) ELSE current[e][d]]]
    /\ Advance(e)
    /\ UNCHANGED <<driver, attempt, left, scopes, outcome, data, payload, cancelling, error>>

\* The entry fails; where the exception was suppressed, because there is no result
\* to return.  A task that fails cancels the tasks of its group.
Raise(e) ==
    /\ phase[e] \in Closing /\ scopes[e] = 0
    /\ outcome[e] # "none" \/ phase[e] = "closing"
    /\ Goto(e, "failed")
    /\ outcome' = [outcome EXCEPT ![e] = IF @ = "none" THEN "unbound" ELSE @]
    /\ cancelling' = IF Mode = "tasks" /\ Pooled /\ cancelling = "nobody"
                     THEN "group" ELSE cancelling
    /\ UNCHANGED <<driver, attempt, left, step, scopes, current, data, payload, error>>

\* A cancelled task notices where it awaits: before it got a worker, or anywhere
\* in its step.  A cancellation is no Exception, so on_error is not called.
Interrupt(e) ==
    /\ cancelling # "nobody"
    /\ \/ /\ phase[e] = "queued" /\ Pooled
          /\ Goto(e, "dropped")
          /\ UNCHANGED <<scopes, outcome>>
       \/ /\ phase[e] \in {"entering", "invoking", "raised", "returned"}
          /\ Goto(e, IF phase[e] = "returned" THEN "leaving" ELSE "closing")
          /\ outcome' = [outcome EXCEPT ![e] = "cancelled"]
          /\ UNCHANGED scopes
       \/ /\ phase[e] \in Closing /\ scopes[e] > 0
          /\ scopes' = [scopes EXCEPT ![e] = @ - 1]
          /\ outcome' = [outcome EXCEPT ![e] = "cancelled"]
          /\ UNCHANGED phase
    /\ UNCHANGED <<driver, attempt, left, step, current, data, payload,
                   cancelling, error>>

-----------------------------------------------------------------------------
(* The loop of the backend over the levels. *)

Submit ==
    /\ driver = "next" /\ left # {}
    /\ driver' = "gather"
    /\ phase' = [e \in Entries |-> IF e \in Level THEN "queued" ELSE phase[e]]
    /\ UNCHANGED <<attempt, left, step, scopes, outcome, current, data, payload,
                   cancelling, error>>

\* The results of a level that hold entry d, that is, those at or above it.
Holders(d) == {e \in Level : e = d \/ IsDescendantOf(d, e)}

Last(S) == CHOOSE e \in S : \A f \in S : Position(f) <= Position(e)

\* Every entry of the level has a result: put them into the payload one after
\* the other, each replacing everything at and below its path.  A task group whose
\* host was cancelled hands no results out.
Apply ==
    /\ driver = "gather"
    /\ \A e \in Level : phase[e] = "done"
    /\ ~(Pooled /\ cancelling = "caller")
    /\ driver' = "next"
    /\ left' = left \ Level
    /\ data' = [d \in Entries |->
                   IF Holders(d) = {} THEN data[d] ELSE current[Last(Holders(d))][d]]
    /\ UNCHANGED <<attempt, phase, step, scopes, outcome, current, payload,
                   cancelling, error>>

Drop == phase' = [e \in Entries |-> IF phase[e] = "queued" THEN "dropped" ELSE phase[e]]

\* Mutant: a pool is abandoned and not joined.
NoticeAndLeave ==
    /\ driver = "gather" /\ (Mode = "threads" \/ ~Pooled)
    /\ \E e \in Failed :
          /\ \A f \in Level : Position(f) < Position(e) => phase[f] = "done"
          /\ error' = outcome[e]
    /\ Drop
    /\ driver' = "failed"
    /\ UNCHANGED <<attempt, left, step, scopes, outcome, current, data, payload,
                   cancelling>>

\* Mutant: the failure that came first in time is reported.
NoticeAny ==
    /\ driver = "gather" /\ (Mode = "threads" \/ ~Pooled)
    /\ \E e \in Failed : error' = outcome[e]
    /\ Drop
    /\ driver' = "joining"
    /\ UNCHANGED <<attempt, left, step, scopes, outcome, current, data, payload,
                   cancelling>>

\* The loop asks for the results in order and meets one that raises: what no
\* worker has taken is not run any more, what is running is waited for.
Notice ==
    /\ driver = "gather" /\ (Mode = "threads" \/ ~Pooled)
    /\ \E e \in Failed :
          /\ \A f \in Level : Position(f) < Position(e) => phase[f] = "done"
          /\ error' = outcome[e]
    /\ Drop
    /\ driver' = "joining"
    /\ UNCHANGED <<attempt, left, step, scopes, outcome, current, data, payload,
                   cancelling>>

Settled == \A e \in Level : phase[e] \in {"done", "failed", "dropped"}

\* A task group waits for all of its tasks and raises their errors in a group, or
\* the cancellation of its host.
NoticeGroup ==
    /\ driver = "gather" /\ Mode = "tasks" /\ Pooled
    /\ Settled /\ (cancelling = "caller" \/ \E e \in Level : phase[e] # "done")
    /\ error' = IF \E e \in Failed : outcome[e] \in Errors THEN "group" ELSE "cancelled"
    /\ driver' = "joining"
    /\ UNCHANGED <<attempt, left, phase, step, scopes, outcome, current, data,
                   payload, cancelling>>

Retries == error # "cancelled" /\ attempt < Attempts

\* Mutant: the next attempt goes on with what the failed one has made.
JoinResuming ==
    /\ driver = "joining" /\ Running = {}
    /\ \/ /\ Retries
          /\ driver' = "next"
          /\ attempt' = attempt + 1
          /\ left' = Entries
          /\ phase' = [e \in Entries |-> "idle"]
          /\ step' = [e \in Entries |-> 1]
          /\ outcome' = [e \in Entries |-> "none"]
          /\ cancelling' = "nobody"
          /\ error' = "none"
       \/ /\ ~Retries
          /\ driver' = IF error = "cancelled" THEN "cancelled" ELSE "failed"
          /\ UNCHANGED <<attempt, left, phase, step, outcome, cancelling, error>>
    /\ UNCHANGED <<scopes, current, data, payload>>

\* Mutant: the attempts are not counted.
JoinUncounted ==
    /\ driver = "joining" /\ Running = {}
    /\ driver' = "next"
    /\ left' = Entries
    /\ phase' = [e \in Entries |-> "idle"]
    /\ step' = [e \in Entries |-> 1]
    /\ outcome' = [e \in Entries |-> "none"]
    /\ data' = payload
    /\ cancelling' = "nobody"
    /\ error' = "none"
    /\ UNCHANGED <<attempt, scopes, current, payload>>

\* execute raises.  The retry layer calls it again with the same payload.
Join ==
    /\ driver = "joining" /\ Running = {}
    /\ \/ /\ Retries
          /\ driver' = "next"
          /\ attempt' = attempt + 1
          /\ left' = Entries
          /\ phase' = [e \in Entries |-> "idle"]
          /\ step' = [e \in Entries |-> 1]
          /\ outcome' = [e \in Entries |-> "none"]
          /\ data' = payload
          /\ cancelling' = "nobody"
          /\ error' = "none"
       \/ /\ ~Retries
          /\ driver' = IF error = "cancelled" THEN "cancelled" ELSE "failed"
          /\ UNCHANGED <<attempt, left, phase, step, outcome, data, cancelling, error>>
    /\ UNCHANGED <<scopes, current, payload>>

Finish ==
    /\ driver = "next" /\ left = {}
    /\ driver' = "ok"
    /\ UNCHANGED <<attempt, left, phase, step, scopes, outcome, current, data,
                   payload, cancelling, error>>

\* The caller's task is cancelled while it awaits the run.
CancelRun ==
    /\ Mode = "tasks" /\ Cancellable
    /\ driver = "gather" /\ cancelling # "caller"
    /\ cancelling' = "caller"
    /\ UNCHANGED <<config, driver, attempt, left, phase, step, scopes, outcome, current,
                   data, payload, error>>

Ended == {"ok", "failed", "cancelled"}

Done == driver \in Ended /\ UNCHANGED vars

EntryStep(e) ==
    /\ \/ Take(e) \/ Before(e) \/ Enter(e) \/ Invoke(e) \/ OnError(e) \/ After(e)
       \/ Exit(e) \/ EndStep(e) \/ HandOn(e) \/ Raise(e) \/ Interrupt(e)
    /\ UNCHANGED config

Loop ==
    /\ \/ Submit \/ Apply \/ Notice \/ NoticeGroup \/ Join \/ Finish
    /\ UNCHANGED config

Next == Loop \/ CancelRun \/ Done \/ \E e \in Entries : EntryStep(e)

Spec == Init /\ [][Next]_vars

\* The interpreter schedules the loop and every worker, and hooks and migration
\* functions return.
FairSpec == Spec /\ WF_vars(Loop) /\ \A e \in Entries : WF_vars(EntryStep(e))

-----------------------------------------------------------------------------

\* When execute has returned or raised, no worker or task is still inside a step
\* or about to start one, and every scope a hook opened has been closed: "Resources
\* are closed on success, error, or cancellation" (docs/reference/runtime.md).
NothingOutlivesRun ==
    driver \in Ended =>
        /\ \A e \in Entries : scopes[e] = 0
        /\ Running \cup Queued = {}

\* A scope of a thread's step has suppressed the refusal of a coroutine for v.
Excused(v) == Suppress /\ Mode = "threads" /\ Lost(v)

\* An entry's functions see every planned entry inside it fully migrated, each of
\* its steps applied once and stamped: children before parents, across workers,
\* levels and attempts.  The one exception is a child that a hook's own scope has
\* given up, by suppressing the refusal of its coroutine in a thread.
ChildrenFirst ==
    \A e \in Running : \A d \in Entries :
        IsDescendantOf(d, e) => current[e][d] = Migrated(d) \/ Excused(current[e][d])

\* A run that returns has applied every step of every entry exactly once, in order,
\* whatever ran in parallel and however many attempts failed before; again except
\* for what a hook's scope has given up.
Converged ==
    driver = "ok" => \A e \in Entries : data[e] = Migrated(e) \/ Excused(data[e])

\* The error the caller gets is the one a failed entry raised itself, and no entry
\* before it in the level failed: it does not depend on the schedule.  A task group
\* gives no such promise, it hands out a group of errors.
FirstFailureReported ==
    driver = "failed" /\ error # "group" =>
        \E e \in Failed :
            /\ error = outcome[e]
            /\ \A f \in Failed : Position(e) <= Position(f)

\* Every run ends: no worker waits for another, no level is submitted for ever.
Terminates == <>(driver \in Ended)

=============================================================================
