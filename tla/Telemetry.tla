------------------------------ MODULE Telemetry ------------------------------
(***************************************************************************)
(* Lifecycle telemetry (runtime/telemetry): a publisher that filters       *)
(* events by its mode and fans them out to adapters, and the two bundled   *)
(* adapters, which remember what they have started so that they can finish *)
(* it.  An adapter is a value:                                             *)
(*   runs    what is active under each run id, a set of at most one run    *)
(*   steps   what is active under <<run id, step index>>, likewise         *)
(*   run     what the backend shows of each run                            *)
(*   step    what the backend shows of each step of each run               *)
(* An attribute, facet or duration of a span or event is left out.         *)
(***************************************************************************)
CONSTANTS
    Runs,       \* executions of a runner
    Steps,      \* step indexes
    RunIds,     \* run ids: one per run unless the caller passes its own
    SampledIds  \* the run ids whose hash lies below the sample rate

Shown == {"none", "open", "ok", "error"}

Adapters ==
    [ kind  : {"otel", "lineage"},
      runs  : [RunIds -> SUBSET Runs],
      steps : [RunIds \X Steps -> SUBSET Runs],
      run   : [Runs -> Shown],
      step  : [Runs \X Steps -> Shown] ]

NewAdapter(kind) ==
    [ kind  |-> kind,
      runs  |-> [i \in RunIds |-> {}],
      steps |-> [k \in RunIds \X Steps |-> {}],
      run   |-> [r \in Runs |-> "none"],
      step  |-> [s \in Runs \X Steps |-> "none"] ]

-----------------------------------------------------------------------------
(***************************************************************************)
(* The handlers of one adapter, for an event of run r under run id i.      *)
(* sent: the lineage client's call returned; it is made before a start is  *)
(* remembered and after a finish is forgotten.  The tracer does not fail.  *)
(* A span ends with the outcome of whoever finishes its key; a lineage     *)
(* event names the run id it is sent for.                                  *)
(***************************************************************************)
StartRun(A, i, r, sent) ==
    IF A.kind = "lineage" /\ ~sent THEN A
    ELSE [A EXCEPT !.runs[i] = {r}, !.run[r] = "open"]

\* Mutant: the run stays registered.
FinishRunKept(A, i, r, outcome, sent) ==
    LET ended == IF A.kind = "otel" THEN A.runs[i] ELSE {r} IN
    IF A.runs[i] = {} \/ (A.kind = "lineage" /\ ~sent) THEN A
    ELSE [A EXCEPT !.run = [x \in Runs |-> IF x \in ended THEN outcome ELSE A.run[x]]]

FinishRun(A, i, r, outcome, sent) ==
    LET ended == IF A.kind = "otel" THEN A.runs[i] ELSE {r} IN
    IF A.runs[i] = {} THEN A
    ELSE [A EXCEPT
            !.runs[i] = {},
            !.run = [x \in Runs |-> IF x \in ended /\ (A.kind = "otel" \/ sent)
                                    THEN outcome ELSE A.run[x]]]

\* A lineage step needs its run; a span does not.
StartStep(A, i, r, k, sent) ==
    IF A.kind = "lineage" /\ (A.runs[i] = {} \/ ~sent) THEN A
    ELSE [A EXCEPT !.steps[<<i, k>>] = {r}, !.step[<<r, k>>] = "open"]

FinishStep(A, i, r, k, outcome, sent) ==
    IF A.steps[<<i, k>>] = {} THEN A
    ELSE [A EXCEPT
            !.steps[<<i, k>>] = {},
            !.step = [s \in Runs \X Steps |->
                        IF /\ s[2] = k /\ s[1] \in A.steps[<<i, k>>]
                           /\ A.kind = "otel" \/ sent
                        THEN outcome ELSE A.step[s]]]

Handle(A, ev, sent) ==
    CASE ev.type = "RunStarted"    -> StartRun(A, ev.id, ev.run, sent)
      [] ev.type = "RunCompleted"  -> FinishRun(A, ev.id, ev.run, "ok", sent)
      [] ev.type = "RunFailed"     -> FinishRun(A, ev.id, ev.run, "error", sent)
      [] ev.type = "StepStarted"   -> StartStep(A, ev.id, ev.run, ev.step, sent)
      [] ev.type = "StepCompleted" -> FinishStep(A, ev.id, ev.run, ev.step, "ok", sent)
      [] ev.type = "StepFailed"    -> FinishStep(A, ev.id, ev.run, ev.step, "error", sent)

-----------------------------------------------------------------------------
\* emits_success, emits_failure and the filter of emit in one: what reaches the
\* adapters in each mode.
Passes(mode, ev) ==
    \/ mode = "all"
    \/ mode = "errors" /\ ev.type \in {"RunFailed", "StepFailed"}
    \/ mode = "sampled" /\ ev.id \in SampledIds

\* Every adapter gets the event, whatever another one raises.
Emit(As, mode, ev, sent) ==
    IF Passes(mode, ev) THEN [a \in DOMAIN As |-> Handle(As[a], ev, sent)] ELSE As
=============================================================================
