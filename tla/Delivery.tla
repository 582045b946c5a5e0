------------------------------ MODULE Delivery ------------------------------
(***************************************************************************)
(* The transport adapters (httpx, Celery, FastStream) around one           *)
(* convergence runtime: an inbound payload is converged to a target chosen *)
(* from the message, a handler sees it, and what the handler returns is    *)
(* converged again for everyone it goes to.  Every convergence is a run of *)
(* the bound runner and reports to the telemetry adapters.                 *)
(*                                                                         *)
(* One kind of model, versions 1, 2, ... registered in that order with the *)
(* migrations between neighbours.  A payload is its version; one that the  *)
(* runner's graph does not hold (0 always) is passed through unchanged.    *)
(***************************************************************************)
EXTENDS Integers, Sequences, FiniteSets

CONSTANTS
    Jobs,        \* requests, tasks or messages in flight
    MaxVersion,  \* bound on registered versions
    MaxRuns,     \* most convergences of one job
    SampledIds,  \* run ids that a sampling publisher lets through
    Settings     \* applications: transport, runner, targets, telemetry, traffic

Latest == 0        \* the policy "latest"; a version is the policy naming it
NoPolicy == -1
Malformed == -2    \* a header that does not parse

\* What the constructors of the bindings see to: versions are registered from 1 on
\* and targets are policies; every chain of selectors ends in a default, and only
\* Celery has task names; a response, a task's result and a publisher's result have
\* one target at most, and a publisher always has one.  MaxVersion and MaxRuns are
\* large enough for the application: the versions it registers, and one
\* convergence for what comes in and one for each target of what goes out.  A runner
\* over an empty graph is not told from none, so one that the runtime is constructed
\* with (early) has a version at least.
Application(app) ==
    /\ app.transport \in {"httpx", "celery", "faststream"}
    /\ app.level \in {"info", "warning", "error", "never"}
    /\ {app.registered, app.late, app.declared} \subseteq 0..MaxVersion
    /\ app.early \in BOOLEAN /\ (app.early => app.registered > 0)
    /\ app.task \in Int /\ (app.transport # "celery" => app.task = NoPolicy)
    /\ app.default \in Int \ {NoPolicy}
    /\ \A c \in DOMAIN app.channels : app.channels[c] \in Int
    /\ \A msg \in app.messages :
          msg.version \in Nat /\ msg.header \in Int /\ msg.channel \in DOMAIN app.channels
    /\ app.results \subseteq Nat \cup {-1}
    /\ app.outputs \in Seq(Int) /\ Len(app.outputs) < MaxRuns
    /\ app.transport # "faststream" \/ app.publisher => Len(app.outputs) <= 1
    /\ app.publisher => app.transport = "faststream" /\ app.outputs # << >>

ASSUME DeliveryAssumption ==
    /\ MaxVersion \in Nat /\ MaxRuns \in Nat /\ MaxRuns >= 2
    /\ \A app \in Settings : Application(app)

Runs == Jobs \X (1..MaxRuns)

SharedId == <<"shared", 0>>

RunIds == Runs \cup {SharedId}

Steps == 1..MaxVersion

T == INSTANCE Telemetry

VARIABLES
    cfg,         \* the application at hand, fixed
    models,      \* how many versions the registry holds
    bound,       \* how many the bound runner's graph holds; 0: no runner is bound
    annotation,  \* versions the handler's signature accepts and returns
    worker,      \* new, decorated, up, failed (startup raised) or exited
    jobs,        \* what happened to each job
    tele         \* the telemetry adapters

vars == <<cfg, models, bound, annotation, worker, jobs, tele>>

Idle ==
    [ pc     |-> "idle",
      msg    |-> [version |-> 0],
      target |-> NoPolicy,
      stage  |-> "in",     \* converging what came in, or what goes out
      trail  |-> << >>,    \* versions of the running convergence, source first
      goal   |-> 0,
      ran    |-> << >>,    \* its runs: active, ok, error or abandoned
      served |-> -1,       \* the version the handler was given, once it was
      result |-> -1,       \* the version the handler returned
      body   |-> -1,       \* the version of the dumped result by now
      todo   |-> << >>,    \* targets not yet served, and then those published
      sent   |-> << >> ]

Init ==
    /\ cfg \in Settings
    /\ models = cfg.registered
    /\ bound = IF cfg.early THEN cfg.registered ELSE 0
    /\ annotation = [known |-> 0, accepts |-> {}, returns |-> {}]
    /\ worker = "new"
    /\ jobs = [j \in Jobs |-> Idle]
    /\ tele = [a \in {"otel", "lineage"} |-> T!NewAdapter(a)]

-----------------------------------------------------------------------------
(* Targets. *)

\* The resolver's answer in a graph of n versions, or NoPolicy where it raises.
Resolve(policy, n) ==
    IF policy = Latest THEN n ELSE IF policy \in 1..n THEN policy ELSE NoPolicy

\* HeaderTarget: without negotiation there is no such selector.
Header(msg) == IF cfg.header THEN msg.header ELSE NoPolicy

\* TopicTarget and QueueTarget: one policy for all topics was coerced to a mapping.
Channel(msg) == cfg.channels[msg.channel]

\* The first selector of the chain with an answer: header, task name, queue or
\* topic, default.
Select(msg) ==
    LET chain == <<Header(msg), cfg.task, Channel(msg), cfg.default>>
        given == {i \in DOMAIN chain : chain[i] # NoPolicy}
    IN  chain[CHOOSE i \in given : \A k \in given : i <= k]

-----------------------------------------------------------------------------
(* The application's life. *)

Register ==
    /\ models < cfg.late
    /\ models' = models + 1
    /\ UNCHANGED <<cfg, bound, annotation, worker, jobs, tele>>

\* Mutant: the annotation is the declared model whatever the target.
AcceptsDeclared(n) == {cfg.declared}

\* SubscriberBinding._candidate_models.  Unmapped topics add nothing, and
\* without a candidate the declared annotation stays.
Accepts(n) ==
    LET mapped == {cfg.channels[c] : c \in DOMAIN cfg.channels} \ {NoPolicy}
    IN  IF cfg.header THEN 1..n
        ELSE IF mapped = {} THEN {cfg.declared}
        ELSE {Resolve(p, n) : p \in mapped}

\* The registry after the decorators have reconciled the models the handler
\* declares; only versions it does not hold yet are new.
Reconciled == IF cfg.declared > models THEN cfg.declared ELSE models

\* PublisherBinding.bind: a publisher's return annotation is its target's model.
PublisherReturns(n) == IF cfg.publisher THEN {Resolve(cfg.outputs[1], n)} ELSE {}

\* The decorators run when the application is imported; the signature of a
\* FastStream handler is bound to the versions its targets resolve to.  A target
\* that does not resolve raises and there is no application.
Decorate ==
    LET accepts == IF cfg.transport = "faststream" THEN Accepts(Reconciled) ELSE {}
        returns == PublisherReturns(Reconciled)
        raises == NoPolicy \in accepts \cup returns
    IN  /\ worker = "new"
        /\ models' = Reconciled
        /\ worker' = IF raises THEN "exited" ELSE "decorated"
        /\ annotation' = IF raises THEN annotation
                         ELSE [known |-> Reconciled, accepts |-> accepts, returns |-> returns]
        /\ UNCHANGED <<cfg, bound, jobs, tele>>

Severities == <<"info", "warning", "error">>

\* An issue blocks at and above the configured fail level, "never" at none.
Blocks(severity, level) ==
    \E l, s \in DOMAIN Severities :
        Severities[l] = level /\ Severities[s] = severity /\ s >= l

\* validate_health: Registry.health over the cached issues of all entities.
Unhealthy == cfg.gate /\ \E severity \in cfg.issues : Blocks(severity, cfg.level)

\* Mutant: a receiver that lets the error go, which Celery only logs.
StartupFailedLogged == "failed"

\* A failed check leaves the runner bound.  The receiver that install connects to
\* Celery's signal ends the process; whoever called startup or bind gets the error
\* and may go on.
StartupFailed ==
    IF cfg.transport = "celery" /\ cfg.receiver THEN "exited" ELSE "failed"

\* The runtime keeps the runner it was constructed with: bind takes that one again
\* and refuses another.
Bind == bound' = IF bound = 0 THEN models ELSE bound

\* The runner is built, and its graph locked, before it is bound and before the
\* registry's health is checked.
Start ==
    /\ worker = "decorated"
    /\ Bind
    /\ \E another \in BOOLEAN :
          worker' = IF (another /\ bound # 0) \/ Unhealthy THEN StartupFailed ELSE "up"
    /\ UNCHANGED <<cfg, models, annotation, jobs, tele>>

-----------------------------------------------------------------------------
(* A job. *)

Put(j, job) == jobs' = [jobs EXCEPT ![j] = job]

Fails(j) == Put(j, [jobs[j] EXCEPT !.pc = "failed"])

\* Every transport can be used before startup bound a runner, and after a startup
\* that raised.
Receives(j, transport) ==
    /\ cfg.transport = transport
    /\ worker \in {"decorated", "up", "failed"}
    /\ jobs[j].pc = "idle"
    /\ UNCHANGED <<cfg, models, bound, annotation, worker, tele>>

Accepted(j, msg, pc) ==
    [jobs[j] EXCEPT !.msg = msg, !.target = Select(msg), !.trail = <<msg.version>>,
                    !.pc = pc]

\* A request whose body is not a JSON object is sent as it is.
HttpReceive(j) ==
    /\ Receives(j, "httpx")
    /\ \E msg \in cfg.messages :
         Put(j, Accepted(j, msg, IF msg.located THEN "call" ELSE "handle"))

\* A task whose payload is neither at its index nor under its name runs as it is;
\* a header that does not parse is a target like any other until it is compiled.
TaskReceive(j) ==
    /\ Receives(j, "celery")
    /\ \E msg \in cfg.messages :
         Put(j, Accepted(j, msg, IF msg.located THEN "call" ELSE "handle"))

\* The decoder of a subscriber; NegotiationError for a header that does not parse.
MessageReceive(j) ==
    /\ Receives(j, "faststream")
    /\ \E msg \in cfg.messages :
         Put(j, Accepted(j, msg, IF Select(msg) = Malformed THEN "failed" ELSE "call"))

\* The policy the convergence that is due is for.
Wanted(j) == IF jobs[j].stage = "in" THEN jobs[j].target ELSE Head(jobs[j].todo)

Known(version) == version \in 1..bound

\* Planning: an entry for a version of the runner's graph, and none otherwise.
\* Without a runner, with a policy that does not parse or, for an entry, one
\* that does not resolve, it raises.
Plans(j) ==
    LET policy == Wanted(j)
    IN  /\ bound # 0 /\ policy # Malformed
        /\ Known(jobs[j].trail[1]) => Resolve(policy, bound) # NoPolicy

Run(j) == Len(jobs[j].ran)

Event(j, type, run) ==
    [ type |-> type,
      id   |-> IF cfg.ids = "shared" THEN SharedId ELSE <<j, run>>,
      run  |-> <<j, run>>,
      step |-> Len(jobs[j].trail) ]

\* sent: whether the lineage client delivers the event.
Emit(event) ==
    \E sent \in (IF cfg.flaky THEN BOOLEAN ELSE {TRUE}) :
        tele' = T!Emit(tele, cfg.mode, event, sent)

\* A payload that is refused at planning leaves no trace in the telemetry.
PlanFails(j) ==
    /\ jobs[j].pc = "call" /\ ~Plans(j)
    /\ Fails(j)
    /\ UNCHANGED <<cfg, models, bound, annotation, worker, tele>>

\* Runner.run up to its first wait.  An asynchronous runner has returned a
\* coroutine by then: target validation looks at the coroutine and raises if
\* the plan has an entry, and converge_sync closes it and raises.  Nobody awaits
\* it and the run is never finished.
StartRun(j) ==
    LET entry == Known(jobs[j].trail[1])
        goal == IF entry THEN Resolve(Wanted(j), bound) ELSE jobs[j].trail[1]
        dropped == /\ cfg.runner = "async"
                   /\ cfg.client = "sync" \/ (cfg.validate /\ entry)
    IN  /\ jobs[j].pc = "call" /\ Plans(j)
        /\ Emit(Event(j, "RunStarted", Run(j) + 1))
        /\ Put(j, [jobs[j] EXCEPT
                    !.goal = goal,
                    !.ran = Append(@, IF dropped THEN "abandoned" ELSE "active"),
                    !.pc = IF dropped THEN "failed" ELSE "running"])
        /\ UNCHANGED <<cfg, models, bound, annotation, worker>>

At(j) == jobs[j].trail[Len(jobs[j].trail)]

StepStart(j) ==
    /\ jobs[j].pc = "running" /\ At(j) # jobs[j].goal
    /\ Emit(Event(j, "StepStarted", Run(j)))
    /\ Put(j, [jobs[j] EXCEPT !.pc = "step"])
    /\ UNCHANGED <<cfg, models, bound, annotation, worker>>

StepDone(j) ==
    LET next == IF At(j) < jobs[j].goal THEN At(j) + 1 ELSE At(j) - 1
    IN  /\ jobs[j].pc = "step"
        /\ Emit(Event(j, "StepCompleted", Run(j)))
        /\ Put(j, [jobs[j] EXCEPT !.pc = "running", !.trail = Append(@, next)])
        /\ UNCHANGED <<cfg, models, bound, annotation, worker>>

\* A migration or hook raises, or the task running it is cancelled.
StepFails(j, cancelled) ==
    /\ jobs[j].pc = "step" /\ (cancelled => cfg.runner = "async")
    /\ Emit(Event(j, "StepFailed", Run(j)))
    /\ Put(j, [jobs[j] EXCEPT !.pc = IF cancelled THEN "cancelled" ELSE "raising"])
    /\ UNCHANGED <<cfg, models, bound, annotation, worker>>

RunEnds(j, outcome) ==
    [jobs[j] EXCEPT !.ran[Run(j)] = outcome]

\* Mutant: except Exception, which a cancellation passes by.
FailRunUnlessCancelled(j) ==
    /\ jobs[j].pc \in {"running", "raising", "cancelled"}
    /\ IF jobs[j].pc = "cancelled" THEN tele' = tele
       ELSE Emit(Event(j, "RunFailed", Run(j)))
    /\ Put(j, [RunEnds(j, "error") EXCEPT !.pc = "failed"])
    /\ UNCHANGED <<cfg, models, bound, annotation, worker>>

\* execute and _await_result report every BaseException, of a step or of a
\* middleware.
FailRun(j) ==
    /\ jobs[j].pc \in {"running", "raising", "cancelled"}
    /\ Emit(Event(j, "RunFailed", Run(j)))
    /\ Put(j, [RunEnds(j, "error") EXCEPT !.pc = "failed"])
    /\ UNCHANGED <<cfg, models, bound, annotation, worker>>

\* The backend has its result.  Target validation comes after RunCompleted: a
\* payload it refuses (not valid) is a failed job of a completed run.
FinishRun(j, valid) ==
    /\ jobs[j].pc = "running" /\ At(j) = jobs[j].goal
    /\ valid \/ (cfg.validate /\ cfg.runner = "sync" /\ Known(jobs[j].trail[1]))
    /\ Emit(Event(j, "RunCompleted", Run(j)))
    /\ Put(j, [RunEnds(j, "ok") EXCEPT
                !.pc = IF ~valid THEN "failed"
                       ELSE IF jobs[j].stage = "in" THEN "handle" ELSE "publish"])
    /\ UNCHANGED <<cfg, models, bound, annotation, worker>>

\* FastStream decodes into the annotation before it calls the handler and checks
\* what a publisher returns: a version outside the annotation is refused.  A
\* payload without a known version may validate or not.
Refused(j, versions) ==
    cfg.transport = "faststream" /\ Known(At(j)) /\ At(j) \notin versions

Refuse(j) ==
    /\ \/ jobs[j].pc = "handle" /\ Refused(j, annotation.accepts)
       \/ jobs[j].pc = "publish" /\ cfg.publisher /\ Refused(j, annotation.returns)
    /\ Put(j, [jobs[j] EXCEPT !.pc = "refused"])
    /\ UNCHANGED <<cfg, models, bound, annotation, worker, tele>>

\* The handler was given At(j) and returned a result at some version, or none; it
\* goes to each of the outputs.
Returns(j, result, outputs) ==
    /\ jobs[j].pc = "handle"
    /\ Put(j, [jobs[j] EXCEPT
                !.pc = IF outputs = << >> THEN "done" ELSE "call",
                !.stage = "out",
                !.served = At(j),
                !.result = result,
                !.body = result,
                !.todo = outputs,
                !.trail = <<result>>])
    /\ UNCHANGED <<cfg, models, bound, annotation, worker, tele>>

\* A response is converged if there is a target for it and it is a successful one
\* that holds a JSON object.
HttpHandle(j, result) ==
    /\ cfg.transport = "httpx"
    /\ Returns(j, result, IF result = -1 THEN << >> ELSE cfg.outputs)

\* Mutant: the return target is not looked at.
TaskOutputsSelected(j) == <<jobs[j].target>>

\* The return target, or the target selected for this invocation.
TaskOutputs(j) == IF cfg.outputs = << >> THEN <<jobs[j].target>> ELSE cfg.outputs

TaskHandle(j, result) ==
    /\ cfg.transport = "celery"
    /\ Returns(j, result, IF result = -1 THEN << >> ELSE TaskOutputs(j))

\* The target of a publisher, the routes of publish_to, or neither.
MessageHandle(j, result) ==
    /\ cfg.transport = "faststream"
    /\ jobs[j].pc = "handle" /\ ~Refused(j, annotation.accepts)
    /\ Returns(j, result, IF result = -1 THEN << >> ELSE cfg.outputs)

HandlerFails(j) ==
    /\ jobs[j].pc = "handle" /\ ~Refused(j, annotation.accepts)
    /\ Put(j, [jobs[j] EXCEPT !.pc = "failed", !.served = At(j)])
    /\ UNCHANGED <<cfg, models, bound, annotation, worker, tele>>

\* Mutant: the runner works on the payload it is given.
CopyShared(body, migrated) == migrated

\* The caller's payload after a run: a deep copy was migrated, or the payload
\* itself, its root replaced in place.
Copy(body, migrated) == IF cfg.copy = "none" THEN migrated ELSE body

Sent(j) == [policy |-> Head(jobs[j].todo), trail |-> jobs[j].trail]

\* The one result of a request, a task or a publisher's handler is returned.
Respond(j) ==
    /\ jobs[j].pc = "publish" /\ (cfg.transport = "faststream" => cfg.publisher)
    /\ ~(cfg.publisher /\ Refused(j, annotation.returns))
    /\ Put(j, [jobs[j] EXCEPT !.pc = "done", !.todo = << >>, !.sent = <<Sent(j)>>])
    /\ UNCHANGED <<cfg, models, bound, annotation, worker, tele>>

\* The routes of publish_to are converged from one dumped payload and published
\* one by one.
Publish(j) ==
    LET body == Copy(jobs[j].body, At(j))
        rest == Tail(jobs[j].todo)
    IN  /\ jobs[j].pc = "publish" /\ cfg.transport = "faststream" /\ ~cfg.publisher
        /\ Put(j, [jobs[j] EXCEPT
                    !.pc = IF rest = << >> THEN "done" ELSE "call",
                    !.todo = rest,
                    !.sent = Append(@, Sent(j)),
                    !.body = body,
                    !.trail = <<body>>])
        /\ UNCHANGED <<cfg, models, bound, annotation, worker, tele>>

\* The broker refuses a message: the routes after it are never served.
PublishFails(j) ==
    /\ jobs[j].pc = "publish" /\ cfg.transport = "faststream"
    /\ Fails(j)
    /\ UNCHANGED <<cfg, models, bound, annotation, worker, tele>>

JobStep(j) ==
    \/ HttpReceive(j) \/ TaskReceive(j) \/ MessageReceive(j)
    \/ PlanFails(j) \/ StartRun(j) \/ StepStart(j) \/ StepDone(j)
    \/ \E cancelled \in BOOLEAN : StepFails(j, cancelled)
    \/ FailRun(j) \/ \E valid \in BOOLEAN : FinishRun(j, valid)
    \/ Refuse(j) \/ HandlerFails(j)
    \/ \E r \in cfg.results : HttpHandle(j, r) \/ TaskHandle(j, r) \/ MessageHandle(j, r)
    \/ Respond(j) \/ Publish(j) \/ PublishFails(j)

Next ==
    \/ Register \/ Decorate \/ Start
    \/ worker # "exited" /\ \E j \in Jobs : JobStep(j)

Spec == Init /\ [][Next]_vars

-----------------------------------------------------------------------------
(* Properties. *)

Final(message) == message.trail[Len(message.trail)]

\* "The handler always receives the target shape" and so does everyone the result
\* goes to: whatever is concurrent, registered late or negotiated, a payload the
\* runner knows reaches the handler at the version its target resolves to in the
\* bound runner's graph; what is sent is at the version of its own target, in the
\* order of the routes, and a job is not done before all of them are served.  A
\* task that names no return target answers in the decorator's target, at least
\* where that was the one selected for its payload.
ConvergedWhereverServed ==
    \A j \in Jobs :
        LET job == jobs[j]
            served == /\ job.served # -1 /\ job.msg.located
                      /\ Known(job.msg.version)
        IN  /\ served => job.served = Resolve(job.target, bound)
            /\ Known(job.result) => \A i \in DOMAIN job.sent :
                  IF cfg.outputs # << >>
                  THEN Final(job.sent[i]) = Resolve(cfg.outputs[i], bound)
                  ELSE job.target = cfg.default =>
                          Final(job.sent[i]) = Resolve(cfg.default, bound)
            /\ job.pc = "done" /\ job.result # -1 =>
                  Len(job.sent) >= Len(cfg.outputs)

\* Each route of publish_to is converged "independently": straight from the
\* handler's result, not by way of the version an earlier route asked for, which
\* may have lost what the later one needs.  The copy policy "none" gives this up.
RoutesAreIndependent ==
    cfg.copy = "deep" =>
        \A j \in Jobs : \A i \in DOMAIN jobs[j].sent :
            LET trail == jobs[j].sent[i].trail
                last == trail[Len(trail)]
            IN  /\ trail[1] = jobs[j].result
                /\ Len(trail) - 1 \in {last - trail[1], trail[1] - last}

State(r) == IF r[2] \in DOMAIN jobs[r[1]].ran THEN jobs[r[1]].ran[r[2]] ELSE "none"

Watched(r) == cfg.mode = "all" \/ (cfg.mode = "sampled" /\ r \in SampledIds)

InStep(r, k) == r[2] = Run(r[1]) /\ jobs[r[1]].pc = "step" /\ Len(jobs[r[1]].trail) = k

\* What the telemetry backends show is what the runs did.  With an id of its own
\* and a client that delivers, a run the publisher lets through is shown open
\* while it is active (or for ever, if its coroutine was dropped), then with its
\* outcome, and a step is shown open exactly while it runs; a publisher of errors
\* only is left aside.  And however ids are shared, deliveries fail and events are
\* left out, nothing stays remembered once no run is active or dropped.
SpansTellRuns ==
    /\ cfg.ids = "fresh" /\ ~cfg.flaky /\ cfg.mode # "errors" =>
        \A a \in DOMAIN tele, r \in Runs :
            /\ tele[a].run[r] =
                  IF ~Watched(r) THEN "none"
                  ELSE IF State(r) \in {"active", "abandoned"} THEN "open" ELSE State(r)
            /\ \A k \in Steps :
                  (tele[a].step[<<r, k>>] = "open") <=> (Watched(r) /\ InStep(r, k))
    /\ (\A r \in Runs : State(r) \notin {"active", "abandoned"}) =>
        \A a \in DOMAIN tele :
            /\ \A i \in RunIds : tele[a].runs[i] = {}
            /\ \A i \in RunIds, k \in Steps : tele[a].steps[<<i, k>>] = {}

\* "The child process exits before accepting tasks": a Celery worker started by the
\* signal receiver, whose registry holds an error that its fail level does not
\* waive, converges nothing, although the runner is bound before the check.
UnhealthyWorkersConvergeNothing ==
    /\ cfg.transport = "celery" /\ cfg.receiver /\ ~cfg.early
    /\ cfg.gate /\ cfg.level # "never" /\ "error" \in cfg.issues
    => \A j \in Jobs : jobs[j].ran = << >>

\* The handler is "bound to the version actually served": FastStream refuses no
\* message for its version, nor a publisher's result, as long as the runner was
\* built from the registry the decorators saw and every topic has a target (or a
\* header is negotiated, which admits every version).
AnnotationsFit ==
    /\ annotation.known = bound
    /\ cfg.header \/ \A c \in DOMAIN cfg.channels : cfg.channels[c] # NoPolicy
    => \A j \in Jobs : jobs[j].pc # "refused"
=============================================================================
