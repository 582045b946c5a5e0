# A verification of pyverge in TLA+

pyverge keeps a catalog of versioned models and of the migrations between
their versions, plans a path for a payload through that catalog, runs the path
in a backend behind middleware, and offers this to HTTP clients, task queues,
message brokers and MCP servers.  This directory models the parts of it that keep
state or run concurrently, checks them with TLC on small instances
and proves with TLAPS, for all instances, nearly all of what the runs check: the
registry, the engine and its abstract specification, the manager, planning, the
middleware, plan execution, publication, delivery, telemetry and the FastMCP
provider.

## The system and its parts

| Part | State | Operations | Interacts with |
| --- | --- | --- | --- |
| Registry (`core/registry/memory.py`) | sorted entries, kind / model / incidence / digest indexes, hooks, reference indexes, cached health findings | store, hydrate, reconcile, remove, clear, delete_kind, store/remove migration, hooks | linters call back into it; reflection port makes up missing endpoints |
| Linters (`core/registry/linters`) | none | read the registry, return findings | called by every refresh |
| Engine (`core/engine.py`) | one registry | guards and forwards registry operations; validate; snapshot | Manager, GraphBuilder |
| Manager (`runtime/manager`) | class default engine, instance engine copies, class-wide bindings | registration at class or instance level, `runtime`, `run` | Engine, bindings, Runtime |
| Bindings (`runtime/migrations.py`) | callables and hook instances per edge | store, remove, add_hook, lookup | planner resolves them |
| Migration graph, planning (`core/graph`, `runtime/planner.py`) | immutable snapshot with a revision | build, path search, levels, plan | Runner |
| Graph store (`core/graph/store.py`) | published graph, revision and generation | compare-and-set save, load | CLI, deployment |
| Plan cache (`runtime/plan_cache.py`) | LRU map under a lock | get, put, clear | Coordinator |
| Runner, middleware (`runtime/runner.py`, `runtime/middleware`) | per-run position in the onion; external store, transactions, audit sink | execute, await | backends |
| Plan execution, backends (`runtime/plan.py`, `runtime/backends`) | payload, hook state, level results | run entries of a level sequentially, in threads, tasks or processes; apply results | migration functions, hooks |
| Telemetry (`runtime/telemetry`) | active runs and steps by run id, in each adapter | filter, start and finish runs and steps | Runner and steps emit, tracing and lineage backends receive |
| Convergence runtime and httpx, Celery, FastStream adapters (`adapters`) | the bound runner; per request, task or message: target, payload, routes left | startup with health gate, receive, converge, handle, converge and deliver the result | Manager, Runner, the framework |
| FastMCP provider (`adapters/fastmcp`) | indexed entrances, projected versions, bound runner | add components, sync, enrich, lifespan | Manager, Runner, the server's components |
| Schema adapters, diffs, CLI | none of their own | translation and output | all of the above |

What is hard: the registry maintains five secondary indexes and a cache of
findings by hand in every mutation, and several of its guards read those
indexes; raising calls may already have mutated; registration is split between
an engine and a separate set of bindings; the middleware layers wrap values and
awaitables alike, over a shared idempotency store, with retries, failing
commits and cancellation; levels of a plan run concurrently over one payload;
adapters bind a runner's snapshot at startup while the registry goes on changing,
and telemetry matches starts with finishes by run id across all of this.
`PROJECT.json` lists these hazards line by line.

## Modules

`RegistryOps` gives every operation of the registry as an operator from a
registry value to a registry value.  A registry is a value and not a variable
because the program owns several of them.  An operation `X` that may raise has
a guard `CanX`; a raising call that changes nothing is no step.  Where the code
mutates first and raises later (a reflected endpoint that turns out not to be
adjacent) the operator keeps the mutation.  Node *identities* and node
*objects* are distinguished: a refresh reads references off the object it is
handed, and the object an edge embeds may be a bare identity, a key or a full
node.  Edges are the same: a hook call refreshes the edge through the key object
its caller passed (`RefreshKey`), and the linter has findings for an `EdgeKey` only.  Sorted lists are sets, ordered by version; a `defaultdict` whose keys
are observable keeps its key set.  Digests are abstracted to content: two edge
objects have one digest exactly when they are equal.

`Registry` drives one registry through its whole public surface, including the
direct edge form used by graph import.  `Engine` drives it through the calls of
`core/engine.py`, which come with further guards, and is shown to implement
`Catalog`, the abstract specification: nodes with contents, edges written once
that hold their endpoints in place, hooks that hold their edge in place.

`Snapshot` gives `GraphBuilder`'s compilation of a registry into a graph value,
its revision, its lookups and the traversals of its back ends: the search with
its own neighbour order of the dependency-free back end, the search through the
native libraries, and the topological sort.  Digests are injective: a digest is
the content it covers, so that what is left out of it shows.  `Lookups` has what
the registry, the engine and the manager answer for the same questions.
`Publication` extends both and `Registry`: while the registry keeps changing by
any of its operations, publishers lock it, load what is published, and save with
or without saying what they expect to replace.

`Middleware` models `Runner.execute` for concurrent runs that share one
idempotency key.  A run is a position in the onion of layers plus what travels
through it: a call inwards; a value, an exception or a cancellation outwards.
What a layer does with an outcome is the same in its synchronous and its
asynchronous form, so there is one action for both; what differs is the moment
an awaitable starts to run (`CallBackend`, `Await`), and that the retry layer
starts over when it is awaited.  The idempotency store, the transaction manager
and the audit sink are external and modelled from the protocols of
`runtime/middleware/types.py`: `claim` is atomic, `commit` may raise.

`Execution` models one run of a plan in a backend, under a retry layer.  An
entry of the plan goes through its steps; a step calls its hooks, enters their
scopes, invokes the function, reports to the hooks, leaves the scopes, stamps
the version.  All of these may raise, and under the asynchronous backend all of
them are points of cancellation.  A scope may also suppress what is raised inside
it, a cancellation included; the step then goes on, or finds that it has no result
to return (`UnboundLocalError`, outcome `unbound`).  A thread that refuses a
coroutine has bound it already; when the refusal is suppressed, the closed
coroutine is handed on in place of the entry (`HandOn`, noted as step 0).  The loop of the backend (`Submit`, `Apply`,
`Notice`, `NoticeGroup`, `Join`) is what differs between a thread pool, an anyio
task group, a process pool and the sequential form; `Mode` and `Workers` choose.
The value of an entry is the list of the functions applied to it and its version
stamp, which is enough to see a step lost, repeated or out of order.  `Aliased`
says when the mapping an entry works on *is* the one in the backend's input:
`_replace_at` clones the way to everything it replaces, so it is exactly while
nothing below it was replaced.  The thread pool and the task group are external
and modelled from their use: a pool is joined on exit and drops what it has not
started, a group cancels its other tasks when one fails and raises a group.

`Manager` composes several registries of `RegistryOps`, one for the class and
one for each instance, with the class-wide bindings.  An action names its
caller, as `hybridmethod` does; `Runtime` takes the snapshot a runner keeps.
What a runner executes is the callable `Resolves` finds at that moment.

`Planning` models `ExecutionCoordinator.plan` for several threads on one runner:
the walk over the payload (`PayloadWalker`), the lookup in the plan cache, the
target policy, the search along neighbouring versions with the finder's own path
cache, the path policy, and the store into the plan cache.  A document is the
list of its positions with the version each spells; what a schema library makes
of it under a source model is a second document of the request.  A resolver of
the caller's own is external and decides anew at every call.  A key of the plan
cache is the triple it is computed from, so that an omission from it shows.
`uses` is a history variable: the keys in the order of their last use.

`Telemetry` gives the publisher's filter (off, all, errors, sampled by run id) and
the handlers of the two bundled adapters as operators on an adapter value: what
it remembers as started, and what the backend behind it shows.  `Delivery`
composes it with one convergence runtime and the three transports.  The
application at hand (`cfg`) has a transport, a runner, its targets, its telemetry
and its traffic; its runner is bound when the runtime is constructed (`early`), by
Celery's signal (`receiver`) or by a direct call of `startup` or `bind`; a job is a request, a task or a message, and `pc` is where the
adapter's coroutine or callback stands between two awaits or calls.  There is one
kind whose versions have been registered in order, so a payload is its version and
`trail` is every version it went through.  `Receive` and `Handle` differ per
transport; what lies between them (`Plans`, `StartRun`, steps, `FinishRun`,
`FailRun`) is the runner's and is shared.

`Provider` models the FastMCP provider.  Host and lifespan both may run its
phases; `phase` holds who runs one and which families are still to be listed,
since listing awaits.  `server` is the external server's component list in order
of addition, which decides which component a key finds.

A module `XProofs` holds the theorems about `X`, with the inductive invariants they
need: `RegistryOpsProofs`, `EngineProofs`, `ManagerProofs`, `PlanningProofs`,
`MiddlewareProofs`, `ExecutionProofs`, `PublicationProofs` (which also has those
about `Registry`) and `DeliveryProofs` (which also has those about `Provider`).

## Runs

| Run | Expected | Shows |
| --- | --- | --- |
| `registry` | pass | indexes exact, executable edges keep their endpoints, endpoint findings follow the endpoints, content never swapped in place |
| `engine` | pass | edges bind the stored models, reference findings exact, no leftover hook lists, refinement of `Catalog` |
| `middleware` | pass | three runs with one key: all four layers over a synchronous backend, retry over an asynchronous one, transactions under cancellation: retries bounded, at most one commit, one result, no claim or transaction left, every run ends |
| `middleware_retry_transaction` | violation | retry above transaction on an asynchronous backend leaves a transaction open (`retry.py:33`) |
| `execution` | pass | thread pool, task group, single task, process pool, with scopes that suppress in threads and tasks: nothing outlives the run, children before parents, every step once, the reported error independent of the schedule, termination |
| `execution_retry_in_place` | violation | a retry applies steps again to what the failed attempt left in the payload, and succeeds (`retry.py:31`) |
| `manager` | pass | class and instance registering, removing and hooking in any order: sound registries, no binding without an edge, class-level registration never changes what a runner runs |
| `manager_functions` | violation | registering on one instance changes what another executes (`mixins/migrations.py:128`) |
| `planning` | pass | two threads on one runner: the cache is exactly the most recently used plans, neither cache changes an answer or an error, plans fit graph, policy and document, nothing nested is forgotten |
| `publication` | pass | a graph and the manager's lookups answer as the registry they were taken from, the traversals of all back ends agree with reachability, a revision names one graph, publications form one chain |
| `delivery` | pass | handlers and recipients get the version of their target, routes do not disturb each other unless told to work in place, telemetry shows what the runs did, an unhealthy worker converges nothing, a handler's annotation fits what it is given |
| `provider` | pass | each version of an indexed kind is served once, also after failures and repeated phases, and every handler gets its own version |

Where a run covers several set-ups (backends, onions of layers, ways to use a
manager), the initial state chooses one and it never changes (`config`,
`runner`, `usage`, `setup`, `cfg`, `site`).

**Divergences without a run of their own**, seen while modelling:

* a cancelled run has no final audit record, rolls nothing back and keeps its
  idempotency claim, because the layers catch `Exception` only; the properties
  concerned are stated for runners where nothing is cancelled;
* retry above idempotency on an asynchronous backend always fails, because the
  dropped first execution holds the claim (`retry.py:33`);
* a task group hands out an exception group where the other backends raise the
  entry's own error (`async_.py:40`; `docs/reference/runtime.md` promises that
  every backend behaves the same way);
* a hook added to one instance fires in all of them (`mixins/migrations.py:313`;
  `docs/reference/runtime.md`: "An instance hook applies only to that manager
  instance");
* a key-only edge wipes the references of the models at its ends
  (`memory.py:803`), which `memory.py:291` is to return ("Return entities that
  reference each node identity.");
* storing version 1 and then version 2 never reports the missing migration at
  version 1 (`memory.py:354`; `linters/migrations.py:11`: "Report adjacent model
  versions without an executable migration.");
* `on_missing_path="skip"` never skips: the path search raises for the whole
  payload before the policy is applied (`finder.py:67`), also for entries that a
  skipping direction policy would drop (`docs/explanation/execution-flow.md`
  draws both as "skip / raise"); an entry already at its target is rejected by
  the forward and backward policies, where the same chart has a no-op;
* a callable inside a per-kind mapping is cached under its `repr`
  (`plan_cache.py:27`), although "Callable resolvers are dynamic, so they opt out
  of caching";
* under a source model the entries are found in the validated document, with the
  schema library's defaults filled in, and executed on the payload as it came;
* a step whose failure a hook scope suppresses raises `UnboundLocalError`
  (`plan.py:378`); in a thread, where the refusal of a coroutine is suppressed, the
  closed coroutine is returned as the migrated value (`plan.py:345`, `plan.py:378`),
  gets no version (`plan.py:108`) and ends up in the payload of a run that succeeds;
  `ChildrenFirst` and `Converged` excuse the entries it replaced (`Excused`);
* a hook call that names its edge by a bare `EdgeId` drops the cached finding of a
  stored edge with a missing endpoint, and `health` is silent about it until the
  next refresh of that edge (`memory.py:951`, `memory.py:977`, `linters/edges.py:25`);
  `EdgeFindingsFollow` allows for it;
* `in` on a manager, asked for a pair of models of two kinds, raises
  `ValueError`, where any other unknown pair is `False` (`edges.py:40`,
  `lookup.py:158`);
* a Celery task without a return target answers in the target selected for its
  payload, by header, task name or queue (`task.py:77`), where the docstring
  (`task.py:101`) and `docs/integrations/celery/reference.md:10` say "defaults to
  `target`", the decorator's; `ConvergedWhereverServed` is stated for tasks whose
  selected target is the decorator's;
* a FastStream topic without a target of its own is converged to `latest`, as
  `docs/integrations/faststream/reference.md:140` says, but the handler's annotation
  leaves it out (`subscriber.py:106`), although line 160 there has a union "bound
  automatically when the target can vary across topics or headers": such a message
  may be refused, and `AnnotationsFit` is stated for topics that all have a target;
* models registered between the decorators and the binding of the runner are not in
  the handler's annotation, which then refuses what the runner converged
  (`subscriber.py:97`);
* a direct caller of `startup` or `bind` gets the health error with the runner left
  bound, and can go on converging with it (`celery/runtime.py:30`);
* without a handler at its target version a virtual component of the FastMCP
  provider calls the newest handler with the target's shape (`builder.py:207`);
* a node's digest covers field names and references and not field types
  (`nodes.py:277`), so graphs that differ in a type alone share a revision;
* telemetry mode `errors` lets a failure through and not the start it belongs to,
  so the bundled adapters, which finish only what they started, show nothing;
  `SpansTellRuns` leaves that mode aside
  (`docs/how-to/operations/instrument-migrations.md:116`: "`errors` emits only
  failed run and step events");
* a coroutine that is dropped and not awaited leaves its span open
  (`adapters/runtime.py:156`); two runs under one run id finish each other's;
* target validation on an asynchronous runner looks at the coroutine and not at
  the result (`runner.py:75`);
* a converged httpx response keeps the content-version header it came with
  (`transport.py:78`); in a bound Celery task the position of the payload is off
  by one (`task.py:134`);
* a payload of a version registered after the runner was bound is passed on
  unconverged; with `copy="none"` one route's conversion is the next one's input;
* a publisher whose second route fails has already sent the first
  (`publisher.py:135`);
* in the FastMCP provider a version is marked as projected before its component
  exists, and is lost when adding it fails (`builder.py:153`); the runner is bound
  before sync registers what it finds (`provider.py:100`); a component is added
  before indexing it may raise (`provider.py:125`); a listing transform hides
  components from a second sync, which is documented as idempotent
  (`provider.py:40`, `docs/integrations/fastmcp/how-to.md:112`).

The properties of the runs are stated so that they hold with these: each names
the case it leaves out.

**Bounds.**  The registry and engine instances have a kind with three versions
(so that an edge can skip one), a second kind (so that references cross kinds),
a reference to a foreign namespace, and two competing models of one identity.
The registry run has an adjacent and a skipping edge, offered as key-only and as
a ready-made executable edge; the engine run has four edges, since three make an
edge critical.  `MaxHooks` bounds the hooks of one edge, because nothing in the
code does; 2 lets `remove_hook` leave a list behind.  The middleware instances
have three runs (one completes, one waits, one is refused) and two attempts.
The execution instance has five entries: three that start together with two
workers, so that one waits, with steps of different numbers; one with a child;
the root above all.  One retry is enough to start from a failed attempt's
leftovers.  Two scopes are used where the order of leaving matters, and one that
may suppress in threads, in tasks and in a process.  The manager
has the class and one instance, so that one can disturb the other, three versions
and a skipping edge, so that an edge can be refused after an endpoint was
reflected, and two functions.  The planning instance has a kind with three
versions, an edge that skips one, an edge of another discriminator and a way down
that ends half-way; documents nest three deep, and three keys compete for a cache
of one or two plans.

The publication instance has a kind with three versions, a parallel edge, a
shortcut and ways back, so that back ends can choose differently and cycles exist.
It starts from two registries, one with a chain of migrations and one with edges
imported before the versions they connect; two mutations and two saves are enough
for one publisher to be overtaken between reading and saving.  The delivery
instance has two jobs, three versions and fourteen applications that differ in
transport, runner and how it is bound, targets and telemetry; a job converges at most three times
(in, and out to two routes).  The provider instance has three versions and eight
applications.  Publishers and jobs are symmetric: no application, message or
bound names one.

**Fairness.**  `Middleware` has weak fairness of every run's steps, `Execution`
of the backend's loop and of every entry's steps.  The interpreter schedules
each thread or task, and a caller awaits the awaitable it is handed.  A backend
execution, a hook or a migration function that never returns is excluded by it.

**Deadlock** is checked in every run but `delivery`, whose jobs end and whose
worker may have exited; `Done` lets finished runs stutter.

## Proofs

Every theorem is for all values of the constants that satisfy the named
assumptions below, not for the instances of the runs.  `RegistryOpsProofs` has
one lemma per operator of the registry; `EngineProofs`, `ManagerProofs` and
`PublicationProofs` build on it.  `PlanningProofs`, `MiddlewareProofs`,
`ExecutionProofs` and `DeliveryProofs` stand by themselves.  Of the 40 properties
of the passing runs, 37 are theorems.

| Theorem | States | Rests on |
| --- | --- | --- |
| `TypeCorrect`, `IndexesCorrect`, `ExecutableEndpoints` | type, `IndexInvariant`, `ExecutableEndpointsInvariant` of the registry | `Sound`, the three together |
| `EdgeFindingsCorrect` | the action property `EdgeFindingsFollow` | `Sound` and what each refresh covers |
| `ContentStable` | the action property `ContentIsStable` | `Sound` |
| `EdgesBindModels`, `ReferencesExact`, `HooksSitOnEdges` | the invariants of `Engine` | `Driven` |
| `EngineImplementsCatalog` | `Engine` implements `Catalog` | `Driven`, one lemma per action |
| `RegistriesStaySound`, `BindingsStayJustified`, `ClassRunsDescribed` | the invariants of `Manager` | `Inv`: all registries `Driven`, bindings, and the class above its graphs |
| `BackendRunsBounded` | `RetriesBounded` | `RetryInv` |
| `TransactionsAreClosed` | `TransactionsClosed` | `OpenHeld`, `HoldsOpen` |
| `ClaimsAreReleased`, `RunsAgree` | `NoOrphanClaim`, `ResultsAgree` | `ClaimInv` |
| `OneCommitPerKey` | `AtMostOneCommit` | `ClaimInv`, `CommitInv`, `AwaitedInv` |
| `ResultsAreCommitted` | `ResultCommitted` | `ValueInv` |
| `AuditTellsOutcome` | `AuditMatches` | `AuditInv` |
| `RevisionsIdentifyGraphs` | `RevisionsPinGraphs` | `GraphInv` |
| `ChronologyHolds` | `ChronologyIsLinear` | `ChronologyInv` |
| `SnapshotAnswers` | `SnapshotAnswersAsRegistry` | soundness of the registry a graph is read off, `ModelIndexComplete`; `GraphAnswersLookups` for the graph's half |
| `WalksAlwaysFollowFindings` | `WalksFollowFindings`, the planner's part of `TraversalsMatchReference` | the same soundness |
| `CacheLeastRecentlyUsed` | `CacheIsLeastRecentlyUsed` | the cache aligned with the history `uses` |
| `PlansCurrent`, `PlansAlwaysFit`, `NothingIsLeftBehind` | `PlansAreCurrent`, `PlansFit`, `NothingLeftBehind` | every cached plan answers every request of its key, the path cache is the graph's |
| `RunsEndClean` | `NothingOutlivesRun` | `LifeInv` |
| `FirstFailureIsReported` | `FirstFailureReported` | `LifeInv`, `ErrorInv` |
| `ChildrenComeFirst`, `RunsConverge` | `ChildrenFirst`, `Converged` | `LifeInv`, `ValueInv`, `HoldInv` |
| `Delivered`, `RoutesIndependent` | `ConvergedWhereverServed`, `RoutesAreIndependent` | `LifeInv`, `JobInv` |
| `UnhealthyWorkersStop` | `UnhealthyWorkersConvergeNothing` | the same and `HealthInv` |
| `AnnotationsAlwaysFit` | `AnnotationsFit` | the same and `RefusedInv` |
| `SpansTell` | `SpansTellRuns` | the same and `TeleInv` |
| `HandlersServed`, `VersionsAlwaysServedOnce` | `HandlersGetTheirVersion`, the action property `VersionsServedOnce` | `ProviderInv` |

**The arguments.**

*Registry.*  Type, indexes and executable endpoints need each other: `remove_model`
keeps executable endpoints because the incidence index is exact, the incidence
index stays exact because a stored edge sits under its own identity, the digest
index because equal content means equal identity.  Each lemma of
`RegistryOpsProofs` splits into the change of the stores and the refresh, which
never touches them.

*Engine and manager.*  `Driven` adds that an edge embeds the models held under
its endpoints, that reference findings are exact and that hook lists are not
empty.  The findings are not inductive without the first: storing and removing an
edge refreshes its endpoints from the models the edge embeds.  A manager's
registries are all `Driven`, because a copy is.  That a runner runs what its old
graph describes needs the class to hold, for good, every executable edge that an
instance or a graph holds.

*Middleware.*  The theorems hold for all layers in all orders; where an order
matters it is a hypothesis on the runners, which every runner of the `middleware`
run satisfies.  `RetryBelow(kind, w)`: an asynchronous retry does not stand above
that layer (its call starts an execution and drops it; run
`middleware_retry_transaction` shows the transaction left open without this).
`RunsAgree` also needs the idempotency layer to be there, `OneCommitPerKey` the
claim above the transaction (`ClaimFirst`), `ResultsAreCommitted` no transaction
above the claim (`CommitFirst`, else a result is stored before it is committed),
`AuditTellsOutcome` the audit layer outermost (`AuditFirst`).  The invariants say
what each position in the onion implies for the shared state: inside the
idempotency layer a run holds the claim, inside the transaction layer it holds one
open transaction, and nobody else holds either.

*Execution.*  `LifeInv` says where entries can be: one level is at work, which is
the remaining entries without a remaining descendant, so that what runs together
never overlaps.  That a level is never empty while entries are left (`LeafExists`)
is what makes a run that ends complete.  `ValueInv` gives the value of each entry
from its position, or says that it was lost to a closed coroutine; `HoldInv` is why
that takes a thread and a scope that suppresses, and once lost an entry stays so
(`LostForGood`).  The two theorems about values assume `NoRetryInPlace`: no
runner retries a run that works in place.  Without it they are false, as the run
`execution_retry_in_place` shows.

*Publication.*  A revision only covers digests, so `GraphInv` is about what can be
recovered from them: each graph in circulation was read off a sound registry, in
which an edge is stored once and a digest determines it.  The lookups of a graph
and of a manager read secondary indexes, so their agreement is the exactness of
those indexes; what `Sound` does not say is that the index by reference is
complete, which every operation preserves only where no two versions share a
reference (a reference is the qualified name of a class, and `_by_models` keeps the
version stored last under it).  A walk is over consecutive versions by counting,
and the version at the next place is the one the linter calls next (`NextPlace`);
that every place is taken is a counting argument.

*Planning.*  A plan is cached under a key and served to every request with that
key, so the invariant says of each cached plan that it answers *every* such request
as planning afresh would; that needs the documents of two requests with one key to
give the same entries, which is why the key holds their paths and versions.  The
finder's own cache holds the graph's walks and nothing else.  A call carries, at
each of its points, the part of the fresh answer it has found so far.  The order of
the cache is tied to `uses` position by position, through eviction, repeated stores
and clears.

*Provider.*  `ProviderInv` is the account the provider keeps: a key is projected
exactly when it has a virtual component or its component was refused.  With it,
`sync` indexes no projected key, so an entrance beside a virtual component can only
come from a later addition to the provider, and `enrich` passes over nothing it
does not account for.  That a virtual component has its target's handler is fixed
when it is made.

*Delivery.*  `JobInv` says of each job where its convergence comes from, which goal
the policy resolves to in the bound graph and that it walks straight to it
(`WayInv`), what the handler was given (`ServedInv`), which routes are served, which
are left and what the payload they share is by now (`OutInv`), and that only the
last run of a job is active (`RunsInv`).  `LifeInv` ties the annotations to what the
decorators saw and says that nothing is bound before startup, unless the runtime was
constructed with a runner, so that a worker that exits has converged nothing.  `TeleInv` says that an adapter remembers under an id
only what is live or running under it; and, with ids of their own and a client
that delivers, exactly that, and shows it.  The first half is needed for shared ids
and lost deliveries, where the second is false.

**Assumptions**, each as the code's constructors guarantee it, where not said otherwise: an edge connects
nodes of one kind and models know their identity (`RegistryOps`, `Registry`);
`Nodes` is finite because the registry counts positions; the wildcard of the
reflection port is no model (`EngineAssumption`); the class is none of its
instances and callables have an identity (`ManagerAssumption`); layers occur once,
which `Runner` does not enforce, and there is at least one attempt
(`MiddlewareAssumption`); positions of a plan are
distinct (`ExecutionAssumption`); a publication starts from sound registries
whose index by reference is complete (`PublicationAssumption`); a graph has
finitely many models, documents, targets and policies are of the forms the walker,
the target compiler and the policy engine accept (`SetupsAssumption`); versions are numbers and an application's
models finitely many (`SitesAssumption`); every chain of selectors ends in a default, targets are
policies, responses and publishers have one target (`DeliveryAssumption`, which
also says that the bounds on versions and runs are large enough for the
application).  TLC evaluates all of them on the runs' instances.

**Model-checked only.**

* `Termination` of `Middleware` and `Terminates` of `Execution`: liveness.
* The searches and the topological sort of `TraversalsMatchReference` (its part about
  the planner's walk is proved): folds over sorted sequences, whose definitions
  in the community modules the provers do not see through, and whose
  correctness is an induction over the graph.

Induction over numbers is not out of reach, though the library's theorems for it
are: `SetInduction` states it for a set instead of an operator, and follows from
the well-foundedness of `<`.  Recursive functions over positions (`Subsequence`,
`Index`) are shown to exist and to keep what each turn keeps in this way.

**What the proofs corrected.**  `NothingLeftBehind` and `SnapshotAnswersAsRegistry`
were false beyond their instances: the former where a policy leaves an entry alone,
the latter where two versions share a reference.  Both now say what the code does.
`VersionsServedOnce` had an exception for hidden components that the proof did not
need, and has lost it.

## Not modelled

Within the modelled parts: an engine passed explicitly to a manager, which is
used uncopied; functions that change nested mappings they were not handed at the
top, or change their argument and then raise; the hook state shared by the hooks
of a run; `run_many`, a loop over `run`; field types in digests.

In the adapters: version ranges and per-kind policies as targets and explicit
selectors of FastStream; Celery's bound tasks and its shutdown callback; the
difference between no runner and one over an empty graph; a
provider without a server; a component whose schema differs from the model
registered for it, so that registering it fails after its entrance was stored
(`builder.py:82`); hooks or transforms that raise in `enrich` before their flag is
set (`provider.py:164`); facets, span attributes and bindings metadata.  A call
without a runner and one without a path are one error of `Delegate`.  That the
host's server refuses a second component under one key (`Free`) is assumed of it:
`provider.py:58` asks for that of the provider's own components.

Not at all: diffs, patches and the compatibility linter, which transform documents
and keep no state; the schema adapters, which translate between schema libraries;
canonical serialisation and hashing, taken as injective; the command line.
`PROJECT.json` gives the reason for every part that has no module.

## Plan

Done: the registry, the engine and its catalog, middleware, execution, manager,
planning; publication of graphs by concurrent writers; snapshots, lookups and
traversals against reference definitions; telemetry, the transports and the
FastMCP provider; proofs about all of these.  Left:

1. Diffs and JSON Patch application as operators over small documents.
2. The searches and the sort of `Snapshot`, with their folds written as recursive
   functions over positions, so that they can be proved about.
