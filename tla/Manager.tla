------------------------------- MODULE Manager -------------------------------
(***************************************************************************)
(* A manager class and its instances (runtime/manager): the class owns a   *)
(* default engine, every instance works on a copy of it, and all of them   *)
(* share the bindings of the class (runtime/migrations.py), which hold the *)
(* callables and the hook objects.  Registries and graphs hold identities  *)
(* only; a runner pairs the graph of one instance with the shared bindings *)
(* (runtime/facade.py, runtime/planner.py).                                *)
(***************************************************************************)
EXTENDS RegistryOps

Class == "class"

CONSTANTS
    Instances,     \* manager instances
    Callables,     \* migration functions
    IdentityOf,    \* the identity a migration descriptor records for each
    Usages,        \* the ways an application may use the manager
    MaxHooks       \* bound on the hooks of one edge

ASSUME ManagerAssumption ==
    /\ Class \notin Instances
    /\ IdentityOf \in [Callables -> Funcs]
    /\ "unbound" \notin Callables
    /\ Usages \subseteq [onMissing : {"raise", "reconstruct_model"},
                         instanceCalls : BOOLEAN, removals : BOOLEAN]
    /\ MaxHooks \in Nat

VARIABLES
    usage,     \* the present one, which never changes
    regs,      \* the registry of the class's engine and of every instance's
    live,      \* the instances that were made
    bound,     \* the callable bound to an edge
    hookBound, \* the hook objects bound to an edge
    graphs     \* the graph in the runner of an instance

vars == <<usage, regs, live, bound, hookBound, graphs>>

OnMissing == usage.onMissing         \* the policy for a missing endpoint
InstanceCalls == usage.instanceCalls \* registration on instances, too
Removals == usage.removals           \* migrations are removed, too

Owners == {Class} \cup Instances

\* Who registers: the class, and where the application does so its instances.
Callers == {Class} \cup (IF InstanceCalls THEN live ELSE {})

NoGraph == [e \in EdgeIds |-> NoEdge]

Init ==
    /\ usage \in Usages
    /\ regs = [o \in Owners |-> EmptyRegistry]
    /\ live = {}
    /\ bound = [e \in EdgeIds |-> "unbound"]
    /\ hookBound = [e \in EdgeIds |-> << >>]
    /\ graphs = [i \in Instances |-> NoGraph]

\* Mutant: the incidence index is left to be rebuilt on demand.
CopyWithoutIncidence(S) == [S EXCEPT !.incident = [n \in Nodes |-> {}]]

\* Registry.copy takes over every store, with containers of its own.
CopyRegistry(S) == S

\* Manager(): the instance gets a copy of the default engine.
New(i) ==
    /\ i \notin live
    /\ live' = live \cup {i}
    /\ regs' = [regs EXCEPT ![i] = CopyRegistry(regs[Class])]
    /\ UNCHANGED <<bound, hookBound, graphs>>

-----------------------------------------------------------------------------
(* Registration, by the class or by an instance. *)

StoreModel(o, m) ==
    /\ CanHydrate(regs[o], m)
    /\ regs' = [regs EXCEPT ![o] = Hydrate(@, m)]
    /\ UNCHANGED <<live, bound, hookBound, graphs>>

\* store_model of a VersionKey keeps what is there.
StoreKey(o, n) ==
    /\ CanStore(regs[o], n)
    /\ regs' = [regs EXCEPT ![o] = StoreEntry(@, n, "key")]
    /\ UNCHANGED <<live, bound, hookBound, graphs>>

ReconcileModel(o, m) ==
    /\ CanReconcile(regs[o], m)
    /\ regs' = [regs EXCEPT ![o] = Reconcile(@, m)]
    /\ UNCHANGED <<live, bound, hookBound, graphs>>

\* Mutant: the callable is bound before the engine may refuse the edge.
StoreMigrationBindFirst(o, e, c) ==
    /\ regs' = [regs EXCEPT ![o] = IF CanStoreSpec(@, e, IdentityOf[c])
                                    THEN StoreEdge(@, BuildEdge(@, e, IdentityOf[c])) ELSE @]
    /\ bound' = [bound EXCEPT ![e] = c]
    /\ UNCHANGED <<live, hookBound, graphs>>

\* The engine stores the edge, or finds the very same edge there; either way
\* the callable is bound for everybody.
StoreMigration(o, e, c) ==
    /\ CanStoreSpec(regs[o], e, IdentityOf[c])
    /\ regs' = [regs EXCEPT ![o] = StoreEdge(@, BuildEdge(@, e, IdentityOf[c]))]
    /\ bound' = [bound EXCEPT ![e] = c]
    /\ UNCHANGED <<live, hookBound, graphs>>

\* One endpoint is reflected first; when the engine then refuses the edge the
\* endpoint stays and nothing is bound.
StoreMigrationReflecting(o, e, c, m) ==
    /\ OnMissing = "reconstruct_model"
    /\ CanReflect(regs[o], e, m)
    /\ LET f == IdentityOf[c]
           T == StoreEntry(regs[o], NodeOf[m], m)
       IN  \/ /\ CanStoreSpec(T, e, f)
              /\ regs' = [regs EXCEPT ![o] = StoreEdge(T, BuildEdge(T, e, f))]
              /\ bound' = [bound EXCEPT ![e] = c]
           \/ /\ ~CanStoreSpec(T, e, f)
              /\ regs' = [regs EXCEPT ![o] = T]
              /\ UNCHANGED bound
    /\ UNCHANGED <<live, hookBound, graphs>>

\* What Engine.remove_migration without force asks for.
Removable(S, e) ==
    HasExecutable(S, e) /\ IsAdjacent(S, e) /\ ~IsCriticalEdge(S, e) /\ CanRemoveMigration(S, e)

\* Mutant: the bindings are left alone.
RemoveMigrationOnly(o, e) ==
    /\ Removals
    /\ regs' = [regs EXCEPT ![o] = IF Removable(@, e) THEN RemoveEdges(@, {e}) ELSE @]
    /\ UNCHANGED <<live, bound, hookBound, graphs>>

\* The bindings of the edge go first, whatever the engine then says.
RemoveMigration(o, e) ==
    /\ Removals
    /\ bound' = [bound EXCEPT ![e] = "unbound"]
    /\ hookBound' = [hookBound EXCEPT ![e] = << >>]
    /\ regs' = [regs EXCEPT ![o] = IF Removable(@, e) THEN RemoveEdges(@, {e}) ELSE @]
    /\ UNCHANGED <<live, graphs>>

\* The hook is bound first, and stays so when the engine knows no such edge.
AddHookTo(o, e, h) ==
    /\ Len(hookBound[e]) < MaxHooks /\ Len(regs[o].hooks[e]) < MaxHooks
    /\ hookBound' = [hookBound EXCEPT ![e] = Append(@, h)]
    /\ regs' = [regs EXCEPT ![o] = IF HasExecutable(@, e) THEN AddHook(@, e, h, "key") ELSE @]
    /\ UNCHANGED <<live, bound, graphs>>

\* attach_hooks with one hook: every executable edge of the caller's registry.
AttachHook(o, h) ==
    LET K == {e \in EdgeIds : HasExecutable(regs[o], e) /\ Kind(e.source) \in regs[o].buckets}
    IN  /\ \A e \in K : Len(hookBound[e]) < MaxHooks /\ Len(regs[o].hooks[e]) < MaxHooks
        /\ hookBound' = [e \in EdgeIds |->
                            IF e \in K THEN Append(hookBound[e], h) ELSE hookBound[e]]
        /\ regs' = [regs EXCEPT ![o] = AddHooks(@, K, h)]
        /\ UNCHANGED <<live, bound, graphs>>

\* runtime(): a runner over a snapshot of the instance's registry.
Runtime(i) ==
    /\ i \in live
    /\ graphs' = [graphs EXCEPT ![i] =
                    [e \in EdgeIds |-> IF HasExecutable(regs[i], e)
                                       THEN regs[i].edges[e] ELSE NoEdge]]
    /\ UNCHANGED <<regs, live, bound, hookBound>>

\* What an owner may call; the decorators of the metaclass call it on the class.
Registration(o) ==
    \/ \E m \in Models : StoreModel(o, m) \/ ReconcileModel(o, m)
    \/ \E n \in Nodes : StoreKey(o, n)
    \/ \E e \in EdgeIds, c \in Callables : StoreMigration(o, e, c)
    \/ \E e \in EdgeIds, c \in Callables, m \in Models : StoreMigrationReflecting(o, e, c, m)
    \/ \E e \in EdgeIds : RemoveMigration(o, e)
    \/ \E e \in EdgeIds, h \in Hooks : AddHookTo(o, e, h)
    \/ \E h \in Hooks : AttachHook(o, h)

Next ==
    /\ \/ \E i \in Instances : New(i) \/ Runtime(i)
       \/ \E o \in Callers : Registration(o)
    /\ UNCHANGED usage

Spec == Init /\ [][Next]_vars

-----------------------------------------------------------------------------

\* The function a runner's planner would bind to an edge of its graph.
Resolves(e) == IF bound[e] \in Callables THEN IdentityOf[bound[e]] ELSE "unbound"

\* Every registry of the class and of its instances keeps its indexes exact and
\* its edges bound to the models it holds, however copies and calls interleave.
RegistriesSound ==
    \A o \in Owners : IndexesAgree(regs[o]) /\ EdgesBindStoredModels(regs[o])
                      /\ HooksOnExecutableEdges(regs[o])

\* A callable stays bound only while the class or some instance holds the edge as
\* executable with the identity of that callable: the bindings of MigrationBindings
\* never outlive what they were stored for.
BindingsJustified ==
    \A e \in EdgeIds : bound[e] \in Callables =>
        \E o \in {Class} \cup live : regs[o].edges[e].func = IdentityOf[bound[e]]

\* A runner runs, for every executable edge of its graph, the migration the graph
\* describes: the snapshot it keeps and the live bindings agree.
RunsDescribedMigration ==
    \A i \in Instances, e \in EdgeIds :
        IsExecutable(graphs[i][e]) => Resolves(e) = graphs[i][e].func

\* As long as all registration happens on the class and nothing is removed, every
\* runner runs what its graph describes, however old the graph is, also after edges
\* that the engine refused.
ClassRunsDescribedMigration == ~InstanceCalls /\ ~Removals => RunsDescribedMigration

\* "Instance calls update only that instance's engine. Existing instances are not
\* affected by later class-level registration.": where nothing is removed, a
\* runner runs what its graph describes, whoever registers what later.
InstancesIndependent == ~Removals => RunsDescribedMigration

=============================================================================
