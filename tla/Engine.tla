------------------------------- MODULE Engine -------------------------------
(***************************************************************************)
(* The registry as pyverge's engine drives it (core/engine.py): models and *)
(* placeholders are stored by identity, migrations come as specifications, *)
(* and migrations and hooks are only touched through executable edges.     *)
(***************************************************************************)
EXTENDS RegistryOps

CONSTANTS
    OnMissing,     \* the registry's policy for a missing endpoint
    MaxHooks       \* bound on the hooks of one edge

ASSUME EngineAssumption ==
    /\ OnMissing \in {"raise", "reconstruct_model"}
    /\ MaxHooks \in Nat
    /\ "any" \notin Models

VARIABLE reg

vars == <<reg>>

Init == reg = EmptyRegistry

\* store_model of a model class or a VersionNode hydrates.
StoreModel(m) == CanHydrate(reg, m) /\ reg' = Hydrate(reg, m)

\* store_model (and reconcile_model) of a VersionKey keeps what is there.
StoreKey(n) == CanStore(reg, n) /\ reg' = StoreEntry(reg, n, "key")

ReconcileModel(m) == CanReconcile(reg, m) /\ reg' = Reconcile(reg, m)

RemoveModelOf(n) == CanRemoveModel(reg, n) /\ reg' = RemoveModel(reg, n)

RemoveModelByClass(m) ==
    /\ reg.models[RefOf[m]] # "absent"
    /\ RemoveModelOf(NodeOf[reg.models[RefOf[m]]])

\* reconstruct stores the model reflected for a missing identity.
Reconstruct(m) ==
    /\ OnMissing = "reconstruct_model"
    /\ CanStore(reg, NodeOf[m])
    /\ reg' = StoreEntry(reg, NodeOf[m], m)

StoreMigration(e, f) ==
    CanStoreSpec(reg, e, f) /\ reg' = StoreEdge(reg, BuildEdge(reg, e, f))

\* One endpoint is reflected and stored first, and stays when the adjacency
\* check then raises.
StoreMigrationReflecting(e, f, m) ==
    /\ OnMissing = "reconstruct_model"
    /\ CanReflect(reg, e, m)
    /\ LET T == StoreEntry(reg, NodeOf[m], m)
       IN  reg' = IF CanStoreSpec(T, e, f) THEN StoreEdge(T, BuildEdge(T, e, f)) ELSE T

RemoveMigration(e, force) ==
    /\ HasExecutable(reg, e)
    /\ force \/ (IsAdjacent(reg, e) /\ ~IsCriticalEdge(reg, e))
    /\ CanRemoveMigration(reg, e)
    /\ reg' = RemoveEdges(reg, {e})

RemoveMigrationRange(lo, hi) ==
    CanRemoveRange(reg, lo, hi) /\ reg' = RemoveRange(reg, lo, hi)

DeleteWholeKind(k) == CanDeleteKind(reg, k) /\ reg' = DeleteKind(reg, k)

AddHookTo(e, h) ==
    /\ HasExecutable(reg, e)
    /\ Len(reg.hooks[e]) < MaxHooks
    /\ reg' = AddHook(reg, e, h, "key")

RemoveHookFrom(e, h) ==
    HasExecutable(reg, e) /\ CanRemoveHook(reg, e, h) /\ reg' = RemoveHook(reg, e, h, "key")

\* remove_hook without a hook and clear_hooks(key) both drop the whole list;
\* the former also refreshes the edge.
RemoveHooksOf(e) ==
    /\ HasExecutable(reg, e)
    /\ e \in reg.hookKeys
    /\ \/ reg' = RefreshKey(ClearHooks(reg, {e}), e, "key")
       \/ reg' = ClearHooks(reg, {e})

ClearAllHooks == reg' = ClearHooks(reg, EdgeIds)

\* attach_hooks adds the hook to every executable edge of the recorded kinds.
AttachHook(h) ==
    LET K == {e \in EdgeIds : HasExecutable(reg, e) /\ Kind(e.source) \in reg.buckets}
    IN  /\ \A e \in K : Len(reg.hooks[e]) < MaxHooks
        /\ reg' = AddHooks(reg, K, h)

Next ==
    \/ \E m \in Models : \/ StoreModel(m) \/ ReconcileModel(m)
                         \/ Reconstruct(m) \/ RemoveModelByClass(m)
    \/ \E n \in Nodes : StoreKey(n) \/ RemoveModelOf(n)
    \/ \E e \in EdgeIds, f \in Funcs : StoreMigration(e, f)
    \/ \E e \in EdgeIds, f \in Funcs, m \in Models : StoreMigrationReflecting(e, f, m)
    \/ \E e \in EdgeIds, force \in BOOLEAN : RemoveMigration(e, force)
    \/ \E lo \in Nodes, hi \in Nodes :
          Kind(lo) = Kind(hi) /\ RemoveMigrationRange(lo, hi)
    \/ \E k \in Kinds : DeleteWholeKind(k)
    \/ \E e \in EdgeIds, h \in Hooks : AddHookTo(e, h) \/ RemoveHookFrom(e, h)
    \/ \E e \in EdgeIds : RemoveHooksOf(e)
    \/ ClearAllHooks
    \/ \E h \in Hooks : AttachHook(h)

Spec == Init /\ [][Next]_vars

-----------------------------------------------------------------------------
(* Properties. *)

\* An edge the engine holds was built from exactly the models the registry
\* holds under its endpoints: removal is refused while an edge needs a model,
\* and neither hydration nor reconciliation replaces one.
EdgesBindModelsInvariant == EdgesBindStoredModels(reg)

\* references_to and the cached reference.missing findings are exact for every
\* entry, although each mutation refreshes only the entities it considers
\* affected: Engine.validate and the startup gate read this cache.
ReferencesInvariant == ReferencesCurrent(reg)

\* Every hook list sits on an executable edge and is not empty; a leftover key
\* would make Registry.remove_migration refuse the edge for good.
HooksInvariant == HooksOnExecutableEdges(reg)

\* The executable edges of identity e, and what edge b wants node n to hold.
EdgesOf(e) == [id: {e}, source: Models, target: Models, func: Funcs]

EndOf(e, b, n) ==
    IF n = e.source THEN b.source ELSE IF n = e.target THEN b.target ELSE "any"

\* The engine's registry implements the abstract catalog: the guards that go
\* through the incidence, kind and model indexes are as strong as the promises
\* made about the entries and edges themselves.
Abstract == INSTANCE Catalog WITH
    Contents <- {"key"} \cup Models,
    Placeholder <- "key",
    Bodies <- EdgesOf,
    Unbound <- NoEdge,
    Joins <- EndOf,
    held <- reg.nodes,
    bound <- reg.edges,
    hooked <- reg.hookKeys

ImplementsCatalog == Abstract!CSpec
=============================================================================
