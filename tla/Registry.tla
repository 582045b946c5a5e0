------------------------------ MODULE Registry ------------------------------
(***************************************************************************)
(* One registry driven through its whole public surface (core/registry/    *)
(* memory.py), the direct edge form used for key-only graph import         *)
(* included.  A call that raises leaves the registry as it is, so it is no *)
(* step, except where the code raises after it has mutated.                *)
(***************************************************************************)
EXTENDS RegistryOps

CONSTANTS
    EdgeEntries,   \* edge objects offered to the direct form of store_migration
    OnMissing,     \* the registry's policy for a missing endpoint
    MaxHooks       \* bound on the hooks of one edge

ASSUME RegistryAssumption ==
    /\ EdgeEntries \subseteq EdgeObjects
    /\ \A o \in EdgeEntries : IsExecutable(o) =>
          /\ o.source \in Models /\ NodeOf[o.source] = o.id.source
          /\ o.target \in Models /\ NodeOf[o.target] = o.id.target
    /\ OnMissing \in {"raise", "reconstruct_model"}
    /\ MaxHooks \in Nat

VARIABLE reg

vars == <<reg>>

Init == reg = EmptyRegistry

\* Edge objects a caller can name an edge by: a bare EdgeId or an EdgeKey.
KeyObjects == {"id", "key"}

\* Node objects a caller can hold for identity n.
ObjectsFor(n) == {"id", "key"} \cup {m \in Models : NodeOf[m] = n}

Store(n) ==
    \E o \in ObjectsFor(n) \ {"id"} : CanStore(reg, n) /\ reg' = StoreEntry(reg, n, o)

HydrateModel(m) == CanHydrate(reg, m) /\ reg' = Hydrate(reg, m)

ReconcileModel(m) == CanReconcile(reg, m) /\ reg' = Reconcile(reg, m)

RemoveModelOf(n) == CanRemoveModel(reg, n) /\ reg' = RemoveModel(reg, n)

\* remove_model_by_ref goes through the model index.
RemoveModelByRef(r) ==
    /\ reg.models[r] # "absent"
    /\ RemoveModelOf(NodeOf[reg.models[r]])

ClearAllModels == CanClearModels(reg) /\ reg' = ClearModels(reg)

DeleteWholeKind(k) == CanDeleteKind(reg, k) /\ reg' = DeleteKind(reg, k)

\* store_migration(MigrationSpec) between hydrated, adjacent versions.
StoreMigrationSpec(e, f) ==
    CanStoreSpec(reg, e, f) /\ reg' = StoreEdge(reg, BuildEdge(reg, e, f))

\* ... with one endpoint reflected and stored first.  When the pair then turns
\* out not to be adjacent the call raises, and the endpoint stays.
StoreMigrationReflecting(e, f, m) ==
    /\ OnMissing = "reconstruct_model"
    /\ CanReflect(reg, e, m)
    /\ LET T == StoreEntry(reg, NodeOf[m], m)
       IN  reg' = IF CanStoreSpec(T, e, f) THEN StoreEdge(T, BuildEdge(T, e, f)) ELSE T

StoreMigrationEdge(o) == CanStoreEdge(reg, o) /\ reg' = StoreEdge(reg, o)

RemoveMigration(e) ==
    /\ CanRemoveMigration(reg, e)
    /\ \/ IsStored(reg.edges[e]) /\ reg' = RemoveEdges(reg, {e})
       \/ /\ ~IsStored(reg.edges[e])
          /\ \E src \in ObjectsFor(e.source), tgt \in ObjectsFor(e.target), o \in KeyObjects :
                reg' = RemoveUnknown(reg, e, src, tgt, o)

RemoveMigrationRange(lo, hi) ==
    CanRemoveRange(reg, lo, hi) /\ reg' = RemoveRange(reg, lo, hi)

ClearAllMigrations == reg' = ClearMigrations(reg)

AddHookTo(e, h) ==
    \E o \in KeyObjects : Len(reg.hooks[e]) < MaxHooks /\ reg' = AddHook(reg, e, h, o)

RemoveHookFrom(e, h) ==
    \E o \in KeyObjects : CanRemoveHook(reg, e, h) /\ reg' = RemoveHook(reg, e, h, o)

\* remove_hook(key) and clear_hooks(key) raise for an unknown key; the former
\* refreshes the findings of the key it was given.
RemoveHooksOf(e) ==
    \E o \in KeyObjects : e \in reg.hookKeys /\ reg' = RefreshKey(ClearHooks(reg, {e}), e, o)

ClearHooksOf(e) == e \in reg.hookKeys /\ reg' = ClearHooks(reg, {e})

ClearAllHooks == reg' = ClearHooks(reg, EdgeIds)

ReadHooksOf(e) == reg' = ReadHooks(reg, e)

Next ==
    \/ \E n \in Nodes : Store(n) \/ RemoveModelOf(n)
    \/ \E m \in Models : HydrateModel(m) \/ ReconcileModel(m)
    \/ \E r \in ModelRefs : RemoveModelByRef(r)
    \/ \E k \in Kinds : DeleteWholeKind(k)
    \/ ClearAllModels
    \/ \E e \in EdgeIds, f \in Funcs : StoreMigrationSpec(e, f)
    \/ \E e \in EdgeIds, f \in Funcs, m \in Models : StoreMigrationReflecting(e, f, m)
    \/ \E o \in EdgeEntries : StoreMigrationEdge(o)
    \/ \E e \in EdgeIds : RemoveMigration(e)
    \/ \E lo \in Nodes, hi \in Nodes :
          Kind(lo) = Kind(hi) /\ RemoveMigrationRange(lo, hi)
    \/ ClearAllMigrations
    \/ \E e \in EdgeIds, h \in Hooks : AddHookTo(e, h) \/ RemoveHookFrom(e, h)
    \/ \E e \in EdgeIds : RemoveHooksOf(e) \/ ClearHooksOf(e) \/ ReadHooksOf(e)
    \/ ClearAllHooks

Spec == Init /\ [][Next]_vars

-----------------------------------------------------------------------------
(* Properties. *)

\* Type invariant.
TypeOK == reg \in Registries

\* The kind, model, incidence, digest and reference indexes agree with the
\* entries and edges they are derived from, whatever sequence of stores,
\* upgrades, removals and clears was made (memory.py keeps them by hand in
\* every mutation).
IndexInvariant == IndexesAgree(reg)

\* An executable edge never outlives an endpoint: remove_model consults the
\* incidence index, delete_kind removes edges first, clear_models waits for
\* clear_migrations.
ExecutableEndpointsInvariant == ExecutableEndsRegistered(reg)

\* The cached endpoint findings follow the graph: a step that stores an edge, or
\* that makes an endpoint of a stored edge come or go, leaves the edge with the
\* finding the linter has for it now, and no other step changes a finding, except
\* that a hook call may drop the finding of the edge whose hooks it changes (it
\* does when the edge is named by a bare EdgeId, which the linter skips).
EdgeFindingsFollow == [][EdgeFindingsMove(reg, reg')]_vars

\* Stored content is only ever replaced by way of removal: no call swaps the
\* model of a hydrated node or the content of an executable edge in place, and
\* a hydrated node or an executable edge never falls back to key-only.
ContentIsStable == [][ContentKept(reg, reg')]_vars
=============================================================================
