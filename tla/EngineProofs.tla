---------------------------- MODULE EngineProofs ----------------------------
(***************************************************************************)
(* The engine for all sets of nodes, models, edges and hooks.  The         *)
(* inductive invariant is Driven: the guard that keeps a model in place    *)
(* reads the incidence index, so the binding of edges to models is not     *)
(* inductive without the indexes, and the reference findings are not       *)
(* inductive without the binding, because storing and removing an edge     *)
(* refreshes its endpoints from the models the edge embeds.                *)
(***************************************************************************)
EXTENDS Engine, RegistryOpsProofs

\* Every call of the engine keeps its registry driven.
LEMMA StepDriven ==
    ASSUME Driven(reg), [Next]_vars
    PROVE  Driven(reg')
  <1>1. CASE UNCHANGED vars
    BY <1>1 DEF vars
  <1>2. ASSUME NEW m \in Models, StoreModel(m)
        PROVE  Driven(reg')
    BY <1>2, HydrateDriven DEF StoreModel
  <1>3. ASSUME NEW m \in Models, ReconcileModel(m)
        PROVE  Driven(reg')
    BY <1>3, ReconcileDriven DEF ReconcileModel
  <1>4. ASSUME NEW m \in Models, Reconstruct(m)
        PROVE  Driven(reg')
    <2> DEFINE n == NodeOf[m]
    <2>1. n \in Nodes /\ m \in {"key"} \cup {l \in Models : NodeOf[l] = n}
      BY ModelsAssumption
    <2>2. CanStore(reg, n) /\ reg' = StoreEntry(reg, n, m)
      BY <1>4 DEF Reconstruct
    <2> HIDE DEF n
    <2> QED BY <2>1, <2>2, StoreEntryDriven
  <1>5. ASSUME NEW n \in Nodes, RemoveModelOf(n)
        PROVE  Driven(reg')
    BY <1>5, RemoveModelDriven DEF RemoveModelOf
  <1>6. ASSUME NEW m \in Models, RemoveModelByClass(m)
        PROVE  Driven(reg')
    <2>1. RefOf[m] \in ModelRefs
      BY DEF ModelRefs
    <2>2. reg.models[RefOf[m]] \in Models
      BY <1>6, <2>1, DrivenFacts DEF RemoveModelByClass, Registries
    <2>3. NodeOf[reg.models[RefOf[m]]] \in Nodes
      BY <2>2, ModelsAssumption
    <2> QED BY <1>5, <1>6, <2>3 DEF RemoveModelByClass
  <1>7. ASSUME NEW n \in Nodes, StoreKey(n)
        PROVE  Driven(reg')
    BY <1>7, StoreEntryDriven DEF StoreKey
  <1>8. ASSUME NEW e \in EdgeIds, NEW f \in Funcs, StoreMigration(e, f)
        PROVE  Driven(reg')
    BY <1>8, StoreSpecDriven DEF StoreMigration
  <1>9. ASSUME NEW e \in EdgeIds, NEW f \in Funcs, NEW m \in Models,
               StoreMigrationReflecting(e, f, m)
        PROVE  Driven(reg')
    <2> DEFINE n == NodeOf[m]
               T == StoreEntry(reg, n, m)
    <2>1. /\ n \in Nodes /\ CanStore(reg, n)
          /\ m \in {"key"} \cup {l \in Models : NodeOf[l] = n}
      BY <1>9, ModelsAssumption DEF StoreMigrationReflecting, CanReflect
    <2>2. reg' = IF CanStoreSpec(T, e, f) THEN StoreEdge(T, BuildEdge(T, e, f)) ELSE T
      BY <1>9 DEF StoreMigrationReflecting
    <2> HIDE DEF n
    <2>3. Driven(T)
      BY <2>1, StoreEntryDriven
    <2> HIDE DEF T
    <2>4. CASE CanStoreSpec(T, e, f)
      BY <2>2, <2>3, <2>4, StoreSpecDriven
    <2> QED BY <2>2, <2>3, <2>4
  <1>10. ASSUME NEW e \in EdgeIds, NEW force \in BOOLEAN, RemoveMigration(e, force)
         PROVE  Driven(reg')
    <2>1. {e} \in SUBSET EdgeIds /\ \A f \in {e} : IsExecutable(reg.edges[f]) /\ f \notin reg.hookKeys
      BY <1>10 DEF RemoveMigration, HasExecutable, CanRemoveMigration
    <2> QED BY <1>10, <2>1, RemoveEdgesDriven DEF RemoveMigration
  <1>11. ASSUME NEW lo \in Nodes, NEW hi \in Nodes, RemoveMigrationRange(lo, hi)
         PROVE  Driven(reg')
    <2> DEFINE K == RangeEdges(reg, lo, hi)
    <2>1. K \in SUBSET EdgeIds /\ \A e \in K : IsExecutable(reg.edges[e]) /\ e \notin reg.hookKeys
      BY <1>11 DEF RemoveMigrationRange, CanRemoveRange, RangeEdges, HasExecutable
    <2>2. reg' = RemoveEdges(reg, K)
      BY <1>11 DEF RemoveMigrationRange, RemoveRange
    <2> HIDE DEF K
    <2> QED BY <2>1, <2>2, RemoveEdgesDriven
  <1>12. ASSUME NEW k \in Kinds, DeleteWholeKind(k)
         PROVE  Driven(reg')
    BY <1>12, DeleteKindDriven DEF DeleteWholeKind
  <1>13. ASSUME NEW e \in EdgeIds, NEW h \in Hooks, AddHookTo(e, h)
         PROVE  Driven(reg')
    BY <1>13, AddHookDriven DEF AddHookTo, HasExecutable
  <1>14. ASSUME NEW e \in EdgeIds, NEW h \in Hooks, RemoveHookFrom(e, h)
         PROVE  Driven(reg')
    BY <1>14, RemoveHookDriven DEF RemoveHookFrom
  <1>15. ASSUME NEW e \in EdgeIds, RemoveHooksOf(e)
         PROVE  Driven(reg')
    <2>1. {e} \in SUBSET EdgeIds
      OBVIOUS
    <2>2. Driven(ClearHooks(reg, {e})) /\ Driven(RefreshKey(ClearHooks(reg, {e}), e, "key"))
      BY <2>1, ClearHooksDriven
    <2> QED BY <1>15, <2>2 DEF RemoveHooksOf
  <1>16. CASE ClearAllHooks
    BY <1>16, ClearHooksDriven DEF ClearAllHooks
  <1>17. ASSUME NEW h \in Hooks, AttachHook(h)
         PROVE  Driven(reg')
    <2> DEFINE K == {e \in EdgeIds : HasExecutable(reg, e) /\ Kind(e.source) \in reg.buckets}
    <2>1. K \in SUBSET EdgeIds /\ \A e \in K : IsExecutable(reg.edges[e])
      BY DEF HasExecutable
    <2>2. reg' = AddHooks(reg, K, h)
      BY <1>17 DEF AttachHook
    <2> HIDE DEF K
    <2> QED BY <2>1, <2>2, AddHooksDriven
  <1> QED
    BY <1>1, <1>2, <1>3, <1>4, <1>5, <1>6, <1>7, <1>8, <1>9, <1>10, <1>11, <1>12,
       <1>13, <1>14, <1>15, <1>16, <1>17
    DEF Next

\* The engine's registry is driven from the start on.
LEMMA DrivenHolds == Spec => []Driven(reg)
  <1>1. Init => Driven(reg)
    BY EmptyDriven DEF Init
  <1>2. Driven(reg) /\ [Next]_vars => Driven(reg)'
    BY StepDriven
  <1> QED BY <1>1, <1>2, PTL DEF Spec

\* Every edge is bound to exactly the models registered under its endpoints.
THEOREM EdgesBindModels == Spec => []EdgesBindModelsInvariant
  <1>1. Driven(reg) => EdgesBindModelsInvariant
    BY DEF Driven, EdgesBindModelsInvariant
  <1> QED BY <1>1, DrivenHolds, PTL

\* The reference index and the cached reference findings are exact for every entry,
\* although each call refreshes only what _affected_by_node_change names.
THEOREM ReferencesExact == Spec => []ReferencesInvariant
  <1>1. Driven(reg) => ReferencesInvariant
    BY DEF Driven, ReferencesInvariant
  <1> QED BY <1>1, DrivenHolds, PTL

\* Hook lists sit on executable edges and are never empty.
THEOREM HooksSitOnEdges == Spec => []HooksInvariant
  <1>1. Driven(reg) => HooksInvariant
    BY DEF Driven, HooksInvariant
  <1> QED BY <1>1, DrivenHolds, PTL

-----------------------------------------------------------------------------
(***************************************************************************)
(* The refinement of the catalog.  Soundness of the indexes turns each     *)
(* guard of the code into the promise of the abstract action.              *)
(***************************************************************************)

\* An edge of a driven registry wants its endpoints, and only them, to hold the
\* models it embeds.
LEMMA EndFacts ==
    ASSUME NEW S, Driven(S), NEW e \in EdgeIds
    PROVE  /\ S.edges[e] # NoEdge <=> IsExecutable(S.edges[e])
           /\ S.edges[e] # NoEdge => \A n \in Nodes :
                 EndOf(e, S.edges[e], n) # "any" <=> n \in Ends(e)
  <1>1. ~IsStored(NoEdge)
    BY DEF NoEdge, IsStored
  <1>2. S.edges[e] # NoEdge <=> IsExecutable(S.edges[e])
    BY <1>1, DrivenFacts
  <1>3. ASSUME S.edges[e] # NoEdge
        PROVE  S.edges[e].source \in Models /\ S.edges[e].target \in Models
    BY <1>3, DrivenFacts DEF Driven, EdgesBindStoredModels, IsHydrated
  <1> QED BY <1>2, <1>3, EngineAssumption DEF EndOf, Ends

\* store_model, reconstruct and store of a placeholder put an entry.
LEMMA PutStep ==
    ASSUME Driven(reg), NEW n \in Nodes, NEW o \in {"key"} \cup Models,
           reg.nodes[n] \in {"absent", "key"}, o # reg.nodes[n],
           reg'.nodes = [reg.nodes EXCEPT ![n] = o],
           reg'.edges = reg.edges, reg'.hookKeys = reg.hookKeys
    PROVE  Abstract!CNext
  BY DEF Abstract!CNext, Abstract!Put

\* Calls that change only hooks leave them on bound edges.
LEMMA HookStep ==
    ASSUME Driven(reg'), reg'.nodes = reg.nodes, reg'.edges = reg.edges
    PROVE  Abstract!CNext
  <1>1. reg'.hookKeys \in SUBSET EdgeIds
    BY DrivenFacts DEF Registries
  <1>2. \A e \in reg'.hookKeys : reg.edges[e] # NoEdge
    <2>1. \A e \in reg'.hookKeys : IsExecutable(reg'.edges[e])
      BY DEF Driven, HooksOnExecutableEdges
    <2> QED BY <1>1, <2>1, EndFacts
  <1>3. Abstract!Hook(reg'.hookKeys)
    BY <1>2 DEF Abstract!Hook
  <1> QED BY <1>1, <1>3 DEF Abstract!CNext

\* Every call of the engine is a step of the catalog or leaves it as it is.
LEMMA StepRefines ==
    ASSUME Driven(reg), [Next]_vars
    PROVE  [Abstract!CNext]_(Abstract!cvars)
  <1> DEFINE Same == reg'.nodes = reg.nodes /\ reg'.edges = reg.edges /\ reg'.hookKeys = reg.hookKeys
             Refines == Abstract!CNext \/ Same
  <1>1. Driven(reg')
    BY StepDriven
  <1>2. ASSUME UNCHANGED vars
        PROVE  Refines
    BY <1>2 DEF vars
  <1>3. ASSUME NEW m \in Models, StoreModel(m)
        PROVE  Refines
    <2> DEFINE n == NodeOf[m]
    <2>1. /\ reg'.edges = reg.edges /\ reg'.hookKeys = reg.hookKeys
          /\ reg'.nodes = IF reg.nodes[n] \in {"absent", "key"}
                          THEN [reg.nodes EXCEPT ![n] = m] ELSE reg.nodes
      BY <1>3, HydrateSound DEF StoreModel, Driven
    <2>2. n \in Nodes /\ m \notin {"absent", "key"}
      BY ModelsAssumption
    <2> HIDE DEF n
    <2>3. CASE reg.nodes[n] \in {"absent", "key"}
      BY <2>1, <2>2, <2>3, PutStep
    <2> QED BY <2>1, <2>3
  <1>4. ASSUME NEW m \in Models, ReconcileModel(m)
        PROVE  Refines
    <2> DEFINE n == NodeOf[m]
    <2>1. /\ reg'.edges = reg.edges /\ reg'.hookKeys = reg.hookKeys
          /\ reg'.nodes = IF HasEntry(reg, n) THEN reg.nodes
                          ELSE [reg.nodes EXCEPT ![n] = m]
      BY <1>4, ReconcileSound DEF ReconcileModel, Driven
    <2>2. n \in Nodes /\ m \notin {"absent", "key"}
      BY ModelsAssumption
    <2> HIDE DEF n
    <2>3. CASE ~HasEntry(reg, n)
      BY <2>1, <2>2, <2>3, PutStep DEF HasEntry
    <2> QED BY <2>1, <2>3
  <1>5. ASSUME NEW n \in Nodes, NEW o \in {"key"} \cup {m \in Models : NodeOf[m] = n},
               CanStore(reg, n), reg' = StoreEntry(reg, n, o)
        PROVE  Refines
    <2>1. /\ reg'.edges = reg.edges /\ reg'.hookKeys = reg.hookKeys
          /\ reg'.nodes = [reg.nodes EXCEPT ![n] = o]
      BY <1>5, StoreEntrySound DEF Driven
    <2>2. reg.nodes[n] = "absent" /\ o # "absent" /\ o \in {"key"} \cup Models
      BY <1>5, ModelsAssumption DEF CanStore, HasEntry
    <2> QED BY <2>1, <2>2, PutStep
  <1>6. ASSUME NEW n \in Nodes, RemoveModelOf(n)
        PROVE  Refines
    <2>1. /\ reg'.edges = reg.edges /\ reg'.hookKeys = reg.hookKeys
          /\ reg'.nodes = [m \in Nodes |-> IF m \in {n} THEN "absent" ELSE reg.nodes[m]]
      BY <1>6, RemoveEntriesSound DEF RemoveModelOf, RemoveModel, Driven
    <2>2. reg'.nodes = [reg.nodes EXCEPT ![n] = "absent"]
      BY <2>1, DrivenFacts
    <2>3. \A e \in EdgeIds : IsExecutable(reg.edges[e]) => n \notin Ends(e)
      BY <1>6, RemoveModelDriven DEF RemoveModelOf
    <2>4. \A e \in EdgeIds : reg.edges[e] # NoEdge => EndOf(e, reg.edges[e], n) = "any"
      BY <2>3, EndFacts
    <2>5. Abstract!Drop(n)
      BY <2>1, <2>2, <2>4 DEF Abstract!Drop
    <2> QED BY <2>5 DEF Abstract!CNext
  <1>7. ASSUME NEW m \in Models, RemoveModelByClass(m)
        PROVE  Refines
    <2>1. RefOf[m] \in ModelRefs
      BY DEF ModelRefs
    <2>2. reg.models[RefOf[m]] \in Models
      BY <1>7, <2>1, DrivenFacts DEF RemoveModelByClass, Registries
    <2>3. NodeOf[reg.models[RefOf[m]]] \in Nodes
      BY <2>2, ModelsAssumption
    <2> QED BY <1>6, <1>7, <2>3 DEF RemoveModelByClass
  <1>8. ASSUME NEW e \in EdgeIds, NEW f \in Funcs, NEW T, Driven(T), CanStoreSpec(T, e, f),
               reg' = StoreEdge(T, BuildEdge(T, e, f)),
               T.edges = reg.edges, T.hookKeys = reg.hookKeys,
               \/ T.nodes = reg.nodes
               \/ \E n \in Nodes, c \in {"key"} \cup Models :
                     reg.nodes[n] = "absent" /\ T.nodes = [reg.nodes EXCEPT ![n] = c]
        PROVE  Abstract!CNext \/ reg' = T
    <2> DEFINE o == BuildEdge(T, e, f)
    <2>1. /\ o \in EdgesOf(e)
          /\ reg'.nodes = T.nodes /\ reg'.hookKeys = T.hookKeys
          /\ reg' = T \/ (T.edges[e] = NoEdge /\ reg'.edges = [T.edges EXCEPT ![e] = o])
      BY <1>8, StoreSpecDriven DEF EdgesOf
    <2>2. CASE reg' # T
      <3>1. reg.edges[e] = NoEdge /\ reg'.edges = [reg.edges EXCEPT ![e] = o]
        BY <1>8, <2>1, <2>2
      <3>2. Abstract!Fits(reg'.nodes, e, o)
        <4>1. o.source = T.nodes[e.source] /\ o.target = T.nodes[e.target]
          BY DEF BuildEdge
        <4> QED BY <2>1, <4>1 DEF Abstract!Fits, EndOf
      <3> HIDE DEF o
      <3>3. \/ reg'.nodes = reg.nodes
            \/ \E n \in Nodes, c \in {"key"} \cup Models :
                  reg.nodes[n] = "absent" /\ reg'.nodes = [reg.nodes EXCEPT ![n] = c]
        BY <1>8, <2>1
      <3>4. Abstract!Bind(e, o)
        BY <1>8, <2>1, <3>1, <3>2, <3>3 DEF Abstract!Bind
      <3> QED BY <2>1, <3>4 DEF Abstract!CNext
    <2> QED BY <2>2
  <1>9. ASSUME NEW e \in EdgeIds, NEW f \in Funcs, StoreMigration(e, f)
        PROVE  Refines
    BY <1>8, <1>9 DEF StoreMigration
  <1>10. ASSUME NEW e \in EdgeIds, NEW f \in Funcs, NEW m \in Models,
                StoreMigrationReflecting(e, f, m)
         PROVE  Refines
    <2> DEFINE n == NodeOf[m]
               T == StoreEntry(reg, n, m)
    <2>1. /\ n \in Nodes /\ CanStore(reg, n)
          /\ m \in {"key"} \cup {l \in Models : NodeOf[l] = n}
      BY <1>10, ModelsAssumption DEF StoreMigrationReflecting, CanReflect
    <2>2. reg' = IF CanStoreSpec(T, e, f) THEN StoreEdge(T, BuildEdge(T, e, f)) ELSE T
      BY <1>10 DEF StoreMigrationReflecting
    <2> HIDE DEF n
    <2>3. Driven(T)
      BY <2>1, StoreEntryDriven
    <2>4. /\ T.edges = reg.edges /\ T.hookKeys = reg.hookKeys
          /\ T.nodes = [reg.nodes EXCEPT ![n] = m] /\ reg.nodes[n] = "absent"
      BY <2>1, StoreEntrySound DEF Driven, CanStore, HasEntry
    <2>5. reg' = T => Refines
      BY <1>5, <2>1
    <2> HIDE DEF T
    <2>6. CASE CanStoreSpec(T, e, f)
      BY <1>8, <2>1, <2>2, <2>3, <2>4, <2>5, <2>6
    <2> QED BY <2>2, <2>5, <2>6
  <1>11. ASSUME NEW K \in SUBSET EdgeIds, reg' = RemoveEdges(reg, K),
                \A e \in K : IsExecutable(reg.edges[e]) /\ e \notin reg.hookKeys
         PROVE  Refines
    <2>1. \A e \in K : IsStored(reg.edges[e])
      BY <1>11, DrivenFacts
    <2>2. /\ reg'.nodes = reg.nodes /\ reg'.hookKeys = reg.hookKeys
          /\ reg'.edges = [e \in EdgeIds |-> IF e \in K THEN NoEdge ELSE reg.edges[e]]
      BY <1>11, <2>1, RemoveEdgesSound DEF Driven
    <2>3. K \cap reg.hookKeys = {}
      BY <1>11
    <2>4. Abstract!Unbind(K)
      BY <2>2, <2>3 DEF Abstract!Unbind
    <2> QED BY <2>4 DEF Abstract!CNext
  <1>12. ASSUME NEW e \in EdgeIds, NEW force \in BOOLEAN, RemoveMigration(e, force)
         PROVE  Refines
    <2>1. /\ {e} \in SUBSET EdgeIds /\ reg' = RemoveEdges(reg, {e})
          /\ \A f \in {e} : IsExecutable(reg.edges[f]) /\ f \notin reg.hookKeys
      BY <1>12 DEF RemoveMigration, HasExecutable, CanRemoveMigration
    <2> QED BY <1>11, <2>1
  <1>13. ASSUME NEW lo \in Nodes, NEW hi \in Nodes, RemoveMigrationRange(lo, hi)
         PROVE  Refines
    <2> DEFINE K == RangeEdges(reg, lo, hi)
    <2>1. /\ K \in SUBSET EdgeIds /\ reg' = RemoveEdges(reg, K)
          /\ \A e \in K : IsExecutable(reg.edges[e]) /\ e \notin reg.hookKeys
      BY <1>13
      DEF RemoveMigrationRange, RemoveRange, CanRemoveRange, RangeEdges, HasExecutable
    <2> HIDE DEF K
    <2> QED BY <1>11, <2>1
  <1>14. ASSUME NEW k \in Kinds, DeleteWholeKind(k)
         PROVE  Refines
    <2> DEFINE K == KindEdges(reg, k)
               N == KindVersions(reg, k)
    <2>1. DeleteKindRemoves(reg, reg', K, N)
      BY <1>14, DeleteKindSound DEF DeleteWholeKind, Driven
    <2> HIDE DEF K, N
    <2>2. /\ reg'.nodes = [n \in Nodes |-> IF n \in N THEN "absent" ELSE reg.nodes[n]]
          /\ reg'.edges = [e \in EdgeIds |-> IF e \in K THEN NoEdge ELSE reg.edges[e]]
          /\ reg'.hookKeys = reg.hookKeys \ K /\ N \in SUBSET Nodes
          /\ K = {e \in EdgeIds : IsExecutable(reg.edges[e]) /\ Ends(e) \cap N # {}}
      BY <2>1 DEF DeleteKindRemoves
    <2>3. \A e \in EdgeIds, n \in N :
             reg.edges[e] # NoEdge /\ EndOf(e, reg.edges[e], n) # "any" => e \in K
      BY <2>2, EndFacts
    <2>4. \A e \in K : /\ reg.edges[e] # NoEdge
                       /\ \E n \in N : EndOf(e, reg.edges[e], n) # "any"
      BY <2>2, EndFacts
    <2>5. Abstract!Purge(N, K)
      BY <2>2, <2>3, <2>4 DEF Abstract!Purge
    <2> QED BY <2>2, <2>5 DEF Abstract!CNext
  <1>15. ASSUME reg'.nodes = reg.nodes, reg'.edges = reg.edges
         PROVE  Refines
    BY <1>1, <1>15, HookStep
  <1>16. ASSUME NEW e \in EdgeIds, NEW h \in Hooks, AddHookTo(e, h)
         PROVE  Refines
    <2>1. reg' = AddHook(reg, e, h, "key") /\ Sound(reg)
      BY <1>16 DEF AddHookTo, Driven
    <2>2. reg'.nodes = reg.nodes /\ reg'.edges = reg.edges
      BY <2>1, AddHookSound DEF HooksMove
    <2> QED BY <1>15, <2>2
  <1>17. ASSUME NEW e \in EdgeIds, NEW h \in Hooks, RemoveHookFrom(e, h)
         PROVE  Refines
    <2>1. CanRemoveHook(reg, e, h) /\ reg' = RemoveHook(reg, e, h, "key") /\ Sound(reg)
      BY <1>17 DEF RemoveHookFrom, Driven
    <2>2. reg'.nodes = reg.nodes /\ reg'.edges = reg.edges
      BY <2>1, RemoveHookSound DEF HooksMove
    <2> QED BY <1>15, <2>2
  <1>18. ASSUME NEW e \in EdgeIds, RemoveHooksOf(e)
         PROVE  Refines
    <2> DEFINE C == ClearHooks(reg, {e})
    <2>0. {e} \in SUBSET EdgeIds /\ Sound(reg)
      BY DEF Driven
    <2>1. SameButHooks(C, reg)
      BY <2>0, ClearHooksSound
    <2>2. SameStores(RefreshKey(C, e, "key"), C)
      BY <2>0, ClearHooksDriven
    <2> HIDE DEF C
    <2>3. reg' = C \/ reg' = RefreshKey(C, e, "key")
      BY <1>18 DEF RemoveHooksOf, C
    <2> QED BY <1>15, <2>1, <2>2, <2>3 DEF SameStores, SameButHooks
  <1>19. ASSUME ClearAllHooks
         PROVE  Refines
    <2>1. SameButHooks(reg', reg)
      <3>1. Sound(reg) /\ EdgeIds \in SUBSET EdgeIds
        BY DEF Driven
      <3> QED BY <1>19, <3>1, ClearHooksSound DEF ClearAllHooks
    <2> QED BY <1>15, <2>1 DEF SameButHooks
  <1>20. ASSUME NEW h \in Hooks, AttachHook(h)
         PROVE  Refines
    <2> DEFINE K == {e \in EdgeIds : HasExecutable(reg, e) /\ Kind(e.source) \in reg.buckets}
    <2>1. K \in SUBSET EdgeIds /\ reg' = AddHooks(reg, K, h)
      BY <1>20 DEF AttachHook
    <2> HIDE DEF K
    <2>2. HooksAdded(reg, reg', K, h)
      BY <2>1, AddHooksSound DEF Driven
    <2> QED BY <1>15, <2>2 DEF HooksAdded
  <1>21. ASSUME NEW m \in Models, Reconstruct(m)
         PROVE  Refines
    <2> DEFINE n == NodeOf[m]
    <2>1. n \in Nodes /\ m \in {"key"} \cup {l \in Models : NodeOf[l] = n}
      BY ModelsAssumption
    <2>2. CanStore(reg, n) /\ reg' = StoreEntry(reg, n, m)
      BY <1>21 DEF Reconstruct
    <2> HIDE DEF n
    <2> QED BY <1>5, <2>1, <2>2
  <1>22. ASSUME NEW n \in Nodes, StoreKey(n)
         PROVE  Refines
    BY <1>5, <1>22 DEF StoreKey
  <1> HIDE DEF Refines
  <1>23. Refines
    BY <1>2, <1>3, <1>4, <1>6, <1>7, <1>9, <1>10, <1>12, <1>13, <1>14, <1>16, <1>17,
       <1>18, <1>19, <1>20, <1>21, <1>22
    DEF Next
  <1> QED BY <1>23 DEF Refines, Abstract!cvars

\* The engine's registry, with its indexes and caches, implements the catalog: an
\* edge joins registered models and keeps them, hooks keep their edge, content is
\* written once.
THEOREM EngineImplementsCatalog == Spec => ImplementsCatalog
  <1>1. Init => Abstract!CInit
    BY DEF Init, EmptyRegistry, Abstract!CInit
  <1>2. Driven(reg) /\ [Next]_vars => [Abstract!CNext]_(Abstract!cvars)
    BY StepRefines
  <1> QED BY <1>1, <1>2, DrivenHolds, PTL DEF Spec, ImplementsCatalog, Abstract!CSpec
=============================================================================
