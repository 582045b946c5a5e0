------------------------- MODULE PublicationProofs -------------------------
(***************************************************************************)
(* The registry, the graphs built from it and their publication, for all   *)
(* sets of nodes, models, edges and hooks and all publishers and bounds.   *)
(*                                                                         *)
(* The registry's inductive invariant is that every index agrees with the  *)
(* stores and that executable edges have both endpoints: the guard of      *)
(* remove_model reads the incidence index, that of clear_models the        *)
(* buckets, so neither half is inductive without the other.  A graph is    *)
(* read off the secondary indexes, so what it answers follows from that    *)
(* invariant; a revision only covers the digests, so that it pins what     *)
(* planning reads is a matter of what can be recovered from them.          *)
(***************************************************************************)
EXTENDS Publication, RegistryOpsProofs, FiniteSetTheorems

-----------------------------------------------------------------------------
(* The registry by itself. *)

Inv == Sound(reg) /\ ExecutableEndsRegistered(reg)

\* What every step of the registry owes, as a fact about a next registry T.
Good(S, T) == Sound(T) /\ ExecutableEndsRegistered(T) /\ ContentKept(S, T)

\* A change of nodes that keeps every entry (filling placeholders included)
\* and every edge.
LEMMA NodesGrow ==
    ASSUME NEW S, Sound(S), ExecutableEndsRegistered(S), NEW T, Sound(T),
           NEW n \in Nodes, ~IsHydrated(S, n), NEW o \in {"key"} \cup Models,
           T.nodes = [S.nodes EXCEPT ![n] = o], T.edges = S.edges
    PROVE  Good(S, T)
  <1>1. S.nodes \in [Nodes -> {"absent", "key"} \cup Models]
    BY DEF Sound, Registries
  <1>2. ExecutableEndsRegistered(T)
    BY <1>1, ModelsAssumption DEF ExecutableEndsRegistered, HasEntry
  <1>3. ContentKept(S, T)
    BY <1>1 DEF ContentKept, IsHydrated
  <1> QED BY <1>2, <1>3 DEF Good

\* A change that touches neither nodes nor edges.
LEMMA NothingMoves ==
    ASSUME NEW S, ExecutableEndsRegistered(S), NEW T, Sound(T),
           T.nodes = S.nodes, T.edges = S.edges
    PROVE  Good(S, T)
  BY DEF Good, ExecutableEndsRegistered, ContentKept, HasEntry, IsHydrated

\* Edges disappear, nodes stay.
LEMMA EdgesGo ==
    ASSUME NEW S, ExecutableEndsRegistered(S), NEW T, Sound(T), NEW K \in SUBSET EdgeIds,
           T.nodes = S.nodes,
           T.edges = [e \in EdgeIds |-> IF e \in K THEN NoEdge ELSE S.edges[e]]
    PROVE  Good(S, T)
  <1>1. ~IsExecutable(NoEdge)
    BY EdgesAssumption DEF NoEdge, IsExecutable
  <1> QED
    BY <1>1 DEF Good, ExecutableEndsRegistered, ContentKept, HasEntry, IsHydrated

\* Nodes without executable edges disappear, together with edges K.
LEMMA NodesGo ==
    ASSUME NEW S, Sound(S), ExecutableEndsRegistered(S), NEW T, Sound(T),
           NEW N \in SUBSET Nodes, NEW K \in SUBSET EdgeIds,
           \A e \in EdgeIds \ K : IsExecutable(S.edges[e]) => Ends(e) \cap N = {},
           T.nodes = [n \in Nodes |-> IF n \in N THEN "absent" ELSE S.nodes[n]],
           T.edges = [e \in EdgeIds |-> IF e \in K THEN NoEdge ELSE S.edges[e]]
    PROVE  Good(S, T)
  <1>1. ~IsExecutable(NoEdge)
    BY EdgesAssumption DEF NoEdge, IsExecutable
  <1>2. ExecutableEndsRegistered(T)
    BY <1>1 DEF ExecutableEndsRegistered, HasEntry
  <1>3. ContentKept(S, T)
    BY DEF ContentKept
  <1> QED BY <1>2, <1>3 DEF Good

\* store_migration binds an edge whose endpoints are registered.
LEMMA EdgeComes ==
    ASSUME NEW S, Sound(S), ExecutableEndsRegistered(S), NEW o \in EdgeObjects,
           CanStoreEdge(S, o)
    PROVE  Good(S, StoreEdge(S, o))
  <1> DEFINE T == StoreEdge(S, o)
  <1>1. Sound(T) /\ T.nodes = S.nodes
    BY StoreEdgeSound
  <1>2. CASE T = S
    BY <1>1, <1>2, NothingMoves
  <1>3. CASE /\ ~IsExecutable(S.edges[o.id])
             /\ T.edges = [S.edges EXCEPT ![o.id] = o]
    <2>1. S.edges \in [EdgeIds -> EdgeObjects \cup {NoEdge}] /\ o.id \in EdgeIds
      BY DEF Sound, Registries, EdgeObjects
    <2> HIDE DEF T
    <2>2. ExecutableEndsRegistered(T)
      BY <1>1, <1>3, <2>1 DEF ExecutableEndsRegistered, CanStoreEdge, HasEntry
    <2>3. ContentKept(S, T)
      BY <1>1, <1>3, <2>1 DEF ContentKept
    <2> QED BY <1>1, <2>2, <2>3 DEF Good, T
  <1> QED BY <1>2, <1>3, StoreEdgeSound

\* The executable edge built for a specification joins stored models.
LEMMA BuildEdgeType ==
    ASSUME NEW S, Sound(S), NEW e \in EdgeIds, NEW f \in Funcs, Unhydrated(S, e) = {}
    PROVE  BuildEdge(S, e, f) \in EdgeObjects
  <1>1. e.source \in Nodes /\ e.target \in Nodes
    BY EdgesAssumption
  <1>2. S.nodes[e.source] \in Models /\ S.nodes[e.target] \in Models
    BY <1>1 DEF Unhydrated, Ends, IsHydrated
  <1> QED BY <1>2 DEF BuildEdge, EdgeObjects, NodeObjects

\* Every step keeps the indexes and the endpoints of executable edges, and
\* replaces no content in place.
LEMMA StepGood ==
    ASSUME Inv, [Next]_vars
    PROVE  Good(reg, reg')
  <1> USE DEF Inv
  <1>1. CASE UNCHANGED vars
    BY <1>1, NothingMoves DEF vars
  <1>2. ASSUME NEW n \in Nodes, Store(n)
        PROVE  Good(reg, reg')
    <2>1. PICK o \in {"key"} \cup {m \in Models : NodeOf[m] = n} :
             CanStore(reg, n) /\ reg' = StoreEntry(reg, n, o)
      BY <1>2, ModelsAssumption DEF Store, ObjectsFor
    <2>2. ~IsHydrated(reg, n)
      BY <2>1, ModelsAssumption DEF CanStore, HasEntry, IsHydrated
    <2>3. Sound(reg') /\ reg'.nodes = [reg.nodes EXCEPT ![n] = o] /\ reg'.edges = reg.edges
      BY <2>1, StoreEntrySound
    <2> QED BY <2>2, <2>3, NodesGrow
  <1>3. ASSUME NEW n \in Nodes, RemoveModelOf(n)
        PROVE  Good(reg, reg')
    <2>1. \A e \in EdgeIds : IsExecutable(reg.edges[e]) => Ends(e) \cap {n} = {}
      BY <1>3, MigrationsOfExact DEF RemoveModelOf, CanRemoveModel
    <2>2. reg.edges \in [EdgeIds -> EdgeObjects \cup {NoEdge}]
      BY DEF Sound, Registries
    <2>3. /\ Sound(reg')
          /\ reg'.nodes = [m \in Nodes |-> IF m \in {n} THEN "absent" ELSE reg.nodes[m]]
          /\ reg'.edges = reg.edges
      BY <1>3, RemoveEntriesSound DEF RemoveModelOf, RemoveModel
    <2>4. reg'.edges = [e \in EdgeIds |-> IF e \in {} THEN NoEdge ELSE reg.edges[e]]
      BY <2>2, <2>3
    <2>5. \A e \in EdgeIds \ {} : IsExecutable(reg.edges[e]) => Ends(e) \cap {n} = {}
      BY <2>1
    <2>6. {n} \in SUBSET Nodes /\ {} \in SUBSET EdgeIds
      OBVIOUS
    <2> QED BY ZenonT(40), <2>3, <2>4, <2>5, <2>6, NodesGo
  <1>4. ASSUME NEW m \in Models, HydrateModel(m)
        PROVE  Good(reg, reg')
    <2>1. NodeOf[m] \in Nodes
      BY ModelsAssumption
    <2>4. /\ Sound(reg') /\ reg'.edges = reg.edges
          /\ reg'.nodes = IF reg.nodes[NodeOf[m]] \in {"absent", "key"}
                          THEN [reg.nodes EXCEPT ![NodeOf[m]] = m] ELSE reg.nodes
      BY <1>4, HydrateSound DEF HydrateModel
    <2>2. CASE reg.nodes[NodeOf[m]] \in {"absent", "key"}
      <3>1. ~IsHydrated(reg, NodeOf[m])
        BY <2>2, ModelsAssumption DEF IsHydrated
      <3>2. reg'.nodes = [reg.nodes EXCEPT ![NodeOf[m]] = m]
        BY <2>2, <2>4
      <3> QED BY <2>1, <2>4, <3>1, <3>2, NodesGrow
    <2>3. CASE reg.nodes[NodeOf[m]] \notin {"absent", "key"}
      <3>1. reg'.nodes = reg.nodes
        BY <2>3, <2>4
      <3> QED BY <2>4, <3>1, NothingMoves
    <2> QED BY <2>2, <2>3
  <1>5. ASSUME NEW m \in Models, ReconcileModel(m)
        PROVE  Good(reg, reg')
    <2>1. NodeOf[m] \in Nodes
      BY ModelsAssumption
    <2>2. CASE HasEntry(reg, NodeOf[m])
      BY <1>5, <2>2, ReconcileSound, NothingMoves DEF ReconcileModel
    <2>3. CASE ~HasEntry(reg, NodeOf[m])
      <3>1. ~IsHydrated(reg, NodeOf[m])
        BY <2>1, <2>3, ModelsAssumption DEF IsHydrated, HasEntry
      <3>2. /\ Sound(reg') /\ reg'.edges = reg.edges
            /\ reg'.nodes = [reg.nodes EXCEPT ![NodeOf[m]] = m]
        BY <1>5, <2>3, ReconcileSound DEF ReconcileModel
      <3> QED BY <2>1, <3>1, <3>2, NodesGrow
    <2> QED BY <2>2, <2>3
  <1>6. ASSUME NEW r \in ModelRefs, RemoveModelByRef(r)
        PROVE  Good(reg, reg')
    <2>1. NodeOf[reg.models[r]] \in Nodes
      BY <1>6, ModelsAssumption DEF RemoveModelByRef, Sound, Registries
    <2> QED BY <1>3, <1>6, <2>1 DEF RemoveModelByRef
  <1>7. ASSUME NEW k \in Kinds, DeleteWholeKind(k)
        PROVE  Good(reg, reg')
    <2> DEFINE K == KindEdges(reg, k)
               N == KindVersions(reg, k)
    <2>0. DeleteKindRemoves(reg, reg', K, N)
      BY <1>7, DeleteKindSound DEF DeleteWholeKind
    <2> HIDE DEF K, N
    <2>1. /\ Sound(reg')
          /\ reg'.nodes = [n \in Nodes |-> IF n \in N THEN "absent" ELSE reg.nodes[n]]
          /\ reg'.edges = [e \in EdgeIds |-> IF e \in K THEN NoEdge ELSE reg.edges[e]]
          /\ N \in SUBSET Nodes
          /\ K = {e \in EdgeIds : IsExecutable(reg.edges[e]) /\ Ends(e) \cap N # {}}
      BY <2>0 DEF DeleteKindRemoves
    <2> QED BY <2>1, NodesGo
  <1>8. CASE ClearAllModels
    <2>1. /\ Sound(reg') /\ reg'.nodes = [n \in Nodes |-> "absent"] /\ reg'.edges = reg.edges
          /\ \A e \in EdgeIds : ~IsExecutable(reg.edges[e])
      BY <1>8, ClearModelsSound DEF ClearAllModels
    <2> QED BY <2>1 DEF Good, ExecutableEndsRegistered, ContentKept
  <1>9. ASSUME NEW e \in EdgeIds, NEW f \in Funcs, StoreMigrationSpec(e, f)
        PROVE  Good(reg, reg')
    BY <1>9, BuildEdgeType, EdgeComes DEF StoreMigrationSpec, CanStoreSpec
  <1>10. ASSUME NEW e \in EdgeIds, NEW f \in Funcs, NEW m \in Models,
                StoreMigrationReflecting(e, f, m)
         PROVE  Good(reg, reg')
    <2> DEFINE n == NodeOf[m]
               T == StoreEntry(reg, n, m)
    <2>1. n \in Nodes /\ CanStore(reg, n) /\ ~IsHydrated(reg, n)
      BY <1>10, ModelsAssumption
      DEF StoreMigrationReflecting, CanReflect, CanStore, HasEntry, IsHydrated
    <2>2. m \in {"key"} \cup {l \in Models : NodeOf[l] = n}
      OBVIOUS
    <2>3. reg' = IF CanStoreSpec(T, e, f) THEN StoreEdge(T, BuildEdge(T, e, f)) ELSE T
      BY <1>10 DEF StoreMigrationReflecting
    <2> HIDE DEF n
    <2>4. Sound(T) /\ T.nodes = [reg.nodes EXCEPT ![n] = m] /\ T.edges = reg.edges
      BY <2>1, <2>2, StoreEntrySound
    <2>5. Good(reg, T)
      BY <2>1, <2>4, NodesGrow
    <2>6. CASE ~CanStoreSpec(T, e, f)
      BY <2>3, <2>5, <2>6
    <2>7. CASE CanStoreSpec(T, e, f)
      <3>1. Good(T, reg')
        BY <2>3, <2>5, <2>7, BuildEdgeType, EdgeComes DEF CanStoreSpec, Good
      <3>2. reg'.nodes = T.nodes
        BY <2>3, <2>4, <2>7, BuildEdgeType, StoreEdgeSound DEF CanStoreSpec
      <3> HIDE DEF T
      <3>3. ContentKept(reg, reg')
        BY <2>4, <2>5, <3>1, <3>2 DEF Good, ContentKept, IsHydrated
      <3> QED BY <3>1, <3>3 DEF Good
    <2> QED BY <2>6, <2>7
  <1>11. ASSUME NEW o \in EdgeEntries, StoreMigrationEdge(o)
         PROVE  Good(reg, reg')
    BY <1>11, RegistryAssumption, EdgeComes DEF StoreMigrationEdge
  <1>12. ASSUME NEW e \in EdgeIds, RemoveMigration(e)
         PROVE  Good(reg, reg')
    <2>1. CASE IsStored(reg.edges[e]) /\ reg' = RemoveEdges(reg, {e})
      <3>1. {e} \in SUBSET EdgeIds /\ \A f \in {e} : IsStored(reg.edges[f])
        BY <2>1
      <3>2. /\ Sound(reg') /\ reg'.nodes = reg.nodes
            /\ reg'.edges = [f \in EdgeIds |-> IF f \in {e} THEN NoEdge ELSE reg.edges[f]]
        BY <2>1, <3>1, RemoveEdgesSound
      <3> QED BY <3>1, <3>2, EdgesGo
    <2>2. ASSUME NEW src \in ObjectsFor(e.source), NEW tgt \in ObjectsFor(e.target),
                 NEW o \in KeyObjects,
                 ~IsStored(reg.edges[e]), reg' = RemoveUnknown(reg, e, src, tgt, o)
          PROVE  Good(reg, reg')
      <3>1. src \in NodeObjects /\ tgt \in NodeObjects
        BY DEF ObjectsFor, NodeObjects
      <3> QED BY <2>2, <3>1, RemoveUnknownSound, NothingMoves
    <2> QED BY <1>12, <2>1, <2>2 DEF RemoveMigration
  <1>13. ASSUME NEW lo \in Nodes, NEW hi \in Nodes, RemoveMigrationRange(lo, hi)
         PROVE  Good(reg, reg')
    <2> DEFINE K == RangeEdges(reg, lo, hi)
    <2>1. K \in SUBSET EdgeIds /\ \A e \in K : IsStored(reg.edges[e])
      BY EdgesAssumption DEF RangeEdges, HasExecutable, IsExecutable, IsStored
    <2>2. reg' = RemoveEdges(reg, K)
      BY <1>13 DEF RemoveMigrationRange, RemoveRange
    <2> HIDE DEF K
    <2>3. /\ Sound(reg') /\ reg'.nodes = reg.nodes
          /\ reg'.edges = [e \in EdgeIds |-> IF e \in K THEN NoEdge ELSE reg.edges[e]]
      BY <2>1, <2>2, RemoveEdgesSound
    <2> QED BY <2>1, <2>3, EdgesGo
  <1>14. CASE ClearAllMigrations
    <2>1. reg'.edges = [e \in EdgeIds |-> IF e \in EdgeIds THEN NoEdge ELSE reg.edges[e]]
      BY <1>14, ClearMigrationsSound DEF ClearAllMigrations
    <2> QED BY <1>14, <2>1, ClearMigrationsSound, EdgesGo DEF ClearAllMigrations
  <1>15. ASSUME NEW e \in EdgeIds, NEW h \in Hooks, AddHookTo(e, h) \/ RemoveHookFrom(e, h)
         PROVE  Good(reg, reg')
    <2>1. Sound(reg') /\ reg'.nodes = reg.nodes /\ reg'.edges = reg.edges
      <3>1. CASE AddHookTo(e, h)
        <4>1. HooksMove(reg, reg')
          BY <3>1, AddHookSound DEF AddHookTo
        <4> QED BY <4>1 DEF HooksMove
      <3>2. CASE RemoveHookFrom(e, h)
        BY <3>2, RemoveHookSound DEF RemoveHookFrom, HooksMove
      <3> QED BY <1>15, <3>1, <3>2
    <2> QED BY <2>1, NothingMoves
  <1>16. ASSUME NEW e \in EdgeIds, RemoveHooksOf(e) \/ ClearHooksOf(e) \/ ReadHooksOf(e)
         PROVE  Good(reg, reg')
    <2>1. Sound(ClearHooks(reg, {e})) /\ SameButHooks(ClearHooks(reg, {e}), reg)
      BY ClearHooksSound
    <2>2. CASE RemoveHooksOf(e)
      <3> DEFINE C == ClearHooks(reg, {e})
      <3>1. PICK o : reg' = RefreshKey(C, e, o)
        BY <2>2 DEF RemoveHooksOf
      <3> HIDE DEF C
      <3>2. Sound(reg') /\ SameStores(reg', C)
        BY <2>1, <3>1, KeyRefreshSound DEF C, KeyRefreshed
      <3>3. reg'.nodes = reg.nodes /\ reg'.edges = reg.edges
        BY <2>1, <3>2 DEF SameStores, SameButHooks, C
      <3> QED BY <3>2, <3>3, NothingMoves
    <2>3. CASE ClearHooksOf(e)
      BY <2>1, <2>3, NothingMoves DEF ClearHooksOf, SameButHooks
    <2>4. CASE ReadHooksOf(e)
      BY <2>4, ReadHooksSound, NothingMoves DEF ReadHooksOf
    <2> QED BY <1>16, <2>2, <2>3, <2>4
  <1>17. CASE ClearAllHooks
    BY <1>17, ClearHooksSound, NothingMoves DEF ClearAllHooks, SameButHooks
  <1> QED
    BY <1>1, <1>2, <1>3, <1>4, <1>5, <1>6, <1>7, <1>8, <1>9, <1>10, <1>11, <1>12,
       <1>13, <1>14, <1>15, <1>16, <1>17
    DEF Next

\* Every step refreshes, or rebuilds, the findings of every edge it adds and of every
\* edge at a node it adds or removes, and a hook call that of its own edge at most.
LEMMA StepFindings ==
    ASSUME Sound(reg), [Next]_vars
    PROVE  EdgeFindingsMove(reg, reg')
  <1> USE DEF FindingsFollow
  <1>1. CASE UNCHANGED vars
    BY <1>1 DEF vars, EdgeFindingsMove, FindingKept
  <1>0. ASSUME EdgeFindingsKept(reg, reg')
        PROVE  EdgeFindingsMove(reg, reg')
    BY <1>0 DEF EdgeFindingsKept, EdgeFindingsMove
  <1>2. ASSUME NEW n \in Nodes, Store(n)
        PROVE  EdgeFindingsMove(reg, reg')
    <2>1. PICK o \in {"key"} \cup {m \in Models : NodeOf[m] = n} :
             CanStore(reg, n) /\ reg' = StoreEntry(reg, n, o)
      BY <1>2, ModelsAssumption DEF Store, ObjectsFor
    <2> QED BY <1>0, <2>1, StoreEntrySound
  <1>3. ASSUME NEW n \in Nodes, RemoveModelOf(n)
        PROVE  EdgeFindingsMove(reg, reg')
    BY <1>0, <1>3, RemoveEntriesSound DEF RemoveModelOf, RemoveModel
  <1>4. ASSUME NEW m \in Models, HydrateModel(m) \/ ReconcileModel(m)
        PROVE  EdgeFindingsMove(reg, reg')
    <2>1. CASE HydrateModel(m)
      BY <1>0, <2>1, HydrateSound DEF HydrateModel
    <2>2. CASE ReconcileModel(m)
      BY <1>0, <2>2, ReconcileSound DEF ReconcileModel
    <2> QED BY <1>4, <2>1, <2>2
  <1>5. ASSUME NEW r \in ModelRefs, RemoveModelByRef(r)
        PROVE  EdgeFindingsMove(reg, reg')
    <2>1. NodeOf[reg.models[r]] \in Nodes
      BY <1>0, <1>5, ModelsAssumption DEF RemoveModelByRef, Sound, Registries
    <2> QED BY <1>3, <1>5, <2>1 DEF RemoveModelByRef
  <1>6. ASSUME NEW k \in Kinds, DeleteWholeKind(k)
        PROVE  EdgeFindingsMove(reg, reg')
    <2> DEFINE K == KindEdges(reg, k)
               N == KindVersions(reg, k)
    <2>1. DeleteKindRemoves(reg, reg', K, N)
      BY <1>0, <1>6, DeleteKindSound DEF DeleteWholeKind
    <2> HIDE DEF K, N
    <2> QED BY <1>0, <2>1 DEF DeleteKindRemoves
  <1>7. CASE ClearAllModels
    BY <1>0, <1>7, ClearModelsSound DEF ClearAllModels
  <1>8. ASSUME NEW e \in EdgeIds, NEW f \in Funcs, StoreMigrationSpec(e, f)
        PROVE  EdgeFindingsMove(reg, reg')
    BY <1>0, <1>8, BuildEdgeType, StoreEdgeSound DEF StoreMigrationSpec, CanStoreSpec
  <1>9. ASSUME NEW e \in EdgeIds, NEW f \in Funcs, NEW m \in Models,
               StoreMigrationReflecting(e, f, m)
        PROVE  EdgeFindingsMove(reg, reg')
    <2> DEFINE n == NodeOf[m]
               T == StoreEntry(reg, n, m)
    <2>1. n \in Nodes /\ CanStore(reg, n) /\ m \in {"key"} \cup {l \in Models : NodeOf[l] = n}
      BY <1>9, ModelsAssumption DEF StoreMigrationReflecting, CanReflect
    <2>2. reg' = IF CanStoreSpec(T, e, f) THEN StoreEdge(T, BuildEdge(T, e, f)) ELSE T
      BY <1>9 DEF StoreMigrationReflecting
    <2> HIDE DEF n
    <2>3. Sound(T) /\ EdgeFindingsKept(reg, T)
      BY <2>1, StoreEntrySound
    <2> HIDE DEF T
    <2>4. CanStoreSpec(T, e, f) => EdgeFindingsKept(T, reg')
      BY <2>2, <2>3, BuildEdgeType, StoreEdgeSound DEF CanStoreSpec
    <2>5. EdgeFindingsKept(reg, reg')
      BY <2>2, <2>3, <2>4, EdgeFindingsKeptTwice
    <2> QED BY <1>0, <2>5
  <1>10. ASSUME NEW o \in EdgeEntries, StoreMigrationEdge(o)
         PROVE  EdgeFindingsMove(reg, reg')
    BY <1>0, <1>10, RegistryAssumption, StoreEdgeSound DEF StoreMigrationEdge
  <1>11. ASSUME NEW e \in EdgeIds, RemoveMigration(e)
         PROVE  EdgeFindingsMove(reg, reg')
    <2>1. CASE IsStored(reg.edges[e]) /\ reg' = RemoveEdges(reg, {e})
      <3>1. {e} \in SUBSET EdgeIds /\ \A f \in {e} : IsStored(reg.edges[f])
        BY <2>1
      <3> QED BY <1>0, <2>1, <3>1, RemoveEdgesSound
    <2>2. ASSUME NEW src \in ObjectsFor(e.source), NEW tgt \in ObjectsFor(e.target),
                 NEW o \in KeyObjects,
                 ~IsStored(reg.edges[e]), reg' = RemoveUnknown(reg, e, src, tgt, o)
          PROVE  EdgeFindingsMove(reg, reg')
      <3>1. src \in NodeObjects /\ tgt \in NodeObjects
        BY DEF ObjectsFor, NodeObjects
      <3> QED BY <1>0, <2>2, <3>1, RemoveUnknownSound
    <2> QED BY <1>11, <2>1, <2>2 DEF RemoveMigration
  <1>12. ASSUME NEW lo \in Nodes, NEW hi \in Nodes, RemoveMigrationRange(lo, hi)
         PROVE  EdgeFindingsMove(reg, reg')
    <2> DEFINE K == RangeEdges(reg, lo, hi)
    <2>1. K \in SUBSET EdgeIds /\ \A e \in K : IsStored(reg.edges[e])
      BY EdgesAssumption DEF RangeEdges, HasExecutable, IsExecutable, IsStored
    <2>2. reg' = RemoveEdges(reg, K)
      BY <1>12 DEF RemoveMigrationRange, RemoveRange
    <2> HIDE DEF K
    <2> QED BY <1>0, <2>1, <2>2, RemoveEdgesSound
  <1>13. CASE ClearAllMigrations
    BY <1>0, <1>13, ClearMigrationsSound DEF ClearAllMigrations
  <1>14. ASSUME NEW e \in EdgeIds, NEW h \in Hooks, AddHookTo(e, h) \/ RemoveHookFrom(e, h)
         PROVE  EdgeFindingsMove(reg, reg')
    <2>1. CASE AddHookTo(e, h)
      BY <2>1, AddHookSound DEF AddHookTo, HooksMove
    <2>2. CASE RemoveHookFrom(e, h)
      BY <2>2, RemoveHookSound DEF RemoveHookFrom, HooksMove
    <2> QED BY <1>14, <2>1, <2>2
  <1>15. ASSUME NEW e \in EdgeIds, RemoveHooksOf(e) \/ ClearHooksOf(e) \/ ReadHooksOf(e)
         PROVE  EdgeFindingsMove(reg, reg')
    <2> DEFINE C == ClearHooks(reg, {e})
    <2>1. /\ Sound(C) /\ FindingsFollow(reg, C) /\ SameButHooks(C, reg)
          /\ C.hookKeys = reg.hookKeys \ {e}
      BY ClearHooksSound
    <2>2. CASE RemoveHooksOf(e)
      <3>1. PICK o : reg' = RefreshKey(C, e, o)
        BY <2>2 DEF RemoveHooksOf
      <3>2. ~(e \in C.hookKeys <=> e \in reg.hookKeys)
        BY <2>1, <2>2 DEF RemoveHooksOf
      <3> HIDE DEF C
      <3> QED BY <2>1, <3>1, <3>2, HookRefreshSound
    <2>3. CASE ClearHooksOf(e)
      BY <1>0, <2>1, <2>3 DEF ClearHooksOf
    <2>4. CASE ReadHooksOf(e)
      BY <1>0, <2>4, ReadHooksSound DEF ReadHooksOf
    <2> QED BY <1>15, <2>2, <2>3, <2>4
  <1>16. CASE ClearAllHooks
    BY <1>0, <1>16, ClearHooksSound DEF ClearAllHooks
  <1> QED
    BY <1>1, <1>2, <1>3, <1>4, <1>5, <1>6, <1>7, <1>8, <1>9, <1>10, <1>11, <1>12,
       <1>13, <1>14, <1>15, <1>16
    DEF Next

\* The inductive invariant holds from the empty registry on.
LEMMA InvHolds == Spec => []Inv
  <1>1. Init => Inv
    BY EmptySound DEF Init, Inv
  <1>2. Inv /\ [Next]_vars => Inv'
    BY StepGood DEF Good, Inv
  <1> QED BY <1>1, <1>2, PTL DEF Spec

\* The registry record keeps its type whatever is stored, bound, hooked or
\* removed.
THEOREM TypeCorrect == Spec => []TypeOK
  <1>1. Inv => TypeOK
    BY DEF Inv, Sound, TypeOK
  <1> QED BY <1>1, InvHolds, PTL

\* The kind, model, incidence, digest and reference indexes of the registry
\* agree with its entries and edges after any sequence of its operations.
THEOREM IndexesCorrect == Spec => []IndexInvariant
  <1>1. Inv => IndexInvariant
    BY DEF Inv, Sound, IndexInvariant
  <1> QED BY <1>1, InvHolds, PTL

\* No sequence of operations leaves an executable edge without an endpoint.
THEOREM ExecutableEndpoints == Spec => []ExecutableEndpointsInvariant
  <1>1. Inv => ExecutableEndpointsInvariant
    BY DEF Inv, ExecutableEndpointsInvariant
  <1> QED BY <1>1, InvHolds, PTL

\* The cached endpoint findings of stored edges follow the graph: every operation
\* refreshes the edges it adds and the edges at the nodes it changes, which it finds
\* in the incidence index, and a hook call touches no finding but its own edge's.
THEOREM EdgeFindingsCorrect == Spec => EdgeFindingsFollow
  <1>1. Inv /\ [Next]_vars => [EdgeFindingsMove(reg, reg')]_vars
    BY StepFindings DEF Inv
  <1> QED BY <1>1, InvHolds, PTL DEF Spec, EdgeFindingsFollow

\* No operation replaces a model or an executable edge in place.
THEOREM ContentStable == Spec => ContentIsStable
  <1>1. Inv /\ [Next]_vars => [ContentKept(reg, reg')]_vars
    BY StepGood DEF Good
  <1> QED BY <1>1, InvHolds, PTL DEF Spec, ContentIsStable

-----------------------------------------------------------------------------
(* The registry below the publishers. *)

\* One step of the publishers leaves the registry alone or is one of its own.
LEMMA RegistryStep ==
    ASSUME [PNext]_pvars
    PROVE  [Next]_vars
  BY DEF PNext, pvars, vars, Mutate, Lock, Observe, Load, Save

\* The registry stays sound under the publishers.
LEMMA RegistryInv == PSpec => []Inv
  <1>1. PInit => Inv
    BY PublicationAssumption DEF PInit, Inv, Sound
  <1>2. Inv /\ [PNext]_pvars => Inv'
    BY RegistryStep, StepGood DEF Good, Inv
  <1> QED BY <1>1, <1>2, PTL DEF PSpec

-----------------------------------------------------------------------------
(* Graphs of sound registries. *)

\* The stored edges of a registry and the executable ones among them.
StoredEdges(S) == {e \in EdgeIds : IsStored(S.edges[e])}
ExecutableEdges(S) == {e \in EdgeIds : IsExecutable(S.edges[e])}

\* The builder goes by kinds with entries or a bucket and misses no edge; the
\* digest index names the executable ones.
LEMMA BuiltEdges ==
    ASSUME NEW S, Sound(S)
    PROVE  /\ BuildGraph(S).backend.nodes = [n \in Entries(S) |-> S.nodes[n]]
           /\ BuildGraph(S).backend.edges = StoredEdges(S)
           /\ BuildGraph(S).backend.exec = ExecutableEdges(S)
           /\ BuildGraph(S).backend.digests = ExecutableEdges(S)
           /\ ExecutableEdges(S) \subseteq StoredEdges(S)
  <1>1. SourceEdges(S) = StoredEdges(S)
    BY DEF SourceEdges, StoredEdges, Sound, IndexesAgree, StoresWellFormed
  <1>2. \A e \in EdgeIds : IsExecutable(S.edges[e]) => IsStored(S.edges[e])
    BY EdgesAssumption DEF IsExecutable, IsStored
  <1>3. {e \in SourceEdges(S) : IsExecutable(S.edges[e])} = ExecutableEdges(S)
    BY <1>1, <1>2 DEF StoredEdges, ExecutableEdges
  <1>4. \A e \in ExecutableEdges(S) : S.edges[e].id = e
    BY <1>2 DEF ExecutableEdges, Sound, IndexesAgree, StoresWellFormed
  <1>5. S.digests = {S.edges[e] : e \in ExecutableEdges(S)}
    BY DEF ExecutableEdges, Sound, IndexesAgree, DigestIndexAgrees
  <1>6. {o.id : o \in S.digests} = ExecutableEdges(S)
    BY <1>4, <1>5
  <1>7. ExecutableEdges(S) \subseteq StoredEdges(S)
    BY <1>2 DEF ExecutableEdges, StoredEdges
  <1> QED BY <1>1, <1>3, <1>6, <1>7 DEF BuildGraph, Backend, Indexed

\* The digest of a model is longer than that of a placeholder.
LEMMA DigestTellsModels ==
    ASSUME NEW n, NEW o, NEW p, NodeDigest(n, o) = NodeDigest(n, p)
    PROVE  o \in Models <=> p \in Models
  <1>1. \A x, y, z : <<n, x, y, z>> # <<n>>
    <2> SUFFICES ASSUME NEW x, NEW y, NEW z PROVE <<n, x, y, z>> # <<n>>
      OBVIOUS
    <2>1. Len(<<n, x, y, z>>) = 4 /\ Len(<<n>>) = 1
      OBVIOUS
    <2> QED BY <2>1
  <1> QED BY <1>1 DEF NodeDigest

\* What the content digest of a graph shows of it.
LEMMA BuiltContent ==
    ASSUME NEW S, Sound(S)
    PROVE  LET B == BuildGraph(S).backend
               C == BuildGraph(S).revision.content IN
           /\ C.nodes = [n \in Entries(S) |-> NodeDigest(n, S.nodes[n])]
           /\ B.nodeDigest = C.nodes
           /\ C.edges = [e \in StoredEdges(S) |->
                            <<EdgeDigest(S.edges[e]), e \in ExecutableEdges(S)>>]
           /\ C.hooks = B.hooks
  <1> DEFINE B == Backend(S)
  <1>1. /\ BuildGraph(S).backend = B
        /\ BuildGraph(S).revision.content = ContentDigest(B)
    BY DEF BuildGraph, Derive
  <1>2. /\ B.nodes = [n \in Entries(S) |-> S.nodes[n]]
        /\ B.edges = StoredEdges(S) /\ B.exec = ExecutableEdges(S)
    BY <1>1, BuiltEdges
  <1>3. B.nodeDigest = [n \in Entries(S) |-> NodeDigest(n, S.nodes[n])]
    BY DEF Backend, Indexed
  <1>4. B.edgeDigest = [e \in B.edges |-> EdgeDigest(S.edges[e])]
    BY DEF Backend, Indexed
  <1> HIDE DEF B
  <1>5. /\ ContentDigest(B).nodes = B.nodeDigest /\ ContentDigest(B).hooks = B.hooks
        /\ ContentDigest(B).edges = [e \in B.edges |-> <<B.edgeDigest[e], e \in B.exec>>]
    BY DEF ContentDigest
  <1>6. ContentDigest(B).edges = [e \in StoredEdges(S) |->
                                    <<EdgeDigest(S.edges[e]), e \in ExecutableEdges(S)>>]
    BY <1>2, <1>4, <1>5
  <1> QED BY <1>1, <1>3, <1>5, <1>6

\* Graphs with the same content have the same entries, hydrated at the same
\* identities, and the same edges, executable and not.
LEMMA ContentPins ==
    ASSUME NEW S, NEW T, Sound(S), Sound(T), SameContent(BuildGraph(S), BuildGraph(T))
    PROVE  /\ Entries(S) = Entries(T)
           /\ \A n \in Entries(S) : S.nodes[n] \in Models <=> T.nodes[n] \in Models
           /\ StoredEdges(S) = StoredEdges(T)
           /\ ExecutableEdges(S) = ExecutableEdges(T)
  <1> DEFINE C == BuildGraph(S).revision.content
             D == BuildGraph(T).revision.content
  <1>1. C = D
    BY DEF SameContent
  <1>2. /\ C.nodes = [n \in Entries(S) |-> NodeDigest(n, S.nodes[n])]
        /\ C.edges = [e \in StoredEdges(S) |->
                        <<EdgeDigest(S.edges[e]), e \in ExecutableEdges(S)>>]
    BY BuiltContent
  <1>3. /\ D.nodes = [n \in Entries(T) |-> NodeDigest(n, T.nodes[n])]
        /\ D.edges = [e \in StoredEdges(T) |->
                        <<EdgeDigest(T.edges[e]), e \in ExecutableEdges(T)>>]
    BY BuiltContent
  <1>4. ExecutableEdges(S) \subseteq StoredEdges(S) /\ ExecutableEdges(T) \subseteq StoredEdges(T)
    BY BuiltEdges
  <1> HIDE DEF C, D
  <1>5. Entries(S) = DOMAIN C.nodes /\ Entries(T) = DOMAIN C.nodes
    BY <1>1, <1>2, <1>3
  <1>6. StoredEdges(S) = DOMAIN C.edges /\ StoredEdges(T) = DOMAIN C.edges
    BY <1>1, <1>2, <1>3
  <1>7. ASSUME NEW n \in Entries(S)
        PROVE  S.nodes[n] \in Models <=> T.nodes[n] \in Models
    <2>1. NodeDigest(n, S.nodes[n]) = NodeDigest(n, T.nodes[n])
      BY <1>1, <1>2, <1>3, <1>5
    <2> QED BY <2>1, DigestTellsModels
  <1>8. ASSUME NEW e \in StoredEdges(S)
        PROVE  e \in ExecutableEdges(S) <=> e \in ExecutableEdges(T)
    <2>1. <<EdgeDigest(S.edges[e]), e \in ExecutableEdges(S)>>
            = <<EdgeDigest(T.edges[e]), e \in ExecutableEdges(T)>>
      BY <1>1, <1>2, <1>3, <1>6
    <2> QED BY <2>1, Zenon
  <1> QED BY <1>4, <1>5, <1>6, <1>7, <1>8

\* The versions a revision lists are those of the entries it hashes.
LEMMA ContentIsManifest ==
    ASSUME NEW S, NEW T, Sound(S), Sound(T), SameContent(BuildGraph(S), BuildGraph(T))
    PROVE  SameManifest(BuildGraph(S), BuildGraph(T))
  <1>1. Entries(S) = Entries(T)
    BY ContentPins
  <1>2. DOMAIN Backend(S).nodes = Entries(S) /\ DOMAIN Backend(T).nodes = Entries(T)
    BY DEF Backend, Indexed
  <1>3. ContentDigest(Backend(S)) = ContentDigest(Backend(T))
    BY DEF SameContent, BuildGraph, Derive
  <1>4. DOMAIN Backend(S).nodes = DOMAIN Backend(T).nodes
    BY <1>1, <1>2
  <1>5. Derive(Backend(S)) = Derive(Backend(T))
    BY <1>3, <1>4 DEF Derive
  <1> QED BY <1>5 DEF SameManifest, BuildGraph

\* Graphs with the same manifest plan alike.
LEMMA ManifestPinsPlans ==
    ASSUME NEW S, NEW T, Sound(S), Sound(T), SameManifest(BuildGraph(S), BuildGraph(T))
    PROVE  Plans(BuildGraph(S)) = Plans(BuildGraph(T))
  <1> DEFINE G == BuildGraph(S)
             H == BuildGraph(T)
  <1>1. G.revision.content = H.revision.content
    BY DEF SameManifest
  <1>2. SameContent(G, H)
    BY <1>1 DEF SameContent
  <1>3. /\ Entries(S) = Entries(T)
        /\ \A n \in Entries(S) : S.nodes[n] \in Models <=> T.nodes[n] \in Models
        /\ ExecutableEdges(S) = ExecutableEdges(T)
    BY <1>2, ContentPins
  <1>4. /\ G.backend.nodes = [n \in Entries(S) |-> S.nodes[n]]
        /\ G.backend.exec = ExecutableEdges(S) /\ G.backend.digests = ExecutableEdges(S)
    BY BuiltEdges
  <1>5. /\ H.backend.nodes = [n \in Entries(T) |-> T.nodes[n]]
        /\ H.backend.exec = ExecutableEdges(T) /\ H.backend.digests = ExecutableEdges(T)
    BY BuiltEdges
  <1>6. /\ G.revision.content.nodes = [n \in Entries(S) |-> NodeDigest(n, S.nodes[n])]
        /\ G.revision.content.hooks = G.backend.hooks
    BY BuiltContent
  <1>7. /\ H.revision.content.nodes = [n \in Entries(T) |-> NodeDigest(n, T.nodes[n])]
        /\ H.revision.content.hooks = H.backend.hooks
    BY BuiltContent
  <1> HIDE DEF G, H
  <1>8. [n \in DOMAIN G.backend.nodes |-> NodeDigest(n, G.backend.nodes[n])]
          = [n \in DOMAIN H.backend.nodes |-> NodeDigest(n, H.backend.nodes[n])]
    <2>1. [n \in DOMAIN G.backend.nodes |-> NodeDigest(n, G.backend.nodes[n])]
            = G.revision.content.nodes
      BY <1>4, <1>6
    <2>2. [n \in DOMAIN H.backend.nodes |-> NodeDigest(n, H.backend.nodes[n])]
            = H.revision.content.nodes
      BY <1>5, <1>7
    <2> QED BY <1>1, <2>1, <2>2
  <1>9. \A k : VersionsOfKind(G, k) = VersionsOfKind(H, k)
    BY <1>3, <1>4, <1>5 DEF VersionsOfKind, NodesForKind
  <1>10. /\ G.backend.exec = H.backend.exec /\ G.backend.digests = H.backend.digests
         /\ G.backend.hooks = H.backend.hooks
    BY <1>1, <1>3, <1>4, <1>5, <1>6, <1>7
  <1>11. \A a, b : EdgePath(G, a, b, DefaultDiscriminator) = EdgePath(H, a, b, DefaultDiscriminator)
    BY <1>9, <1>10 DEF EdgePath
  <1>12. [ab \in Nodes \X Nodes |-> EdgePath(G, ab[1], ab[2], DefaultDiscriminator)]
           = [ab \in Nodes \X Nodes |-> EdgePath(H, ab[1], ab[2], DefaultDiscriminator)]
    BY <1>11
  <1> QED BY <1>8, <1>10, <1>12 DEF Plans, G, H

-----------------------------------------------------------------------------
(* Graphs in circulation. *)

\* A graph some sound registry was compiled into.
Built(G) == \E S \in Registries : Sound(S) /\ G = BuildGraph(S)

AtMostOne(A) == \A x, y \in A : x = y

\* Every graph anybody holds was built from a sound registry, and the stored
\* graph is the published one.
GraphInv ==
    /\ DOMAIN held = Publishers
    /\ \A p \in Publishers : AtMostOne(held[p])
    /\ \A p \in Publishers : \A G \in held[p] : Built(G)
    /\ \A G \in store : Built(G)
    /\ AtMostOne(store)
    /\ \A G \in store, c \in published : c.revision = G.revision

\* Locking, loading and saving hand on graphs of sound registries.
LEMMA GraphStep ==
    ASSUME Inv, GraphInv, [PNext]_pvars
    PROVE  GraphInv'
  <1>1. CASE UNCHANGED <<held, store, published>>
    BY <1>1 DEF GraphInv
  <1>2. ASSUME NEW p \in Publishers, NEW pinned \in BOOLEAN, Lock(p, pinned)
        PROVE  GraphInv'
    <2>1. Built(BuildGraph(reg))
      BY DEF Inv, Sound, Built
    <2>2. /\ held' = [held EXCEPT ![p] = {BuildGraph(reg)}]
          /\ store' = store /\ published' = published
      BY <1>2 DEF Lock
    <2>3. held'[p] = {BuildGraph(reg)} /\ \A q \in Publishers \ {p} : held'[q] = held[q]
      BY <2>2 DEF GraphInv
    <2>4. DOMAIN held' = Publishers
      BY <2>2 DEF GraphInv
    <2> QED BY <2>1, <2>2, <2>3, <2>4 DEF GraphInv, AtMostOne
  <1>3. ASSUME NEW p \in Publishers, Load(p)
        PROVE  GraphInv'
    <2>1. held' = [held EXCEPT ![p] = store] /\ store' = store /\ published' = published
      BY <1>3 DEF Load
    <2>2. held'[p] = store /\ \A q \in Publishers \ {p} : held'[q] = held[q]
      BY <2>1 DEF GraphInv
    <2>3. DOMAIN held' = Publishers
      BY <2>1 DEF GraphInv
    <2> QED BY <2>1, <2>2, <2>3 DEF GraphInv, AtMostOne
  <1>4. ASSUME NEW p \in Publishers, NEW checks, Save(p, checks)
        PROVE  GraphInv'
    <2>1. PICK g \in held[p] :
             published' = {[revision |-> g.revision, generation |-> NextGeneration(p)]}
      BY <1>4 DEF Save
    <2>2. held' = held /\ store' = held[p]
      BY <1>4 DEF Save
    <2>3. \A G \in store', c \in published' : c.revision = G.revision
      BY <2>1, <2>2 DEF GraphInv, AtMostOne
    <2> QED BY <2>2, <2>3 DEF GraphInv
  <1> QED
    BY <1>1, <1>2, <1>3, <1>4 DEF PNext, pvars, Mutate, Observe

\* A revision stands for one graph: graphs with one manifest, built from
\* whatever states of the registry and passed on by whoever, plan the same paths
\* over the same models with the same hooks, equal content is an equal manifest,
\* and the published revision is that of the stored graph.
THEOREM RevisionsIdentifyGraphs == PSpec => []RevisionsPinGraphs
  <1>1. PInit => GraphInv
    BY DEF PInit, GraphInv, AtMostOne
  <1>2. Inv /\ GraphInv /\ [PNext]_pvars => GraphInv'
    BY GraphStep
  <1>3. GraphInv => RevisionsPinGraphs
    <2> SUFFICES ASSUME GraphInv
                 PROVE  RevisionsPinGraphs
      OBVIOUS
    <2> DEFINE graphs == store \cup UNION {held[p] : p \in Publishers}
    <2>1. \A G \in graphs : Built(G)
      BY DEF GraphInv
    <2>2. ASSUME NEW G \in graphs, NEW H \in graphs
          PROVE  /\ SameManifest(G, H) => Plans(G) = Plans(H)
                 /\ SameContent(G, H) => SameManifest(G, H)
      <3>1. PICK S \in Registries : Sound(S) /\ G = BuildGraph(S)
        BY <2>1 DEF Built
      <3>2. PICK T \in Registries : Sound(T) /\ H = BuildGraph(T)
        BY <2>1 DEF Built
      <3>3. SameManifest(G, H) => Plans(G) = Plans(H)
        BY <3>1, <3>2, ManifestPinsPlans
      <3>4. SameContent(G, H) => SameManifest(G, H)
        BY <3>1, <3>2, ContentIsManifest
      <3> QED BY <3>3, <3>4
    <2> QED BY <2>2 DEF RevisionsPinGraphs, GraphInv
  <1> QED BY <1>1, <1>2, <1>3, RegistryInv, PTL DEF PSpec

-----------------------------------------------------------------------------
(* Publications. *)

\* Everything a publisher has read was published, at a generation up to the
\* current one, and nobody has read anything before the first.
Records == published \cup UNION {seen[p] : p \in Publishers}

ChronologyInv ==
    /\ DOMAIN seen = Publishers
    /\ AtMostOne(published)
    /\ \A r \in Records : r.generation \in Nat
    /\ published = {} => Records = {}
    /\ ChronologyIsLinear

\* A save is numbered after the current publication, whatever its publisher has
\* read.
LEMMA ChronologyStep ==
    ASSUME ChronologyInv, [PNext]_pvars
    PROVE  ChronologyInv'
  <1>1. CASE UNCHANGED <<seen, published>>
    BY <1>1 DEF ChronologyInv, ChronologyIsLinear, Records
  <1>2. ASSUME NEW p \in Publishers, Observe(p)
        PROVE  ChronologyInv'
    <2>1. seen' = [seen EXCEPT ![p] = published] /\ published' = published
      BY <1>2 DEF Observe
    <2>2. DOMAIN seen' = Publishers /\ Records' \subseteq Records
      BY <2>1 DEF ChronologyInv, Records
    <2>3. ChronologyIsLinear'
      BY <2>1, <2>2 DEF ChronologyInv, ChronologyIsLinear, Records
    <2> QED BY <2>1, <2>2, <2>3 DEF ChronologyInv
  <1>3. ASSUME NEW p \in Publishers, NEW checks, Save(p, checks)
        PROVE  ChronologyInv'
    <2>1. PICK g \in held[p] :
             published' = {[revision |-> g.revision, generation |-> NextGeneration(p)]}
      BY <1>3 DEF Save
    <2> DEFINE new == [revision |-> g.revision, generation |-> NextGeneration(p)]
    <2>2. seen' = [seen EXCEPT ![p] = {new}] /\ published' = {new}
      BY <1>3, <2>1 DEF Save
    <2>3. /\ NextGeneration(p) \in Nat
          /\ \A r \in Records : r.generation < NextGeneration(p)
      <3>1. CASE published = {}
        BY <3>1 DEF ChronologyInv, NextGeneration
      <3>2. CASE published # {}
        <4>1. PICK c : c = CHOOSE x \in published : TRUE
          OBVIOUS
        <4>2. c \in published /\ c.generation \in Nat
          BY <3>2, <4>1 DEF ChronologyInv, Records
        <4>3. NextGeneration(p) = 1 + c.generation
          BY <3>2, <4>1 DEF NextGeneration
        <4>4. \A r \in Records : r.generation \in Nat /\ r.generation <= c.generation
          BY <4>2 DEF ChronologyInv, ChronologyIsLinear, Records
        <4> QED BY <4>2, <4>3, <4>4
      <3> QED BY <3>1, <3>2
    <2>4. new.generation = NextGeneration(p)
      OBVIOUS
    <2> HIDE DEF new
    <2>5. DOMAIN seen' = Publishers /\ Records' \subseteq Records \cup {new}
      BY <2>2 DEF ChronologyInv, Records
    <2>6. \A r \in Records' : r = new \/ (r \in Records /\ r.generation < new.generation)
      BY <2>3, <2>4, <2>5
    <2>7. \A r \in Records' : r.generation \in Nat
      BY <2>3, <2>4, <2>6 DEF ChronologyInv
    <2>8. \A r \in Records' : r.generation <= new.generation
      BY <2>3, <2>4, <2>6, <2>7
    <2>9. ASSUME NEW r \in Records', NEW s \in Records', r.generation = s.generation
          PROVE  r.revision = s.revision
      <3>1. CASE r = new
        BY <2>3, <2>4, <2>6, <2>7, <2>9, <3>1
      <3>2. CASE r # new
        <4>1. r \in Records /\ s \in Records
          BY <2>3, <2>4, <2>6, <2>7, <2>9, <3>2
        <4>2. PICK c \in published : TRUE
          BY <4>1 DEF ChronologyInv
        <4> QED BY <2>9, <4>1, <4>2 DEF ChronologyInv, ChronologyIsLinear, Records
      <3> QED BY <3>1, <3>2
    <2>10. ChronologyIsLinear'
      BY <2>2, <2>8, <2>9 DEF ChronologyIsLinear, Records
    <2> QED BY <2>2, <2>5, <2>7, <2>10 DEF ChronologyInv, AtMostOne
  <1> QED
    BY <1>1, <1>2, <1>3 DEF PNext, pvars, Mutate, Lock, Load

\* Publications form one chain: no publisher has read a generation beyond the
\* current one, and one generation names one revision for all readers, whatever
\* unconditional saves of stale readers come between.
THEOREM ChronologyHolds == PSpec => []ChronologyIsLinear
  <1>1. PInit => ChronologyInv
    BY DEF PInit, ChronologyInv, ChronologyIsLinear, Records, AtMostOne
  <1>2. ChronologyInv /\ [PNext]_pvars => ChronologyInv'
    BY ChronologyStep
  <1>3. ChronologyInv => ChronologyIsLinear
    BY DEF ChronologyInv
  <1> QED BY <1>1, <1>2, <1>3, PTL DEF PSpec

-----------------------------------------------------------------------------
(* Lookups. *)

\* What the indexes of a sound registry say, in terms of its stores.
LEMMA IndexFacts ==
    ASSUME NEW S, Sound(S)
    PROVE  /\ S.nodes \in [Nodes -> {"absent", "key"} \cup Models]
           /\ \A n \in Nodes : Kind(n) \in Kinds
           /\ \A k \in Kinds : S.kinds[k] = {n \in Entries(S) : Kind(n) = k}
           /\ \A n \in Nodes : IsHydrated(S, n) => n \in Entries(S)
           /\ \A n \in Nodes : S.incident[n] = {e \in StoredEdges(S) : n \in Ends(e)}
  <1>1. S.nodes \in [Nodes -> {"absent", "key"} \cup Models]
    BY DEF Sound, Registries
  <1>2. \A n \in Nodes : Kind(n) \in Kinds
    BY DEF Kinds
  <1>3. \A k \in Kinds : S.kinds[k] = {n \in Entries(S) : Kind(n) = k}
    BY DEF Sound, IndexesAgree, KindIndexAgrees, Entries
  <1>4. \A n \in Nodes : IsHydrated(S, n) => n \in Entries(S)
    BY ModelsAssumption DEF IsHydrated, Entries, HasEntry
  <1>5. \A n \in Nodes : S.incident[n] = {e \in StoredEdges(S) : n \in Ends(e)}
    BY DEF Sound, IndexesAgree, IncidenceIndexAgrees, StoredEdges
  <1> QED BY <1>1, <1>2, <1>3, <1>4, <1>5

\* Lookups of entries, models and the executable edges of a version.
LEMMA NodeLookups ==
    ASSUME NEW S, Sound(S), NEW n \in Nodes
    PROVE  LET G == BuildGraph(S) IN
           /\ FindEntry(G, n) = OrNotFound(EntryAt(S, n))
           /\ FindModel(G, n) = OrNotFound(ModelAt(S, n))
           /\ GraphMigrationsOf(G, n) = MigrationsOf(S, n)
           /\ n \in NodeEntries(G, BOOLEAN, {FALSE}, BOOLEAN)
                 <=> HasEntry(S, n) /\ S.incident[n] = {}
  <1> DEFINE G == BuildGraph(S)
  <1>1. /\ G.backend.nodes = [m \in Entries(S) |-> S.nodes[m]]
        /\ G.backend.edges = StoredEdges(S) /\ G.backend.exec = ExecutableEdges(S)
    BY BuiltEdges
  <1>2. G.backend.endpoint[n] = {e \in StoredEdges(S) : n \in Ends(e)}
    <2>1. G.backend.endpoint = [m \in Nodes |-> {e \in G.backend.edges : m \in Ends(e)}]
      BY DEF BuildGraph, Backend, Indexed
    <2> HIDE DEF G
    <2> QED BY <1>1, <2>1
  <1>3. S.incident[n] = {e \in StoredEdges(S) : n \in Ends(e)}
    BY IndexFacts
  <1>4. IsHydrated(S, n) => n \in Entries(S)
    BY IndexFacts
  <1>5. n \in Entries(S) <=> HasEntry(S, n)
    BY DEF Entries
  <1> HIDE DEF G
  <1>6. FindEntry(G, n) = IF n \in Entries(S) THEN S.nodes[n] ELSE NotFound
    BY <1>1 DEF FindEntry
  <1>7. \A x : (CHOOSE y \in {x} : TRUE) = x
    OBVIOUS
  <1>8. FindEntry(G, n) = OrNotFound(EntryAt(S, n))
    BY <1>5, <1>6, <1>7 DEF EntryAt, OrNotFound
  <1>9. FindModel(G, n) = OrNotFound(ModelAt(S, n))
    BY <1>4, <1>5, <1>6, <1>7 DEF FindModel, ModelAt, OrNotFound, IsHydrated
  <1>10. GraphMigrationsOf(G, n) = MigrationsOf(S, n)
    BY <1>1, <1>2, <1>3 DEF GraphMigrationsOf, MigrationsOf, ExecutableEdges, StoredEdges
  <1>11. n \in NodeEntries(G, BOOLEAN, {FALSE}, BOOLEAN)
            <=> HasEntry(S, n) /\ S.incident[n] = {}
    <2>1. n \in DOMAIN G.backend.nodes <=> HasEntry(S, n)
      BY <1>1, <1>5
    <2>2. G.backend.endpoint[n] = S.incident[n]
      BY <1>2, <1>3
    <2>3. /\ (G.backend.nodes[n] \in Models) \in BOOLEAN
          /\ (G.backend.endpoint[n] = {}) \in BOOLEAN
      OBVIOUS
    <2>4. (G.backend.endpoint[n] # {}) \in {FALSE} <=> G.backend.endpoint[n] = {}
      BY Zenon
    <2> QED BY <2>1, <2>2, <2>3, <2>4, Zenon DEF NodeEntries
  <1> QED BY <1>8, <1>9, <1>10, <1>11 DEF G

\* Lookups of a kind.
LEMMA KindLookups ==
    ASSUME NEW S, Sound(S), NEW k \in Kinds
    PROVE  LET G == BuildGraph(S) IN
           /\ VersionsOfKind(G, k) = KindVersions(S, k)
           /\ Latest(G, k) = RegistryLatest(S, k)
           /\ Earliest(G, k) = RegistryEarliest(S, k)
           /\ EdgeEntriesOf(G, {k}, {TRUE}) = GraphMigrations(G, k)
  <1> DEFINE G == BuildGraph(S)
  <1>1. /\ G.backend.nodes = [m \in Entries(S) |-> S.nodes[m]]
        /\ G.backend.edges = StoredEdges(S) /\ G.backend.exec = ExecutableEdges(S)
        /\ ExecutableEdges(S) \subseteq StoredEdges(S)
    BY BuiltEdges
  <1>2. S.kinds[k] = {n \in Entries(S) : Kind(n) = k}
    BY IndexFacts
  <1> HIDE DEF G
  <1>3. VersionsOfKind(G, k) = KindVersions(S, k)
    BY <1>1, <1>2 DEF VersionsOfKind, NodesForKind, KindVersions, IsHydrated
  <1>4. Latest(G, k) = RegistryLatest(S, k) /\ Earliest(G, k) = RegistryEarliest(S, k)
    BY <1>3 DEF Latest, Earliest, RegistryLatest, RegistryEarliest
  <1>5. EdgeEntriesOf(G, {k}, {TRUE}) = GraphMigrations(G, k)
    BY <1>1 DEF EdgeEntriesOf, GraphMigrations
  <1> QED BY <1>3, <1>4, <1>5 DEF G

\* Lookups of an edge.
LEMMA EdgeLookups ==
    ASSUME NEW S, Sound(S), NEW e \in EdgeIds
    PROVE  LET G == BuildGraph(S) IN
           /\ HasMigration(G, e) <=> HasExecutable(S, e)
           /\ Ends(e) \subseteq Entries(S) => (GraphAdjacent(G, e) <=> IsAdjacent(S, e))
           /\ GraphCritical(G, e) <=> IsStored(S.edges[e]) /\ IsCriticalEdge(S, e)
           /\ IsStored(S.edges[e]) =>
                 FindEdgeByDigest(G, S.edges[e]) = RegistryEdgeByDigest(S, S.edges[e])
  <1> DEFINE G == BuildGraph(S)
  <1>1. /\ G.backend.nodes = [m \in Entries(S) |-> S.nodes[m]]
        /\ G.backend.edges = StoredEdges(S) /\ G.backend.exec = ExecutableEdges(S)
        /\ G.backend.digests = ExecutableEdges(S)
        /\ ExecutableEdges(S) \subseteq StoredEdges(S)
    BY BuiltEdges
  <1>2. G.backend.position = [n \in Entries(S) |->
           Cardinality({m \in Entries(S) : Kind(m) = Kind(n) /\ Version(m) < Version(n)})]
    BY DEF BuildGraph, Backend, Indexed
  <1> HIDE DEF G
  <1>3. HasMigration(G, e) <=> HasExecutable(S, e)
    BY <1>1 DEF HasMigration, HasExecutable, ExecutableEdges
  <1>4. ASSUME Ends(e) \subseteq Entries(S)
        PROVE  GraphAdjacent(G, e) <=> IsAdjacent(S, e)
    <2>1. ASSUME NEW n \in Ends(e)
          PROVE  G.backend.position[n] = Position(S, n)
      <3>1. n \in Entries(S) /\ n \in Nodes
        BY <1>4, <2>1 DEF Entries
      <3>2. S.kinds[Kind(n)] = {m \in Entries(S) : Kind(m) = Kind(n)}
        BY <3>1, IndexFacts
      <3>3. {m \in Entries(S) : Kind(m) = Kind(n) /\ Version(m) < Version(n)}
              = {m \in S.kinds[Kind(n)] : Version(m) < Version(n)}
        BY <3>2
      <3> QED BY <1>2, <3>1, <3>3 DEF Position
    <2>2. /\ G.backend.position[e.source] = Position(S, e.source)
          /\ G.backend.position[e.target] = Position(S, e.target)
      BY <2>1 DEF Ends
    <2>3. Ends(e) \subseteq DOMAIN G.backend.position
      BY <1>2, <1>4
    <2> QED BY <2>2, <2>3 DEF GraphAdjacent, IsAdjacent
  <1>5. GraphCritical(G, e) <=> IsStored(S.edges[e]) /\ IsCriticalEdge(S, e)
    <2>1. {f \in G.backend.edges : Kind(f.source) = Kind(e.source)}
            = {f \in EdgeIds : IsStored(S.edges[f]) /\ Kind(f.source) = Kind(e.source)}
      BY <1>1 DEF StoredEdges
    <2>2. e \in G.backend.edges <=> IsStored(S.edges[e])
      BY <1>1 DEF StoredEdges
    <2> QED BY <2>1, <2>2 DEF GraphCritical, IsCriticalEdge
  <1>6. ASSUME IsStored(S.edges[e])
        PROVE  FindEdgeByDigest(G, S.edges[e]) = RegistryEdgeByDigest(S, S.edges[e])
    <2>1. S.edges[e].id = e
      BY <1>6 DEF Sound, IndexesAgree, StoresWellFormed
    <2>2. S.edges[e] \in S.digests <=> e \in ExecutableEdges(S)
      <3>1. S.digests = {S.edges[f] : f \in ExecutableEdges(S)}
        BY DEF ExecutableEdges, Sound, IndexesAgree, DigestIndexAgrees
      <3> QED BY <3>1 DEF ExecutableEdges
    <2> QED BY <1>1, <2>1, <2>2 DEF FindEdgeByDigest, RegistryEdgeByDigest
  <1> QED BY <1>3, <1>4, <1>5, <1>6 DEF G

\* A graph answers every lookup by identity, reference, kind, edge and digest as
\* the registry it was built from: no sequence of registry calls lets an index
\* the builder or the registry reads drift from the other's.
THEOREM GraphAnswersLookups == PSpec => []LookupsAgree
  <1>1. Inv => LookupsAgree
    <2> SUFFICES ASSUME Sound(reg)
                 PROVE  LookupsAgree
      BY DEF Inv
    <2> DEFINE G == BuildGraph(reg)
    <2>1. /\ G.backend.nodes = [m \in Entries(reg) |-> reg.nodes[m]]
          /\ G.backend.edges = StoredEdges(reg) /\ G.backend.exec = ExecutableEdges(reg)
          /\ ExecutableEdges(reg) \subseteq StoredEdges(reg)
      BY BuiltEdges
    <2>2. ASSUME NEW r \in ModelRefs
          PROVE  GetModelByRef(G, r) = OrNotFound(ModelByClass(reg, r))
      <3>1. G.backend.models = [x \in {y \in ModelRefs : reg.models[y] # "absent"} |-> reg.models[x]]
        BY DEF BuildGraph, Backend, Indexed
      <3>2. \A x : (CHOOSE y \in {x} : TRUE) = x
        OBVIOUS
      <3> HIDE DEF G
      <3> QED BY <3>1, <3>2 DEF GetModelByRef, ModelByClass, OrNotFound
    <2>3. GraphEntities(G) = RegistryEntities(reg)
      <3> HIDE DEF G
      <3>1. \A k \in Kinds : NodesForKind(G, k) = reg.kinds[k]
        BY <2>1, IndexFacts DEF NodesForKind
      <3>2. GraphKinds(G) \subseteq Kinds
        BY <2>1, EdgesAssumption DEF GraphKinds, Kinds, StoredEdges, Entries
      <3>3. \A k : NodesForKind(G, k) # {} => k \in GraphKinds(G)
        BY DEF NodesForKind, GraphKinds
      <3> QED BY <3>1, <3>2, <3>3 DEF GraphEntities, RegistryEntities
    <2>4. LatestVersion(G) = RegistryLatestVersion(reg)
      <3> HIDE DEF G
      <3>1. {n \in DOMAIN G.backend.nodes : G.backend.nodes[n] \in Models} = RegistryVersions(reg)
        BY <2>1, IndexFacts DEF RegistryVersions, IsHydrated, Entries
      <3> QED BY <3>1 DEF LatestVersion, RegistryLatestVersion
    <2>5. MigrationCount(reg) = Cardinality(G.backend.exec)
      <3>1. \A e \in ExecutableEdges(reg) : Kind(e.source) \in reg.buckets
        BY <2>1 DEF StoredEdges, Sound, IndexesAgree, StoresWellFormed
      <3>2. {e \in EdgeIds : Kind(e.source) \in reg.buckets /\ HasExecutable(reg, e)}
              = ExecutableEdges(reg)
        BY <3>1 DEF ExecutableEdges, HasExecutable
      <3> HIDE DEF G
      <3> QED BY <2>1, <3>2 DEF MigrationCount
    <2>6. \A n \in Nodes :
             /\ FindEntry(G, n) = OrNotFound(EntryAt(reg, n))
             /\ FindModel(G, n) = OrNotFound(ModelAt(reg, n))
             /\ GraphMigrationsOf(G, n) = MigrationsOf(reg, n)
             /\ n \in NodeEntries(G, BOOLEAN, {FALSE}, BOOLEAN)
                   <=> HasEntry(reg, n) /\ reg.incident[n] = {}
      BY NodeLookups
    <2>7. \A k \in Kinds :
             /\ VersionsOfKind(G, k) = KindVersions(reg, k)
             /\ Latest(G, k) = RegistryLatest(reg, k)
             /\ Earliest(G, k) = RegistryEarliest(reg, k)
             /\ EdgeEntriesOf(G, {k}, {TRUE}) = GraphMigrations(G, k)
      BY KindLookups
    <2>8. \A e \in EdgeIds :
             /\ HasMigration(G, e) <=> HasExecutable(reg, e)
             /\ Ends(e) \subseteq Entries(reg) => (GraphAdjacent(G, e) <=> IsAdjacent(reg, e))
             /\ GraphCritical(G, e) <=> IsStored(reg.edges[e]) /\ IsCriticalEdge(reg, e)
             /\ IsStored(reg.edges[e]) =>
                   FindEdgeByDigest(G, reg.edges[e]) = RegistryEdgeByDigest(reg, reg.edges[e])
      BY EdgeLookups
    <2> QED BY <2>2, <2>3, <2>4, <2>5, <2>6, <2>7, <2>8 DEF LookupsAgree
  <1> QED BY <1>1, RegistryInv, PTL

-----------------------------------------------------------------------------
(* The registry, the engine and the manager asked. *)

\* The models and the model index of a registry, and nothing else, are kept.
SameModels(S, T) == T.nodes = S.nodes /\ T.models = S.models

\* Completeness is about the models and their index only.
LEMMA SameModelsComplete ==
    ASSUME NEW S, ModelIndexComplete(S), NEW T, SameModels(S, T)
    PROVE  ModelIndexComplete(T)
  BY DEF ModelIndexComplete, SameModels, IsHydrated

\* store indexes the model it stores; no other model has its reference.
LEMMA StoreEntryComplete ==
    ASSUME NEW S, Sound(S), ModelIndexComplete(S), NEW n \in Nodes, CanStore(S, n),
           NEW o \in {"key"} \cup {m \in Models : NodeOf[m] = n}
    PROVE  ModelIndexComplete(StoreEntry(S, n, o))
  <1> DEFINE T == StoreEntry(S, n, o)
  <1>1. S \in Registries /\ StoresWellFormed(S)
    BY DEF Sound, IndexesAgree
  <1>2. T.nodes = [S.nodes EXCEPT ![n] = o]
    BY StoreEntrySound
  <1>3. T.models = [r \in ModelRefs |-> IF o \in Models /\ r = RefOf[o] THEN o ELSE S.models[r]]
    BY <1>1 DEF StoreEntry, Refresh, Registries
  <1>4. S.nodes \in [Nodes -> {"absent", "key"} \cup Models]
    BY <1>1 DEF Registries
  <1> HIDE DEF T
  <1> SUFFICES ASSUME OneVersionPerReference, NEW l \in Nodes, IsHydrated(T, l)
               PROVE  T.models[RefOf[T.nodes[l]]] = T.nodes[l]
    BY DEF ModelIndexComplete, T
  <1>5. T.nodes[l] \in Models /\ RefOf[T.nodes[l]] \in ModelRefs
    BY DEF IsHydrated, ModelRefs
  <1>6. CASE l = n
    <2>1. T.nodes[l] = o
      BY <1>2, <1>4, <1>6
    <2> QED BY <1>3, <1>5, <2>1
  <1>7. CASE l # n
    <2>1. T.nodes[l] = S.nodes[l] /\ IsHydrated(S, l)
      BY <1>2, <1>4, <1>5, <1>7 DEF IsHydrated
    <2>2. NodeOf[S.nodes[l]] = l
      BY <1>1, <2>1 DEF StoresWellFormed
    <2>3. ~(o \in Models /\ RefOf[S.nodes[l]] = RefOf[o])
      <3>1. o \in Models => NodeOf[o] = n
        BY ModelsAssumption
      <3> QED BY <1>7, <1>5, <2>1, <2>2, <3>1 DEF OneVersionPerReference
    <2>4. S.models[RefOf[S.nodes[l]]] = S.nodes[l]
      BY <2>1 DEF ModelIndexComplete
    <2> QED BY <1>3, <1>5, <2>1, <2>3, <2>4
  <1> QED BY <1>6, <1>7

\* remove_entry and remove_model drop the references of what they remove.
LEMMA RemoveEntriesComplete ==
    ASSUME NEW S, Sound(S), ModelIndexComplete(S), NEW N \in SUBSET Nodes
    PROVE  ModelIndexComplete(RemoveEntries(S, N))
  <1> DEFINE T == RemoveEntries(S, N)
  <1>1. S \in Registries /\ StoresWellFormed(S)
    BY DEF Sound, IndexesAgree
  <1>2. T.nodes = [n \in Nodes |-> IF n \in N THEN "absent" ELSE S.nodes[n]]
    BY RemoveEntriesSound
  <1>3. T.models = [r \in ModelRefs |->
                      IF \E n \in N : IsHydrated(S, n) /\ RefOf[S.nodes[n]] = r
                      THEN "absent" ELSE S.models[r]]
    BY <1>1 DEF RemoveEntries, Refresh, Registries
  <1> HIDE DEF T
  <1> SUFFICES ASSUME OneVersionPerReference, NEW l \in Nodes, IsHydrated(T, l)
               PROVE  T.models[RefOf[T.nodes[l]]] = T.nodes[l]
    BY DEF ModelIndexComplete, T
  <1>4. l \notin N /\ T.nodes[l] = S.nodes[l] /\ IsHydrated(S, l)
    BY <1>2, ModelsAssumption DEF IsHydrated
  <1>5. S.nodes[l] \in Models /\ RefOf[S.nodes[l]] \in ModelRefs
    BY <1>4 DEF IsHydrated, ModelRefs
  <1>6. ~\E n \in N : IsHydrated(S, n) /\ RefOf[S.nodes[n]] = RefOf[S.nodes[l]]
    <2> SUFFICES ASSUME NEW n \in N, IsHydrated(S, n), RefOf[S.nodes[n]] = RefOf[S.nodes[l]]
                 PROVE  FALSE
      OBVIOUS
    <2>1. NodeOf[S.nodes[n]] = n /\ NodeOf[S.nodes[l]] = l
      BY <1>1, <1>4 DEF StoresWellFormed
    <2>2. S.nodes[n] \in Models
      BY DEF IsHydrated
    <2> QED BY <1>4, <1>5, <2>1, <2>2 DEF OneVersionPerReference
  <1>7. S.models[RefOf[S.nodes[l]]] = S.nodes[l]
    BY <1>4 DEF ModelIndexComplete
  <1> QED BY <1>3, <1>4, <1>5, <1>6, <1>7

\* Edges and hooks come and go without touching a model.
LEMMA EdgesKeepModels ==
    ASSUME NEW S, Sound(S)
    PROVE  /\ \A o \in EdgeObjects : SameModels(S, StoreEdge(S, o))
           /\ \A K \in SUBSET EdgeIds :
                 (\A e \in K : IsStored(S.edges[e])) => SameModels(S, RemoveEdges(S, K))
           /\ \A e \in EdgeIds : \A src, tgt, o : SameModels(S, RemoveUnknown(S, e, src, tgt, o))
           /\ \A K \in SUBSET EdgeIds : SameModels(S, ClearHooks(S, K))
           /\ SameModels(S, ClearMigrations(S))
           /\ \A e \in EdgeIds : \A h, o : SameModels(S, AddHook(S, e, h, o))
           /\ \A e \in EdgeIds : \A h, o : SameModels(S, RemoveHook(S, e, h, o))
           /\ \A e \in EdgeIds : SameModels(S, ReadHooks(S, e))
           /\ \A e \in EdgeIds : \A o : SameModels(S, RefreshKey(S, e, o))
  <1> USE DEF SameModels
  <1>1. S \in Registries
    BY DEF Sound
  <1>2. \A o \in EdgeObjects : SameModels(S, StoreEdge(S, o))
    BY <1>1 DEF StoreEdge, Refresh, Registries
  <1>3. \A K \in SUBSET EdgeIds :
           (\A e \in K : IsStored(S.edges[e])) => SameModels(S, RemoveEdges(S, K))
    BY <1>1 DEF RemoveEdges, Refresh, Registries
  <1>4. \A e \in EdgeIds : \A src, tgt, o : SameModels(S, RemoveUnknown(S, e, src, tgt, o))
    BY <1>1 DEF RemoveUnknown, RefreshKey, Refresh, Registries
  <1>5. \A K \in SUBSET EdgeIds : SameModels(S, ClearHooks(S, K))
    BY <1>1 DEF ClearHooks, Registries
  <1>6. SameModels(S, ClearMigrations(S))
    BY <1>1 DEF ClearMigrations, ClearHooks, Rebuild, Registries
  <1>7. \A e \in EdgeIds : \A h, o : SameModels(S, AddHook(S, e, h, o))
    BY <1>1 DEF AddHook, RefreshKey, Registries
  <1>8. \A e \in EdgeIds : \A h, o : SameModels(S, RemoveHook(S, e, h, o))
    BY <1>1 DEF RemoveHook, RefreshKey, Registries
  <1>9. \A e \in EdgeIds : SameModels(S, ReadHooks(S, e))
    BY <1>1 DEF ReadHooks, Registries
  <1>10. \A e \in EdgeIds : \A o : SameModels(S, RefreshKey(S, e, o))
    BY <1>1 DEF RefreshKey, Registries
  <1> QED BY <1>2, <1>3, <1>4, <1>5, <1>6, <1>7, <1>8, <1>9, <1>10


\* No sequence of calls loses a model from the index of references while no two
\* versions share one.
LEMMA StepComplete ==
    ASSUME Sound(reg), ModelIndexComplete(reg), [Next]_vars
    PROVE  ModelIndexComplete(reg')
  <1>0. ASSUME SameModels(reg, reg') PROVE ModelIndexComplete(reg')
    BY <1>0, SameModelsComplete
  <1>1. CASE UNCHANGED vars
    BY <1>1 DEF vars
  <1>2. ASSUME NEW n \in Nodes, Store(n)
        PROVE  ModelIndexComplete(reg')
    <2>1. PICK o \in {"key"} \cup {m \in Models : NodeOf[m] = n} :
             CanStore(reg, n) /\ reg' = StoreEntry(reg, n, o)
      BY <1>2, ModelsAssumption DEF Store, ObjectsFor
    <2> QED BY <2>1, StoreEntryComplete
  <1>3. ASSUME NEW n \in Nodes, RemoveModelOf(n)
        PROVE  ModelIndexComplete(reg')
    BY <1>3, RemoveEntriesComplete DEF RemoveModelOf, RemoveModel
  <1>4. ASSUME NEW m \in Models, NEW S, Sound(S), ModelIndexComplete(S)
        PROVE  ModelIndexComplete(Reconcile(S, m))
    <2>1. NodeOf[m] \in Nodes /\ m \in {"key"} \cup {l \in Models : NodeOf[l] = NodeOf[m]}
      BY ModelsAssumption
    <2>2. CASE HasEntry(S, NodeOf[m])
      BY <1>4, <2>2 DEF Reconcile
    <2>3. CASE ~HasEntry(S, NodeOf[m])
      BY <1>4, <2>1, <2>3, StoreEntryComplete DEF Reconcile, CanStore
    <2> QED BY <2>2, <2>3
  <1>5. ASSUME NEW m \in Models, HydrateModel(m)
        PROVE  ModelIndexComplete(reg')
    <2> DEFINE n == NodeOf[m]
               T == RemoveEntries(reg, {n})
    <2>1. n \in Nodes /\ {n} \in SUBSET Nodes /\ m \in {"key"} \cup {l \in Models : NodeOf[l] = n}
      BY ModelsAssumption
    <2>2. reg' = IF reg.nodes[n] = "key" THEN StoreEntry(T, n, m) ELSE Reconcile(reg, m)
      BY <1>5 DEF HydrateModel, Hydrate
    <2> HIDE DEF n
    <2>3. Sound(T) /\ T.nodes = [l \in Nodes |-> IF l \in {n} THEN "absent" ELSE reg.nodes[l]]
      BY <2>1, RemoveEntriesSound
    <2>4. ModelIndexComplete(T)
      BY <2>1, RemoveEntriesComplete
    <2> HIDE DEF T
    <2>5. CanStore(T, n)
      BY <2>1, <2>3 DEF CanStore, HasEntry
    <2>6. ModelIndexComplete(StoreEntry(T, n, m))
      BY <2>1, <2>3, <2>4, <2>5, StoreEntryComplete
    <2> QED BY <1>4, <2>2, <2>6
  <1>6. ASSUME NEW m \in Models, ReconcileModel(m)
        PROVE  ModelIndexComplete(reg')
    BY <1>4, <1>6 DEF ReconcileModel
  <1>7. ASSUME NEW r \in ModelRefs, RemoveModelByRef(r)
        PROVE  ModelIndexComplete(reg')
    <2>1. NodeOf[reg.models[r]] \in Nodes
      BY <1>7, ModelsAssumption DEF RemoveModelByRef, Sound, Registries
    <2> QED BY <1>3, <1>7, <2>1 DEF RemoveModelByRef
  <1>8. ASSUME NEW k \in Kinds, DeleteWholeKind(k)
        PROVE  ModelIndexComplete(reg')
    <2> DEFINE K == KindEdges(reg, k)
               N == KindVersions(reg, k)
               H == ClearHooks(reg, K)
               R == RemoveEdges(H, K)
    <2>1. K \in SUBSET EdgeIds /\ \A e \in K : IsStored(reg.edges[e])
      <3>1. K = {e \in EdgeIds : IsExecutable(reg.edges[e]) /\ Ends(e) \cap N # {}}
        BY DeleteKindSound DEF DeleteKindRemoves
      <3> HIDE DEF K, N
      <3> QED BY <3>1, EdgesAssumption DEF IsExecutable, IsStored
    <2>2. N \in SUBSET Nodes
      BY DEF KindVersions, Sound, Registries
    <2>3. reg' = RemoveEntries(R, N)
      BY <1>8 DEF DeleteWholeKind, DeleteKind
    <2> HIDE DEF K, N
    <2>4. Sound(H) /\ SameButHooks(H, reg)
      BY <2>1, ClearHooksSound
    <2>5. SameModels(reg, H)
      BY <2>1, EdgesKeepModels
    <2>6. \A e \in K : IsStored(H.edges[e])
      BY <2>1, <2>4 DEF SameButHooks
    <2> HIDE DEF H
    <2>7. Sound(R) /\ SameModels(H, R)
      BY <2>1, <2>4, <2>6, RemoveEdgesSound, EdgesKeepModels
    <2>8. ModelIndexComplete(R)
      BY <2>5, <2>7, SameModelsComplete
    <2> HIDE DEF R
    <2> QED BY <2>2, <2>3, <2>7, <2>8, RemoveEntriesComplete
  <1>9. CASE ClearAllModels
    <2>1. reg'.nodes = [n \in Nodes |-> "absent"]
      BY <1>9, ClearModelsSound DEF ClearAllModels
    <2> QED BY <2>1, ModelsAssumption DEF ModelIndexComplete, IsHydrated
  <1>10. ASSUME NEW e \in EdgeIds, NEW f \in Funcs, StoreMigrationSpec(e, f)
         PROVE  ModelIndexComplete(reg')
    BY <1>0, <1>10, BuildEdgeType, EdgesKeepModels DEF StoreMigrationSpec, CanStoreSpec
  <1>11. ASSUME NEW e \in EdgeIds, NEW f \in Funcs, NEW m \in Models,
                StoreMigrationReflecting(e, f, m)
         PROVE  ModelIndexComplete(reg')
    <2> DEFINE n == NodeOf[m]
               T == StoreEntry(reg, n, m)
    <2>1. n \in Nodes /\ CanStore(reg, n)
      BY <1>11, ModelsAssumption DEF StoreMigrationReflecting, CanReflect
    <2>2. m \in {"key"} \cup {l \in Models : NodeOf[l] = n}
      OBVIOUS
    <2>3. reg' = IF CanStoreSpec(T, e, f) THEN StoreEdge(T, BuildEdge(T, e, f)) ELSE T
      BY <1>11 DEF StoreMigrationReflecting
    <2> HIDE DEF n
    <2>4. Sound(T)
      BY <2>1, <2>2, StoreEntrySound
    <2>5. ModelIndexComplete(T)
      BY <2>1, <2>2, StoreEntryComplete
    <2> HIDE DEF T
    <2>6. CASE CanStoreSpec(T, e, f)
      <3>1. SameModels(T, reg')
        BY <2>3, <2>4, <2>6, BuildEdgeType, EdgesKeepModels DEF CanStoreSpec
      <3> QED BY <2>5, <3>1, SameModelsComplete
    <2> QED BY <2>3, <2>5, <2>6
  <1>12. ASSUME NEW o \in EdgeEntries, StoreMigrationEdge(o)
         PROVE  ModelIndexComplete(reg')
    BY <1>0, <1>12, RegistryAssumption, EdgesKeepModels DEF StoreMigrationEdge
  <1>13. ASSUME NEW e \in EdgeIds, RemoveMigration(e)
         PROVE  ModelIndexComplete(reg')
    <2>1. CASE IsStored(reg.edges[e]) /\ reg' = RemoveEdges(reg, {e})
      <3>1. {e} \in SUBSET EdgeIds /\ \A f \in {e} : IsStored(reg.edges[f])
        BY <2>1
      <3> QED BY <1>0, <2>1, <3>1, EdgesKeepModels
    <2>2. ASSUME NEW src, NEW tgt, NEW o, reg' = RemoveUnknown(reg, e, src, tgt, o)
          PROVE  ModelIndexComplete(reg')
      BY <1>0, <2>2, EdgesKeepModels
    <2> QED BY <1>13, <2>1, <2>2 DEF RemoveMigration
  <1>14. ASSUME NEW lo \in Nodes, NEW hi \in Nodes, RemoveMigrationRange(lo, hi)
         PROVE  ModelIndexComplete(reg')
    <2> DEFINE K == RangeEdges(reg, lo, hi)
    <2>1. K \in SUBSET EdgeIds /\ \A e \in K : IsStored(reg.edges[e])
      BY EdgesAssumption DEF RangeEdges, HasExecutable, IsExecutable, IsStored
    <2>2. reg' = RemoveEdges(reg, K)
      BY <1>14 DEF RemoveMigrationRange, RemoveRange
    <2> HIDE DEF K
    <2> QED BY <1>0, <2>1, <2>2, EdgesKeepModels
  <1>15. CASE ClearAllMigrations
    BY <1>0, <1>15, EdgesKeepModels DEF ClearAllMigrations
  <1>16. ASSUME NEW e \in EdgeIds, NEW h \in Hooks, AddHookTo(e, h) \/ RemoveHookFrom(e, h)
         PROVE  ModelIndexComplete(reg')
    <2>1. \A o : /\ SameModels(reg, AddHook(reg, e, h, o))
                 /\ SameModels(reg, RemoveHook(reg, e, h, o))
      BY EdgesKeepModels
    <2> QED BY <1>0, <1>16, <2>1 DEF AddHookTo, RemoveHookFrom
  <1>17. ASSUME NEW e \in EdgeIds, RemoveHooksOf(e) \/ ClearHooksOf(e) \/ ReadHooksOf(e)
         PROVE  ModelIndexComplete(reg')
    <2> DEFINE C == ClearHooks(reg, {e})
    <2>1. {e} \in SUBSET EdgeIds
      OBVIOUS
    <2>2. Sound(C) /\ SameModels(reg, C) /\ SameModels(reg, ReadHooks(reg, e))
      BY <2>1, ClearHooksSound, EdgesKeepModels
    <2>3. reg' \in {C, ReadHooks(reg, e)} \/ \E o : reg' = RefreshKey(C, e, o)
      BY <1>17 DEF RemoveHooksOf, ClearHooksOf, ReadHooksOf
    <2> HIDE DEF C
    <2>4. \A o : SameModels(C, RefreshKey(C, e, o))
      BY <2>2, EdgesKeepModels
    <2>5. SameModels(reg, reg')
      BY <2>2, <2>3, <2>4 DEF SameModels
    <2> QED BY <1>0, <2>5
  <1>18. CASE ClearAllHooks
    <2>1. EdgeIds \in SUBSET EdgeIds
      OBVIOUS
    <2> QED BY <1>0, <1>18, <2>1, EdgesKeepModels DEF ClearAllHooks
  <1> QED
    BY <1>1, <1>2, <1>3, <1>5, <1>6, <1>7, <1>8, <1>9, <1>10, <1>11, <1>12, <1>13,
       <1>14, <1>15, <1>16, <1>17, <1>18
    DEF Next

\* The model index stays complete under the publishers.
LEMMA RegistryComplete == PSpec => []ModelIndexComplete(reg)
  <1>1. PInit => ModelIndexComplete(reg)
    BY PublicationAssumption DEF PInit
  <1>2. Inv /\ ModelIndexComplete(reg) /\ [PNext]_pvars => ModelIndexComplete(reg')
    BY RegistryStep, StepComplete DEF Inv
  <1>3. ModelIndexComplete(reg)' <=> ModelIndexComplete(reg')
    BY DEF ModelIndexComplete, IsHydrated
  <1> QED BY <1>1, <1>2, <1>3, RegistryInv, PTL DEF PSpec


\* Positions tell the versions of one kind apart.
LEMMA PositionsDiffer ==
    ASSUME NEW V \in SUBSET Nodes, \A m, n \in V : Kind(m) = Kind(n),
           NEW a \in V, NEW b \in V, a # b
    PROVE  /\ Cardinality({m \in V : Version(m) <= Version(a)}) \in Nat
           /\ Cardinality({m \in V : Version(m) <= Version(a)})
                # Cardinality({m \in V : Version(m) <= Version(b)})
  <1>1. IsFiniteSet(V) /\ \A n \in V : n = <<Kind(n), Version(n)>> /\ Version(n) \in Int
    BY NodesAssumption, FS_Subset
  <1> DEFINE Upto(n) == {m \in V : Version(m) <= Version(n)}
  <1>2. IsFiniteSet(Upto(a)) /\ IsFiniteSet(Upto(b))
    BY <1>1, FS_Subset
  <1>3. Version(a) # Version(b)
    BY <1>1
  <1>4. ASSUME NEW x \in V, NEW y \in V, Version(x) < Version(y), IsFiniteSet(Upto(y))
        PROVE  Cardinality(Upto(x)) # Cardinality(Upto(y))
    <2>1. Upto(x) \in SUBSET Upto(y) /\ y \in Upto(y) /\ y \notin Upto(x)
      BY <1>1, <1>4
    <2> HIDE DEF Upto
    <2> QED BY <1>4, <2>1, FS_Subset
  <1>5. Version(a) < Version(b) \/ Version(b) < Version(a)
    BY <1>1, <1>3
  <1>6. Cardinality(Upto(a)) # Cardinality(Upto(b))
    <2>1. CASE Version(a) < Version(b)
      <3> HIDE DEF Upto
      <3> QED BY <1>2, <1>4, <2>1
    <2>2. CASE Version(b) < Version(a)
      <3> HIDE DEF Upto
      <3> QED BY <1>2, <1>4, <2>2
    <2> QED BY <1>5, <2>1, <2>2
  <1>7. Cardinality(Upto(a)) \in Nat
    BY <1>2, FS_CardinalityType
  <1> QED BY <1>6, <1>7

\* edge_path answers with one walk over executable edges that starts at one
\* version and ends at the other.
LEMMA WalkFacts ==
    ASSUME NEW V \in SUBSET Nodes, \A m, n \in V : Kind(m) = Kind(n),
           NEW exec, NEW a, NEW b, NEW disc, NEW p \in WalkAlong(V, exec, a, b, disc)
    PROVE  \E len \in Nat :
              /\ p = [i \in 1..len |-> p[i]]
              /\ \A i \in 1..len : p[i] \in exec
              /\ len = 0 <=> a = b
              /\ len # 0 => p[1].source = a /\ p[len].target = b
  <1> DEFINE at(n) == Cardinality({m \in V : Version(m) <= Version(n)})
             lo == at(a)
             hi == at(b)
             len == IF lo <= hi THEN hi - lo ELSE lo - hi
             node(i) == CHOOSE n \in V : at(n) = IF lo <= hi THEN lo + i ELSE lo - i
             walk == [i \in 1..len |->
                        [source |-> node(i - 1), target |-> node(i), disc |-> disc]]
  <1>1. /\ {a, b} \subseteq V
        /\ \A i \in DOMAIN walk : walk[i] \in exec
        /\ p = walk
    BY DEF WalkAlong
  <1>2. a \in V /\ b \in V
    BY <1>1
  <1>3. \A n \in V : at(n) \in Nat
    <2>1. IsFiniteSet(V)
      BY NodesAssumption, FS_Subset
    <2>2. ASSUME NEW n \in V PROVE IsFiniteSet({m \in V : Version(m) <= Version(n)})
      BY <2>1, FS_Subset
    <2> QED BY <2>2, FS_CardinalityType
  <1>4. \A m, n \in V : at(m) = at(n) => m = n
    BY PositionsDiffer
  <1> HIDE DEF at
  <1>5. lo \in Nat /\ hi \in Nat
    BY <1>2, <1>3
  <1>6. \A n \in V : (CHOOSE m \in V : at(m) = at(n)) = n
    <2> SUFFICES ASSUME NEW n \in V PROVE (CHOOSE m \in V : at(m) = at(n)) = n
      OBVIOUS
    <2>1. \E m \in V : at(m) = at(n)
      OBVIOUS
    <2> QED BY <1>4, <2>1
  <1>7. node(0) = a
    <2>1. lo + 0 = lo /\ lo - 0 = lo
      BY <1>5
    <2> QED BY <1>2, <1>6, <2>1
  <1>8. node(len) = b
    <2>1. (IF lo <= hi THEN lo + len ELSE lo - len) = hi
      BY <1>5
    <2> QED BY <1>2, <1>6, <2>1
  <1>9. len \in Nat /\ (len = 0 <=> a = b)
    BY <1>2, <1>4, <1>5
  <1> HIDE DEF node, len
  <1>10. DOMAIN walk = 1..len /\ walk = [i \in 1..len |-> walk[i]]
    OBVIOUS
  <1>11. ASSUME len # 0
         PROVE  walk[1].source = a /\ walk[len].target = b
    <2>1. 1 \in 1..len /\ len \in 1..len /\ 1 - 1 = 0
      BY <1>9, <1>11
    <2>2. walk[1].source = node(1 - 1) /\ walk[len].target = node(len)
      BY <2>1
    <2> QED BY <1>7, <1>8, <2>1, <2>2
  <1> HIDE DEF walk
  <1> QED BY <1>1, <1>9, <1>10, <1>11

\* The models listed by reference are registered; where no two versions share a
\* reference all of them are listed, and model_count counts them.
LEMMA ModelsListed ==
    ASSUME NEW S, Sound(S), ModelIndexComplete(S)
    PROVE  /\ AllModels(S) \subseteq UNION {ModelsOfKind(S, k) : k \in Kinds}
           /\ OneVersionPerReference =>
                 /\ AllModels(S) = UNION {ModelsOfKind(S, k) : k \in Kinds}
                 /\ ModelCount(S) = Cardinality(AllModels(S))
  <1>1. S \in Registries /\ StoresWellFormed(S) /\ ModelIndexAgrees(S)
    BY DEF Sound, IndexesAgree
  <1>2. ASSUME NEW r \in AllModels(S)
        PROVE  /\ r \in ModelRefs /\ S.models[r] \in Models /\ RefOf[S.models[r]] = r
               /\ NodeOf[S.models[r]] \in Nodes
               /\ S.nodes[NodeOf[S.models[r]]] = S.models[r]
    BY <1>1, ModelsAssumption DEF AllModels, ModelIndexAgrees, Registries
  <1>3. UNION {ModelsOfKind(S, k) : k \in Kinds} = {RefOf[S.nodes[n]] : n \in RegistryVersions(S)}
    <2>1. \A n \in Nodes : IsHydrated(S, n) => Kind(n) \in Kinds /\ n \in KindVersions(S, Kind(n))
      BY IndexFacts DEF KindVersions
    <2>2. \A k \in Kinds : KindVersions(S, k) \subseteq RegistryVersions(S)
      BY <1>1 DEF KindVersions, RegistryVersions, Registries
    <2> QED BY <2>1, <2>2 DEF ModelsOfKind, RegistryVersions
  <1>4. AllModels(S) \subseteq {RefOf[S.nodes[n]] : n \in RegistryVersions(S)}
    BY <1>2 DEF RegistryVersions, IsHydrated
  <1>5. ASSUME OneVersionPerReference
        PROVE  /\ AllModels(S) = {RefOf[S.nodes[n]] : n \in RegistryVersions(S)}
               /\ Cardinality(RegistryVersions(S)) = Cardinality(AllModels(S))
    <2> DEFINE H == RegistryVersions(S)
               A == AllModels(S)
               f == [n \in H |-> RefOf[S.nodes[n]]]
    <2>1. \A n \in H : S.nodes[n] \in Models /\ NodeOf[S.nodes[n]] = n
                       /\ S.models[RefOf[S.nodes[n]]] = S.nodes[n]
      BY <1>1, <1>5 DEF RegistryVersions, ModelIndexComplete, StoresWellFormed, IsHydrated
    <2>2. \A n \in H : RefOf[S.nodes[n]] \in A
      BY <2>1, ModelsAssumption DEF AllModels, ModelRefs
    <2>3. IsFiniteSet(H)
      BY NodesAssumption, FS_Subset DEF RegistryVersions
    <2>4. \A m, n \in H : RefOf[S.nodes[m]] = RefOf[S.nodes[n]] => m = n
      BY <2>1
    <2>5. A = {RefOf[S.nodes[n]] : n \in H}
      BY <1>4, <2>2
    <2> HIDE DEF H, A
    <2>6. f \in Surjection(H, A)
      BY <2>2, <2>5 DEF Surjection
    <2>7. f \in Injection(H, A)
      BY <2>2, <2>4 DEF Injection, IsInjective
    <2> HIDE DEF f
    <2>8. Cardinality(A) = Cardinality(H)
      BY <2>3, <2>6, <2>7, FS_Surjection
    <2> QED BY <2>5, <2>8 DEF H, A
  <1> QED BY <1>3, <1>4, <1>5 DEF ModelCount

\* The promise of SnapshotAnswersAsRegistry about one index of a manager.
IndexAnswered(S, G, i) ==
    /\ Contains(S, G, i) \subseteq {GetItem(S, G, i) # {}}
    /\ i.form = "class" => \A m \in GetItem(S, G, i) : m \in Models /\ RefOf[m] = i.ref
    /\ i.form = "slice" => \A p \in GetItem(S, G, i) :
          IF i.from = i.to THEN p = << >>
          ELSE p[1].id.source = i.from /\ p[Len(p)].id.target = i.to

\* A slice finds what it contains: every edge of the walk is in the registry,
\* which returns the migrations bound to them.
LEMMA SliceAnswered ==
    ASSUME NEW S, Sound(S), NEW i \in Indexes, i.form = "slice"
    PROVE  IndexAnswered(S, BuildGraph(S), i)
  <1> DEFINE G == BuildGraph(S)
             paths == MigrationPath(S, G, i.from, i.to)
  <1>1. i.from \in Nodes /\ i.to \in Nodes
    BY DEF Indexes
  <1>2. G.backend.exec = ExecutableEdges(S) /\ ExecutableEdges(S) \subseteq StoredEdges(S)
    BY BuiltEdges
  <1>3. VersionsOfKind(G, Kind(i.from)) = KindVersions(S, Kind(i.from))
    BY <1>1, KindLookups, KindOfNode
  <1>4. /\ KindVersions(S, Kind(i.from)) \in SUBSET Nodes
        /\ \A m, n \in KindVersions(S, Kind(i.from)) : Kind(m) = Kind(n)
    <2>1. S.kinds[Kind(i.from)] = {n \in Entries(S) : Kind(n) = Kind(i.from)}
      BY <1>1, IndexFacts
    <2> QED BY <2>1 DEF KindVersions, Entries
  <1>5. \A e \in ExecutableEdges(S) : HasExecutable(S, e) /\ S.edges[e].id = e
    BY <1>2 DEF ExecutableEdges, StoredEdges, HasExecutable, Sound, IndexesAgree, StoresWellFormed
  <1> HIDE DEF G
  <1>6. ASSUME NEW p \in paths
        PROVE  \E len \in Nat :
                  /\ p = [s \in 1..len |-> p[s]]
                  /\ \A s \in 1..len : p[s] \in ExecutableEdges(S)
                  /\ len = 0 <=> i.from = i.to
                  /\ len # 0 => p[1].source = i.from /\ p[len].target = i.to
    <2>1. p \in WalkAlong(KindVersions(S, Kind(i.from)), ExecutableEdges(S), i.from, i.to,
                          DefaultDiscriminator)
      BY <1>2, <1>3 DEF MigrationPath, EdgePath
    <2> QED BY <1>4, <2>1, WalkFacts
  <1> HIDE DEF paths
  <1>7. \A p \in paths : \A s \in DOMAIN p : HasExecutable(S, p[s])
    <2> SUFFICES ASSUME NEW p \in paths PROVE \A s \in DOMAIN p : HasExecutable(S, p[s])
      OBVIOUS
    <2>1. PICK len \in Nat : /\ p = [s \in 1..len |-> p[s]]
                             /\ \A s \in 1..len : p[s] \in ExecutableEdges(S)
      BY <1>6
    <2>2. DOMAIN p = 1..len
      BY <2>1
    <2> QED BY <1>5, <2>1, <2>2
  <1>8. GetItem(S, G, i) = {[s \in DOMAIN p |-> S.edges[p[s]]] : p \in paths}
    <2>1. {q \in paths : \A s \in DOMAIN q : HasExecutable(S, q[s])} = paths
      BY <1>7
    <2>2. GetItem(S, G, i) = {[s \in DOMAIN p |-> S.edges[p[s]]] :
             p \in {q \in paths : \A s \in DOMAIN q : HasExecutable(S, q[s])}}
      BY DEF GetItem, paths
    <2> QED BY <2>1, <2>2
  <1>9. Contains(S, G, i) = {paths # {}}
    BY DEF Contains, paths
  <1>10. ASSUME NEW p \in paths, NEW q, q = [s \in DOMAIN p |-> S.edges[p[s]]]
         PROVE  IF i.from = i.to THEN q = << >>
                ELSE q[1].id.source = i.from /\ q[Len(q)].id.target = i.to
    <2>1. PICK len \in Nat : /\ p = [s \in 1..len |-> p[s]]
                             /\ \A s \in 1..len : p[s] \in ExecutableEdges(S)
                             /\ len = 0 <=> i.from = i.to
                             /\ len # 0 => p[1].source = i.from /\ p[len].target = i.to
      BY <1>6
    <2>2. DOMAIN p = 1..len
      BY <2>1
    <2>3. q = [s \in 1..len |-> S.edges[p[s]]]
      BY <1>10, <2>2
    <2>4. CASE i.from = i.to
      <3>1. q = << >>
        BY <2>1, <2>3, <2>4
      <3> QED BY <2>4, <3>1
    <2>5. CASE i.from # i.to
      <3>1. 1 \in 1..len /\ len \in 1..len
        BY <2>1, <2>5
      <3>2. q[1] = S.edges[p[1]] /\ q[len] = S.edges[p[len]]
        BY <2>3, <3>1
      <3>3. Len(q) = len
        BY <2>3
      <3> QED BY <1>5, <2>1, <2>5, <3>1, <3>2, <3>3
    <2> QED BY <2>4, <2>5
  <1>11. i.form # "class"
    OBVIOUS
  <1>12. Contains(S, G, i) \subseteq {GetItem(S, G, i) # {}}
    <2>1. (GetItem(S, G, i) # {}) <=> (paths # {})
      BY <1>8
    <2>2. CASE paths = {}
      <3>1. Contains(S, G, i) = {FALSE}
        BY <1>9, <2>2
      <3>2. {GetItem(S, G, i) # {}} = {FALSE}
        BY <2>1, <2>2
      <3> QED BY <3>1, <3>2
    <2>3. CASE paths # {}
      <3>1. Contains(S, G, i) = {TRUE}
        BY <1>9, <2>3
      <3>2. {GetItem(S, G, i) # {}} = {TRUE}
        BY <2>1, <2>3
      <3> QED BY <3>1, <3>2
    <2> QED BY <2>2, <2>3
  <1> QED BY <1>8, <1>10, <1>11, <1>12 DEF IndexAnswered, G


\* A manager finds exactly what it says it contains.
LEMMA ManagerAnswers ==
    ASSUME NEW S, Sound(S), NEW i \in Indexes
    PROVE  IndexAnswered(S, BuildGraph(S), i)
  <1>1. i.form \in {"node", "class", "edge", "pair", "slice"}
    BY DEF Indexes
  <1>2. CASE i.form \in {"node", "edge", "pair"}
    BY <1>2 DEF IndexAnswered, Contains, GetItem
  <1>3. CASE i.form = "class"
    <2>1. i.ref \in ModelRefs
      BY <1>3 DEF Indexes
    <2>2. ASSUME NEW n \in KeyOfClass(S, i.ref), NEW m \in EntryAt(S, n)
          PROVE  m \in Models /\ RefOf[m] = i.ref
      <3>1. S.models[i.ref] # "absent" /\ n = NodeOf[S.models[i.ref]]
        BY DEF KeyOfClass, ModelByClass
      <3>2. S.models[i.ref] \in Models
        BY <2>1, <3>1 DEF Sound, Registries
      <3>3. RefOf[S.models[i.ref]] = i.ref /\ S.nodes[n] = S.models[i.ref]
        BY <2>1, <3>1 DEF Sound, IndexesAgree, ModelIndexAgrees
      <3> QED BY <3>2, <3>3 DEF EntryAt
    <2>3. GetItem(S, BuildGraph(S), i) = UNION {EntryAt(S, n) : n \in KeyOfClass(S, i.ref)}
      BY <1>3 DEF GetItem
    <2>4. Contains(S, BuildGraph(S), i) = {\E n \in KeyOfClass(S, i.ref) : EntryAt(S, n) # {}}
      BY <1>3 DEF Contains
    <2>5. (GetItem(S, BuildGraph(S), i) # {}) <=> \E n \in KeyOfClass(S, i.ref) : EntryAt(S, n) # {}
      BY <2>3
    <2>6. Contains(S, BuildGraph(S), i) \subseteq {GetItem(S, BuildGraph(S), i) # {}}
      <3>1. CASE \E n \in KeyOfClass(S, i.ref) : EntryAt(S, n) # {}
        <4>1. Contains(S, BuildGraph(S), i) = {TRUE}
          BY <2>4, <3>1
        <4>2. {GetItem(S, BuildGraph(S), i) # {}} = {TRUE}
          BY <2>5, <3>1
        <4> QED BY <4>1, <4>2
      <3>2. CASE ~\E n \in KeyOfClass(S, i.ref) : EntryAt(S, n) # {}
        <4>1. Contains(S, BuildGraph(S), i) = {FALSE}
          BY <2>4, <3>2
        <4>2. {GetItem(S, BuildGraph(S), i) # {}} = {FALSE}
          BY <2>5, <3>2
        <4> QED BY <4>1, <4>2
      <3> QED BY <3>1, <3>2
    <2> QED BY <1>3, <2>2, <2>3, <2>6 DEF IndexAnswered
  <1>4. CASE i.form = "slice"
    BY <1>4, SliceAnswered
  <1> QED BY <1>1, <1>2, <1>3, <1>4

\* A graph answers every lookup as its registry does, and a manager over the
\* registry finds exactly what it says it contains, by key, class, edge, pair or
\* slice, whatever sequence of calls built the registry.
THEOREM SnapshotAnswers == PSpec => []SnapshotAnswersAsRegistry
  <1>1. Inv /\ ModelIndexComplete(reg) /\ LookupsAgree => SnapshotAnswersAsRegistry
    <2> SUFFICES ASSUME Sound(reg), ModelIndexComplete(reg), LookupsAgree
                 PROVE  SnapshotAnswersAsRegistry
      BY DEF Inv
    <2>1. /\ AllModels(reg) \subseteq UNION {ModelsOfKind(reg, k) : k \in Kinds}
          /\ OneVersionPerReference =>
                /\ AllModels(reg) = UNION {ModelsOfKind(reg, k) : k \in Kinds}
                /\ ModelCount(reg) = Cardinality(AllModels(reg))
      BY ModelsListed
    <2>2. \A i \in Indexes : IndexAnswered(reg, BuildGraph(reg), i)
      BY ManagerAnswers
    <2> QED BY <2>1, <2>2 DEF SnapshotAnswersAsRegistry, IndexAnswered
  <1> QED BY <1>1, RegistryInv, RegistryComplete, GraphAnswersLookups, PTL

-----------------------------------------------------------------------------
(* The planner's walks. *)

\* The versions up to n, and the place of n among them.
Upto(V, n) == {m \in V : Version(m) <= Version(n)}
Place(V, n) == Cardinality(Upto(V, n))

\* Versions of one kind.
OfOneKind(V) == V \in SUBSET Nodes /\ \A m, n \in V : Kind(m) = Kind(n)

\* Places go up with versions, and every place is taken.
LEMMA PlaceFacts ==
    ASSUME NEW V, OfOneKind(V)
    PROVE  /\ Cardinality(V) \in Nat
           /\ \A n \in V : Place(V, n) \in 1..Cardinality(V)
           /\ \A m, n \in V : Version(m) \in Int /\ (Version(m) = Version(n) => m = n)
           /\ \A m, n \in V : Version(m) < Version(n) <=> Place(V, m) < Place(V, n)
           /\ \A i \in 1..Cardinality(V) : \E n \in V : Place(V, n) = i
  <1> DEFINE N == Cardinality(V)
  <1>1. /\ V \in SUBSET Nodes /\ IsFiniteSet(V)
        /\ \A m, n \in V : Version(m) \in Int /\ (Version(m) = Version(n) => m = n)
    <2>1. IsFiniteSet(V)
      BY NodesAssumption, FS_Subset DEF OfOneKind
    <2>2. \A n \in V : n = <<Kind(n), Version(n)>> /\ Version(n) \in Int
      BY NodesAssumption DEF OfOneKind
    <2>3. \A m, n \in V : Kind(m) = Kind(n)
      BY DEF OfOneKind
    <2>4. ASSUME NEW m \in V, NEW n \in V, Version(m) = Version(n) PROVE m = n
      <3>1. m = <<Kind(m), Version(m)>> /\ n = <<Kind(n), Version(n)>> /\ Kind(m) = Kind(n)
        BY <2>2, <2>3
      <3>2. PICK k, v : k = Kind(m) /\ v = Version(m)
        OBVIOUS
      <3> QED BY <2>4, <3>1, <3>2
    <2> QED BY <2>1, <2>2, <2>4 DEF OfOneKind
  <1>2. N \in Nat
    BY <1>1, FS_CardinalityType
  <1>3. ASSUME NEW n \in V
        PROVE  IsFiniteSet(Upto(V, n)) /\ Place(V, n) \in Nat /\ Place(V, n) <= N
    <2>1. Upto(V, n) \in SUBSET V
      BY DEF Upto
    <2>2. IsFiniteSet(Upto(V, n)) /\ Cardinality(Upto(V, n)) <= N
      BY <1>1, <2>1, FS_Subset
    <2>3. Cardinality(Upto(V, n)) \in Nat
      BY <2>2, FS_CardinalityType
    <2> QED BY <2>2, <2>3 DEF Place
  <1>4. ASSUME NEW n \in V
        PROVE  Place(V, n) # 0
    <2>1. n \in Upto(V, n)
      BY <1>1 DEF Upto
    <2>2. IsFiniteSet(Upto(V, n))
      BY <1>3
    <2> QED BY <2>1, <2>2, FS_EmptySet DEF Place
  <1>5. ASSUME NEW m \in V, NEW n \in V, Version(m) < Version(n)
        PROVE  Place(V, m) < Place(V, n)
    <2>1. Upto(V, m) \in SUBSET Upto(V, n) /\ n \in Upto(V, n) /\ n \notin Upto(V, m)
      BY <1>1, <1>5 DEF Upto
    <2>2. IsFiniteSet(Upto(V, n)) /\ Place(V, m) \in Nat /\ Place(V, n) \in Nat
      BY <1>3
    <2>3. Place(V, m) <= Place(V, n) /\ Place(V, m) # Place(V, n)
      BY <2>1, <2>2, FS_Subset DEF Place
    <2> QED BY <2>2, <2>3
  <1>6. ASSUME NEW m \in V, NEW n \in V, Place(V, m) < Place(V, n)
        PROVE  Version(m) < Version(n)
    <2>1. PICK v, w, p, q : /\ v = Version(m) /\ w = Version(n)
                            /\ p = Place(V, m) /\ q = Place(V, n)
      OBVIOUS
    <2>2. v \in Int /\ w \in Int /\ p \in Nat /\ q \in Nat
      BY <1>1, <1>3, <2>1
    <2>3. w < v => q < p
      BY <1>5, <2>1
    <2>4. w = v => q = p
      BY <1>1, <2>1
    <2>5. p < q
      BY <1>6, <2>1
    <2>6. v < w
      BY <2>2, <2>3, <2>4, <2>5
    <2> QED BY <2>1, <2>6
  <1> DEFINE f == [n \in V |-> Place(V, n)]
  <1>7. \A n \in V : Place(V, n) \in 1..N
    <2> HIDE DEF N
    <2> QED BY <1>2, <1>3, <1>4
  <1>8. f \in Injection(V, 1..N)
    <2>1. ASSUME NEW m \in V, NEW n \in V, f[m] = f[n]
          PROVE  m = n
      <3>1. PICK v, w, p, q : /\ v = Version(m) /\ w = Version(n)
                              /\ p = Place(V, m) /\ q = Place(V, n)
        OBVIOUS
      <3>2. v \in Int /\ w \in Int /\ p \in Nat /\ q \in Nat /\ p = q
        BY <1>1, <1>3, <2>1, <3>1
      <3>3. (v < w => p < q) /\ (w < v => q < p)
        BY <1>5, <3>1
      <3>4. v = w
        BY <3>2, <3>3
      <3> QED BY <1>1, <3>1, <3>4
    <2>2. f \in [V -> 1..N] /\ DOMAIN f = V
      <3> HIDE DEF N
      <3> QED BY <1>7
    <2> HIDE DEF f, N
    <2> QED BY <2>1, <2>2 DEF Injection, IsInjective
  <1>9. IsFiniteSet(1..N) /\ Cardinality(1..N) = N
    BY <1>2, FS_Interval
  <1>10. f \in Surjection(V, 1..N)
    <2> HIDE DEF f
    <2>1. Cardinality(V) = Cardinality(1..N)
      BY <1>9
    <2> HIDE DEF N
    <2> QED BY <1>1, <1>8, <1>9, <2>1, FS_Injection
  <1>11. \A i \in 1..N : \E n \in V : Place(V, n) = i
    <2> SUFFICES ASSUME NEW i \in 1..N PROVE \E n \in V : Place(V, n) = i
      OBVIOUS
    <2>1. PICK n \in V : f[n] = i
      <3> HIDE DEF f, N
      <3> QED BY <1>10 DEF Surjection
    <2> QED BY <2>1
  <1> QED BY <1>1, <1>2, <1>5, <1>6, <1>7, <1>11

\* The version at the next place is the next version.
LEMMA NextPlace ==
    ASSUME NEW V, OfOneKind(V), NEW m \in V, NEW n \in V
    PROVE  Place(V, m) = Place(V, n) + 1
              <=> /\ Version(m) > Version(n)
                  /\ \A l \in V : Version(l) > Version(n) => Version(m) <= Version(l)
  <1>1. /\ Cardinality(V) \in Nat
        /\ \A l \in V : Place(V, l) \in 1..Cardinality(V)
        /\ \A l, o \in V : Version(l) \in Int /\ (Version(l) = Version(o) => l = o)
        /\ \A l, o \in V : Version(l) < Version(o) <=> Place(V, l) < Place(V, o)
        /\ \A i \in 1..Cardinality(V) : \E l \in V : Place(V, l) = i
    BY PlaceFacts
  <1>2. \A l \in V : Place(V, l) \in Nat /\ Version(l) \in Int
    BY <1>1
  <1>3. PICK p, q, v, w : /\ p = Place(V, m) /\ q = Place(V, n)
                          /\ v = Version(m) /\ w = Version(n)
    OBVIOUS
  <1>4. p \in Nat /\ q \in Nat /\ v \in Int /\ w \in Int
    BY <1>2, <1>3
  <1>5. ASSUME p = q + 1
        PROVE  v > w /\ \A l \in V : Version(l) > w => v <= Version(l)
    <2>1. q < p
      BY <1>4, <1>5
    <2>2. w < v
      BY <1>1, <1>3, <2>1
    <2>3. ASSUME NEW l \in V, Version(l) > w
          PROVE  v <= Version(l)
      <3>1. PICK r, u : r = Place(V, l) /\ u = Version(l)
        OBVIOUS
      <3>2. r \in Nat /\ u \in Int /\ w < u
        BY <1>2, <1>4, <2>3, <3>1
      <3>3. q < r /\ (u < v => r < p)
        BY <1>1, <1>3, <3>1, <3>2
      <3>4. v <= u
        BY <1>4, <1>5, <3>2, <3>3
      <3> QED BY <3>1, <3>4
    <2> QED BY <1>4, <2>2, <2>3
  <1>6. ASSUME v > w, \A l \in V : Version(l) > w => v <= Version(l)
        PROVE  p = q + 1
    <2>1. w < v
      BY <1>4, <1>6
    <2>2. q < p
      BY <1>1, <1>3, <2>1
    <2>3. q + 1 \in 1..Cardinality(V)
      <3>1. p \in 1..Cardinality(V)
        BY <1>1, <1>3
      <3> QED BY <1>1, <1>4, <2>2, <3>1
    <2>4. PICK l \in V : Place(V, l) = q + 1
      BY <1>1, <2>3
    <2>5. PICK r, u : r = Place(V, l) /\ u = Version(l)
      OBVIOUS
    <2>6. r = q + 1 /\ u \in Int /\ q < r
      BY <1>2, <1>4, <2>4, <2>5
    <2>7. w < u
      BY <1>1, <1>3, <2>5, <2>6
    <2>8. v <= u
      BY <1>4, <1>6, <2>5, <2>6, <2>7
    <2>9. ~(u < v)
      BY <1>4, <2>6, <2>8
    <2>10. ~(r < p)
      BY <1>1, <1>3, <2>5, <2>9
    <2> QED BY <1>4, <2>2, <2>6, <2>10
  <1>7. p = q + 1 <=> (v > w /\ \A l \in V : Version(l) > w => v <= Version(l))
    BY <1>5, <1>6
  <1> QED BY <1>3, <1>7

\* Up from one version to a later one, edge_path finds a walk exactly when there
\* is an executable edge from every version on the way to the next.
LEMMA WalkUp ==
    ASSUME NEW V, OfOneKind(V), NEW a \in V, NEW b \in V, Kind(a) = Kind(b),
           Version(a) < Version(b), NEW exec
    PROVE  WalkAlong(V, exec, a, b, DefaultDiscriminator) # {}
              <=> \A n, m \in V :
                     /\ Version(a) <= Version(n) /\ Version(n) < Version(b)
                     /\ Version(m) > Version(n)
                     /\ \A l \in V : Version(l) > Version(n) => Version(m) <= Version(l)
                     => DefaultEdge(n, m) \in exec
  <1> DEFINE at(n) == Cardinality({m \in V : Version(m) <= Version(n)})
             lo == at(a)
             hi == at(b)
             len == IF lo <= hi THEN hi - lo ELSE lo - hi
             node(i) == CHOOSE n \in V : at(n) = IF lo <= hi THEN lo + i ELSE lo - i
             walk == [i \in 1..len |-> [source |-> node(i - 1), target |-> node(i),
                                        disc |-> DefaultDiscriminator]]
  <1>1. WalkAlong(V, exec, a, b, DefaultDiscriminator) # {}
           <=> \A i \in DOMAIN walk : walk[i] \in exec
    BY DEF WalkAlong
  <1>2. /\ Cardinality(V) \in Nat
        /\ \A l \in V : Place(V, l) \in 1..Cardinality(V)
        /\ \A l, o \in V : Version(l) \in Int /\ (Version(l) = Version(o) => l = o)
        /\ \A l, o \in V : Version(l) < Version(o) <=> Place(V, l) < Place(V, o)
        /\ \A i \in 1..Cardinality(V) : \E l \in V : Place(V, l) = i
    BY PlaceFacts
  <1>3. \A n : at(n) = Place(V, n)
    BY DEF Place, Upto
  <1> HIDE DEF at
  <1>4. /\ lo \in Nat /\ hi \in Nat /\ lo < hi
        /\ lo = Place(V, a) /\ hi = Place(V, b)
        /\ 1 <= lo /\ hi <= Cardinality(V)
    <2>1. lo = Place(V, a) /\ hi = Place(V, b)
      BY <1>3
    <2>2. lo \in 1..Cardinality(V) /\ hi \in 1..Cardinality(V) /\ lo < hi
      BY <1>2, <2>1
    <2> HIDE DEF lo, hi
    <2> QED BY <1>2, <2>1, <2>2
  <1>5. len = hi - lo
    BY <1>4
  <1>6. \A l, o \in V : Place(V, l) = Place(V, o) => l = o
    <2> SUFFICES ASSUME NEW l \in V, NEW o \in V, Place(V, l) = Place(V, o) PROVE l = o
      OBVIOUS
    <2>1. PICK p, v, w : p = Place(V, l) /\ v = Version(l) /\ w = Version(o)
      OBVIOUS
    <2>2. p \in Nat /\ v \in Int /\ w \in Int
      BY <1>2, <2>1
    <2>3. ~(v < w) /\ ~(w < v)
      BY <1>2, <2>1, <2>2
    <2>4. v = w
      BY <2>2, <2>3
    <2> QED BY <1>2, <2>1, <2>4
  <1> HIDE DEF lo, hi
  <1>7. ASSUME NEW i \in 0..len
        PROVE  node(i) \in V /\ Place(V, node(i)) = lo + i
    <2>1. lo + i \in 1..Cardinality(V) /\ lo <= hi
      BY <1>2, <1>4, <1>5
    <2>2. PICK n \in V : Place(V, n) = lo + i
      BY <1>2, <2>1
    <2>3. node(i) = CHOOSE x \in V : at(x) = lo + i
      BY <2>1
    <2>4. at(n) = lo + i
      BY <1>3, <2>2
    <2> HIDE DEF node
    <2>5. node(i) \in V /\ at(node(i)) = lo + i
      BY <2>3, <2>4
    <2> QED BY <1>3, <2>5
  <1> HIDE DEF node, len
  <1>8. len \in Nat /\ DOMAIN walk = 1..len
    BY <1>4, <1>5
  <1>9. \A i \in 1..len : walk[i] = DefaultEdge(node(i - 1), node(i))
    BY DEF DefaultEdge
  <1> HIDE DEF walk
  <1>10. ASSUME \A i \in DOMAIN walk : walk[i] \in exec,
                NEW n \in V, NEW m \in V,
                Version(a) <= Version(n), Version(n) < Version(b),
                Version(m) > Version(n),
                \A l \in V : Version(l) > Version(n) => Version(m) <= Version(l)
         PROVE  DefaultEdge(n, m) \in exec
    <2>1. Place(V, m) = Place(V, n) + 1
      BY <1>10, NextPlace
    <2>2. PICK q : q = Place(V, n)
      OBVIOUS
    <2>3. q \in Nat /\ q < hi
      BY <1>2, <1>4, <1>10, <2>2
    <2>4. ~(q < lo)
      <3>1. PICK v, w : v = Version(a) /\ w = Version(n)
        OBVIOUS
      <3>2. v \in Int /\ w \in Int /\ v <= w
        BY <1>2, <1>10, <3>1
      <3>3. ~(w < v)
        BY <3>2
      <3> QED BY <1>2, <1>4, <2>2, <3>1, <3>3
    <2>5. PICK i : i = (q - lo) + 1
      OBVIOUS
    <2>6. /\ i \in 1..len /\ i - 1 \in 0..len /\ i \in 0..len
          /\ lo + (i - 1) = q /\ lo + i = q + 1
      BY <1>4, <1>5, <2>3, <2>4, <2>5
    <2>7. node(i - 1) \in V /\ Place(V, node(i - 1)) = q
      BY <1>7, <2>6
    <2>8. node(i) \in V /\ Place(V, node(i)) = q + 1
      BY <1>7, <2>6
    <2>9. node(i - 1) = n /\ node(i) = m
      BY <1>6, <2>1, <2>2, <2>7, <2>8
    <2>10. walk[i] \in exec /\ walk[i] = DefaultEdge(node(i - 1), node(i))
      BY <1>8, <1>9, <1>10, <2>6
    <2> QED BY <2>9, <2>10
  <1>11. ASSUME NEW i \in DOMAIN walk,
                \A n, m \in V :
                     /\ Version(a) <= Version(n) /\ Version(n) < Version(b)
                     /\ Version(m) > Version(n)
                     /\ \A l \in V : Version(l) > Version(n) => Version(m) <= Version(l)
                     => DefaultEdge(n, m) \in exec
         PROVE  walk[i] \in exec
    <2>1. i \in 1..len /\ i - 1 \in 0..len /\ i \in 0..len
      BY <1>8
    <2>2. PICK n, m : n = node(i - 1) /\ m = node(i)
      OBVIOUS
    <2>3. n \in V /\ Place(V, n) = lo + (i - 1) /\ m \in V /\ Place(V, m) = lo + i
      BY <1>7, <2>1, <2>2
    <2>4. Place(V, m) = Place(V, n) + 1 /\ ~(Place(V, n) < lo) /\ Place(V, n) < hi
      BY <1>4, <1>5, <1>8, <2>1, <2>3
    <2>5. /\ Version(m) > Version(n)
          /\ \A l \in V : Version(l) > Version(n) => Version(m) <= Version(l)
      BY <2>3, <2>4, NextPlace
    <2>6. Version(n) < Version(b) /\ ~(Version(n) < Version(a))
      BY <1>2, <1>4, <2>3, <2>4
    <2>7. Version(a) <= Version(n)
      <3>1. PICK v, w : v = Version(a) /\ w = Version(n)
        OBVIOUS
      <3>2. v \in Int /\ w \in Int /\ ~(w < v)
        BY <1>2, <2>3, <2>6, <3>1
      <3>3. v <= w
        BY <3>2
      <3> QED BY <3>1, <3>3
    <2>8. DefaultEdge(n, m) \in exec
      BY <1>11, <2>3, <2>5, <2>6, <2>7
    <2> QED BY <1>9, <2>1, <2>2, <2>8
  <1> QED BY <1>1, <1>10, <1>11

\* Whatever sequence of calls built the registry, the planner of a graph finds a
\* walk up from one version to another exactly when the linter has no missing
\* migration to report for any version from the first up to the last: the two
\* read the edges through different indexes.
THEOREM WalksAlwaysFollowFindings == PSpec => []WalksFollowFindings
  <1>1. Inv => WalksFollowFindings
    <2> SUFFICES ASSUME Sound(reg),
                        NEW a \in Entries(reg), NEW b \in Entries(reg),
                        Kind(a) = Kind(b), Version(a) < Version(b),
                        IsHydrated(reg, a), IsHydrated(reg, b)
                 PROVE  EdgePath(BuildGraph(reg), a, b, DefaultDiscriminator) # {}
                           <=> \A n \in KindVersions(reg, Kind(a)) :
                                  Version(a) <= Version(n) /\ Version(n) < Version(b)
                                     => MissingMigrations(reg, n) = {}
      BY DEF Inv, WalksFollowFindings
    <2> DEFINE V == KindVersions(reg, Kind(a))
               exec == ExecutableEdges(reg)
               Next2(n, m) == /\ Version(m) > Version(n)
                              /\ \A l \in V : Version(l) > Version(n) => Version(m) <= Version(l)
    <2>1. a \in Nodes /\ b \in Nodes /\ Kind(a) \in Kinds
      BY KindOfNode DEF Entries
    <2>2. reg.kinds[Kind(a)] = {n \in Entries(reg) : Kind(n) = Kind(a)}
      BY <2>1, IndexFacts
    <2>3. OfOneKind(V) /\ a \in V /\ b \in V /\ \A n \in V : Kind(n) = Kind(a)
      BY <2>1, <2>2 DEF OfOneKind, KindVersions, Entries
    <2>4. EdgePath(BuildGraph(reg), a, b, DefaultDiscriminator)
             = WalkAlong(V, exec, a, b, DefaultDiscriminator)
      <3>1. VersionsOfKind(BuildGraph(reg), Kind(a)) = V
        BY <2>1, KindLookups
      <3>2. BuildGraph(reg).backend.exec = exec
        BY BuiltEdges
      <3> QED BY <3>1, <3>2 DEF EdgePath
    <2>5. \A e : HasExecutable(reg, e) <=> e \in exec
      BY DEF HasExecutable, ExecutableEdges
    <2>6. ASSUME NEW n \in V
          PROVE  MissingMigrations(reg, n) = {}
                    <=> \A m \in V : Next2(n, m) => DefaultEdge(n, m) \in exec
      <3>1. Kind(n) = Kind(a)
        BY <2>3
      <3>2. NextVersion(reg, n) = {m \in V : Next2(n, m)}
        BY <3>1 DEF NextVersion
      <3> HIDE DEF V, exec, Next2
      <3>3. MissingMigrations(reg, n) =
               {m \in NextVersion(reg, n) : ~HasExecutable(reg, DefaultEdge(n, m))}
        BY <3>1 DEF MissingMigrations, V
      <3> QED BY <2>5, <3>2, <3>3
    <2> HIDE DEF V, exec
    <2>7. WalkAlong(V, exec, a, b, DefaultDiscriminator) # {}
             <=> \A n, m \in V :
                    /\ Version(a) <= Version(n) /\ Version(n) < Version(b)
                    /\ Version(m) > Version(n)
                    /\ \A l \in V : Version(l) > Version(n) => Version(m) <= Version(l)
                    => DefaultEdge(n, m) \in exec
      BY <2>3, WalkUp
    <2> QED BY <2>4, <2>6, <2>7 DEF V
  <1> QED BY <1>1, RegistryInv, PTL
=============================================================================
