-------------------------- MODULE RegistryOpsProofs --------------------------
(***************************************************************************)
(* What every mutation of a registry preserves, one lemma per operator of  *)
(* RegistryOps.  Modules that drive a registry cite them action by action. *)
(***************************************************************************)
EXTENDS RegistryOps, TLAPS

\* A registry whose indexes agree with its stores.  Guards go through the
\* indexes (migrations_of, the model index, the buckets), so what they protect
\* is only as good as these.
Sound(S) ==
    /\ S \in Registries
    /\ IndexesAgree(S)

\* What a refresh reads off an object.
Views == [refs: SUBSET RefIds, key: BOOLEAN]

\* _refresh_health reads node identities and a flag off any object.
LEMMA ViewType ==
    ASSUME NEW o \in NodeObjects \cup {"absent"}
    PROVE  View(o) \in Views
  BY ModelsAssumption DEF View, Views, NodeObjects

\* The linters only report issues of the known codes.
LEMMA IssueTypes ==
    ASSUME NEW S \in Registries
    PROVE  /\ \A n \in Nodes, v \in Views : NodeIssues(S, n, v) \in SUBSET Issues
           /\ \A e \in EdgeIds : EdgeIssues(S, e) \in SUBSET Issues
  <1> USE NodesAssumption DEF RefIds
  <1>1. \A n \in Nodes : MissingMigrations(S, n) \subseteq Nodes
    BY DEF MissingMigrations, NextVersion, KindVersions, Registries, Kinds
  <1>2. \A v \in Views : MissingReferences(S, v) \subseteq RefIds
    BY DEF Views, MissingReferences
  <1>3. \A n \in Nodes, v \in Views : NodeIssues(S, n, v) \in SUBSET Issues
    BY <1>1, <1>2 DEF NodeIssues, Issues, IssueCodes
  <1>4. \A e \in EdgeIds : EdgeIssues(S, e) \in SUBSET Issues
    BY EdgesAssumption DEF EdgeIssues, Issues, IssueCodes, Ends
  <1> QED BY <1>3, <1>4

\* Every stored edge of T has a current endpoint finding, or nothing about it moved.
EdgeFindingsKept(S, T) ==
    \A e \in EdgeIds : IsStored(T.edges[e]) => FindingKept(S, T, e)

\* What is kept twice is kept.
LEMMA EdgeFindingsKeptTwice ==
    ASSUME NEW R, NEW S, NEW T, EdgeFindingsKept(R, S), EdgeFindingsKept(S, T)
    PROVE  EdgeFindingsKept(R, T)
  BY DEF EdgeFindingsKept, FindingKept

\* The cached endpoint findings are kept from S to T, and the references of T with
\* their findings are current if those of S are.
FindingsFollow(S, T) ==
    /\ EdgeFindingsKept(S, T)
    /\ ReferencesCurrent(S) => ReferencesCurrent(T)

\* Edge object o embeds what S holds under its endpoints.
EmbedsStored(S, o) == o.source = S.nodes[o.id.source] /\ o.target = S.nodes[o.id.target]

\* Two registries with the same content.
SameStores(R, S) ==
    /\ R.nodes = S.nodes /\ R.kinds = S.kinds /\ R.models = S.models
    /\ R.edges = S.edges /\ R.buckets = S.buckets /\ R.incident = S.incident
    /\ R.digests = S.digests /\ R.hooks = S.hooks /\ R.hookKeys = S.hookKeys

\* Soundness is about the content and the reference index, not the findings.
LEMMA SameStoresSound ==
    ASSUME NEW S, NEW R \in Registries, Sound(S), SameStores(R, S),
           ReferenceIndexAgrees(R)
    PROVE  Sound(R)
  <1> USE DEF SameStores, Sound, IndexesAgree
  <1>1. StoresWellFormed(R)
    BY DEF StoresWellFormed, IsHydrated
  <1>2. KindIndexAgrees(R)
    BY DEF KindIndexAgrees, HasEntry
  <1>3. ModelIndexAgrees(R)
    BY DEF ModelIndexAgrees
  <1>4. IncidenceIndexAgrees(R) /\ DigestIndexAgrees(R)
    BY DEF IncidenceIndexAgrees, DigestIndexAgrees
  <1> QED BY <1>1, <1>2, <1>3, <1>4

\* A refresh writes the references and the findings, and nothing else.
LEMMA RefreshFrame ==
    ASSUME NEW S \in Registries, NEW N \in SUBSET Nodes, NEW views \in [N -> Views],
           NEW es \in SUBSET EdgeIds
    PROVE  /\ Refresh(S, views, es) \in Registries
           /\ SameStores(Refresh(S, views, es), S)
  BY IssueTypes, NodesAssumption DEF Refresh, SameStores, Registries, Views, RefIds

\* _set_references moves an entity between the buckets of references_to in
\* step with _references_by_entity.
LEMMA RefreshReferences ==
    ASSUME NEW S \in Registries, NEW N \in SUBSET Nodes, NEW views \in [N -> Views],
           NEW es \in SUBSET EdgeIds,
           ReferenceIndexAgrees(S)
    PROVE  ReferenceIndexAgrees(Refresh(S, views, es))
  BY DEF ReferenceIndexAgrees, Refresh, Registries, Views

\* A refresh keeps a registry sound.
LEMMA RefreshSound ==
    ASSUME NEW S, Sound(S), NEW N \in SUBSET Nodes, NEW views \in [N -> Views],
           NEW es \in SUBSET EdgeIds
    PROVE  Sound(Refresh(S, views, es))
  <1>1. S \in Registries /\ ReferenceIndexAgrees(S)
    BY DEF Sound, IndexesAgree
  <1> QED BY <1>1, RefreshFrame, RefreshReferences, SameStoresSound

\* The findings of a whole registry are rebuilt without touching its content.
LEMMA RebuildSound ==
    ASSUME NEW S, Sound(S)
    PROVE  /\ Sound(Rebuild(S)) /\ SameStores(Rebuild(S), S)
           /\ \A Q : EdgeFindingsKept(Q, Rebuild(S))
  <1> DEFINE R == Rebuild(S)
  <1>1. S \in Registries
    BY DEF Sound
  <1>2. \A n \in Nodes : View(S.nodes[n]) \in Views
    BY <1>1, ViewType DEF Registries, NodeObjects
  <1>3. R \in Registries /\ SameStores(R, S)
    BY <1>1, <1>2, IssueTypes, NodesAssumption DEF Rebuild, SameStores, Registries, Views, RefIds
  <1>4. ReferenceIndexAgrees(R)
    BY <1>1, <1>2 DEF ReferenceIndexAgrees, Rebuild, Registries, Views
  <1>5. \A Q : EdgeFindingsKept(Q, R)
    <2>1. R.edgeHealth = [e \in EdgeIds |-> IF IsStored(S.edges[e])
                                            THEN EdgeIssues(S, e) ELSE {}]
      BY <1>1 DEF Rebuild, Registries
    <2> HIDE DEF R
    <2>2. \A e \in EdgeIds : EdgeIssues(R, e) = EdgeIssues(S, e)
      BY <1>3 DEF EdgeIssues, HasEntry, SameStores
    <2> QED BY <1>3, <2>1, <2>2 DEF EdgeFindingsKept, FindingKept, SameStores
  <1> QED BY <1>3, <1>4, <1>5, SameStoresSound

\* A refresh of what a node change affects writes the references and the
\* findings of nodes and edges of the registry.
LEMMA AffectedRefresh ==
    ASSUME NEW S \in Registries, NEW N \in SUBSET Nodes, NEW v \in Views,
           NEW T \in Registries
    PROVE  LET R == Refresh(T, AffectedNodes(S, N, v), AffectedEdges(S, N))
           IN  /\ SameStores(R, T)
               /\ Sound(T) => Sound(R)
  <1> DEFINE M == N \cup UNION {S.refsTo[n] : n \in N}
  <1>1. M \in SUBSET Nodes
    BY DEF Registries, RefIds
  <1>2. \A m \in M \ N : [refs |-> S.refsBy[m], key |-> TRUE] \in Views
    BY <1>1 DEF Registries, Views
  <1>3. AffectedNodes(S, N, v) \in [M -> Views]
    BY <1>2 DEF AffectedNodes
  <1>4. AffectedEdges(S, N) \in SUBSET EdgeIds
    BY DEF AffectedEdges, Registries
  <1> HIDE DEF M
  <1> QED BY <1>1, <1>3, <1>4, RefreshFrame, RefreshSound

\* The cached endpoint findings are kept by a refresh of the edges that are new or
\* whose endpoints have come or gone.
LEMMA RefreshEdgeFindings ==
    ASSUME NEW S, NEW T \in Registries, T.edgeHealth = S.edgeHealth,
           NEW N \in SUBSET Nodes, NEW views \in [N -> Views], NEW es \in SUBSET EdgeIds,
           \A e \in EdgeIds \ es : IsStored(T.edges[e]) =>
               /\ IsStored(S.edges[e])
               /\ \A n \in Ends(e) : HasEntry(T, n) <=> HasEntry(S, n)
    PROVE  EdgeFindingsKept(S, Refresh(T, views, es))
  <1> DEFINE R == Refresh(T, views, es)
  <1>1. SameStores(R, T)
    BY RefreshFrame
  <1>2. R.edgeHealth = [e \in EdgeIds |-> IF e \in es THEN EdgeIssues(T, e)
                                                       ELSE T.edgeHealth[e]]
    BY DEF Refresh, Registries
  <1> HIDE DEF R
  <1>3. \A e \in EdgeIds : EdgeIssues(R, e) = EdgeIssues(T, e)
    BY <1>1 DEF EdgeIssues, HasEntry, SameStores
  <1>4. \A e \in EdgeIds \ es : IsStored(T.edges[e]) => EdgeIssues(T, e) = EdgeIssues(S, e)
    BY DEF EdgeIssues
  <1> HIDE DEF EdgeIssues
  <1>5. EdgeFindingsKept(S, R)
    BY <1>1, <1>2, <1>3, <1>4 DEF EdgeFindingsKept, FindingKept, SameStores
  <1> QED BY <1>5 DEF R

\* The reference findings are current after a refresh that shows every changed node
\* as it is stored and reaches everyone who refers to an entry that came or went.
LEMMA RefreshReferenceFindings ==
    ASSUME NEW S, ReferencesCurrent(S), NEW T \in Registries,
           T.refsBy = S.refsBy, T.nodeHealth = S.nodeHealth,
           NEW N \in SUBSET Nodes, NEW views \in [N -> Views], NEW es \in SUBSET EdgeIds,
           \A n \in N : views[n].refs = View(T.nodes[n]).refs,
           \A n \in Nodes \ N :
               /\ T.nodes[n] = S.nodes[n]
               /\ \A r \in View(S.nodes[n]).refs : HasEntry(T, r) <=> HasEntry(S, r)
    PROVE  ReferencesCurrent(Refresh(T, views, es))
  <1> DEFINE R == Refresh(T, views, es)
  <1>1. SameStores(R, T)
    BY RefreshFrame
  <1>2. /\ R.refsBy = [n \in Nodes |-> IF n \in N THEN views[n].refs ELSE T.refsBy[n]]
        /\ R.nodeHealth = [n \in Nodes |-> IF n \in N THEN NodeIssues(T, n, views[n])
                                                       ELSE T.nodeHealth[n]]
    BY DEF Refresh, Registries
  <1> HIDE DEF R
  <1>3. \A v : MissingReferences(R, v) = MissingReferences(T, v)
    BY <1>1 DEF MissingReferences, HasEntry, SameStores
  <1>4. ASSUME NEW n \in N
        PROVE  /\ R.refsBy[n] = View(R.nodes[n]).refs
               /\ ReferenceFindings(R, n) = MissingReferences(R, View(R.nodes[n]))
    <2>1. R.nodeHealth[n] = NodeIssues(T, n, views[n]) /\ R.refsBy[n] = views[n].refs
      BY <1>2
    <2>2. ReferenceFindings(R, n) = {r \in RefIds : r \in MissingReferences(T, views[n])}
      BY <2>1 DEF ReferenceFindings, NodeIssues
    <2>3. MissingReferences(T, views[n]) \subseteq RefIds
      BY DEF MissingReferences, Views
    <2>4. MissingReferences(T, views[n]) = MissingReferences(T, View(T.nodes[n]))
      BY DEF MissingReferences
    <2> QED BY <1>1, <1>3, <2>1, <2>2, <2>3, <2>4 DEF SameStores
  <1>5. ASSUME NEW n \in Nodes \ N
        PROVE  /\ R.refsBy[n] = View(R.nodes[n]).refs
               /\ ReferenceFindings(R, n) = MissingReferences(R, View(R.nodes[n]))
    <2>1. R.nodeHealth[n] = S.nodeHealth[n] /\ R.refsBy[n] = S.refsBy[n]
      BY <1>2
    <2>2. ReferenceFindings(R, n) = ReferenceFindings(S, n)
      BY <2>1 DEF ReferenceFindings
    <2>3. MissingReferences(T, View(S.nodes[n])) = MissingReferences(S, View(S.nodes[n]))
      BY DEF MissingReferences
    <2> QED BY <1>1, <1>3, <2>1, <2>2, <2>3 DEF SameStores, ReferencesCurrent
  <1>6. ReferencesCurrent(R)
    BY <1>4, <1>5 DEF ReferencesCurrent
  <1> QED BY <1>6 DEF R

\* _affected_by_node_change names every edge at the changed nodes and everyone
\* who refers to them, because the incidence and the reference index are exact.
LEMMA AffectedFindings ==
    ASSUME NEW S, Sound(S), NEW N \in SUBSET Nodes, NEW v \in Views,
           NEW T \in Registries,
           T.edges = S.edges, T.refsBy = S.refsBy,
           T.nodeHealth = S.nodeHealth, T.edgeHealth = S.edgeHealth,
           \A n \in Nodes \ N : T.nodes[n] = S.nodes[n],
           \A n \in N : v.refs = View(T.nodes[n]).refs
    PROVE  LET R == Refresh(T, AffectedNodes(S, N, v), AffectedEdges(S, N))
           IN  /\ EdgeFindingsKept(S, R)
               /\ ReferencesCurrent(S) => ReferencesCurrent(R)
  <1> DEFINE M == N \cup UNION {S.refsTo[n] : n \in N}
             views == AffectedNodes(S, N, v)
             es == AffectedEdges(S, N)
  <1>0. S \in Registries
    BY DEF Sound
  <1>1. M \in SUBSET Nodes
    BY <1>0 DEF Registries, RefIds
  <1>2. \A m \in M \ N : [refs |-> S.refsBy[m], key |-> TRUE] \in Views
    BY <1>0, <1>1 DEF Registries, Views
  <1>3. views = [m \in M |-> IF m \in N THEN v ELSE [refs |-> S.refsBy[m], key |-> TRUE]]
    BY DEF AffectedNodes
  <1>4. views \in [M -> Views]
    BY <1>2, <1>3
  <1>5. es \in SUBSET EdgeIds
    BY <1>0 DEF AffectedEdges, Registries
  <1>6. \A e \in EdgeIds \ es : IsStored(S.edges[e]) => Ends(e) \cap N = {}
    BY DEF AffectedEdges, Sound, IndexesAgree, IncidenceIndexAgrees
  <1>7. \A n \in Nodes \ M : \A r \in N : r \notin S.refsBy[n]
    BY DEF Sound, IndexesAgree, ReferenceIndexAgrees, RefIds
  <1> HIDE DEF M, views, es
  <1>8. \A e \in EdgeIds : Ends(e) \subseteq Nodes
    BY EdgesAssumption DEF Ends
  <1>9. EdgeFindingsKept(S, Refresh(T, views, es))
    <2>1. \A e \in EdgeIds \ es : IsStored(T.edges[e]) =>
               /\ IsStored(S.edges[e])
               /\ \A n \in Ends(e) : HasEntry(T, n) <=> HasEntry(S, n)
      BY <1>6, <1>8 DEF HasEntry
    <2> QED BY <1>1, <1>4, <1>5, <2>1, RefreshEdgeFindings
  <1>10. ASSUME ReferencesCurrent(S)
         PROVE  ReferencesCurrent(Refresh(T, views, es))
    <2>1. \A n \in Nodes : S.refsBy[n] = View(S.nodes[n]).refs
      BY <1>10 DEF ReferencesCurrent
    <2>2. \A n \in M : views[n].refs = View(T.nodes[n]).refs
      BY <1>1, <1>3, <2>1
    <2>3. \A n \in Nodes \ M :
               /\ T.nodes[n] = S.nodes[n]
               /\ \A r \in View(S.nodes[n]).refs : HasEntry(T, r) <=> HasEntry(S, r)
      BY <1>7, <2>1 DEF HasEntry, M
    <2> QED BY <1>1, <1>4, <1>5, <1>10, <2>2, <2>3, RefreshReferenceFindings
  <1> QED BY <1>9, <1>10 DEF views, es

\* Kinds has the kind of every node.
LEMMA KindOfNode == \A n \in Nodes : Kind(n) \in Kinds
  BY DEF Kinds

\* The edges a guard sees at a node are the executable edges that end there.
LEMMA MigrationsOfExact ==
    ASSUME NEW S, Sound(S), NEW n \in Nodes
    PROVE  MigrationsOf(S, n) = {e \in EdgeIds : IsExecutable(S.edges[e]) /\ n \in Ends(e)}
  BY EdgesAssumption
  DEF MigrationsOf, Sound, IndexesAgree, IncidenceIndexAgrees, IsStored, IsExecutable

-----------------------------------------------------------------------------
(* Nodes.  Each lemma says what the operation does to the stores and that  *)
(* the indexes follow.                                                     *)

\* store puts the new entry into the kind index and, if it is a model, into the
\* model index.
LEMMA StoreEntrySound ==
    ASSUME NEW S, Sound(S), NEW n \in Nodes, CanStore(S, n),
           NEW o \in {"key"} \cup {m \in Models : NodeOf[m] = n}
    PROVE  /\ Sound(StoreEntry(S, n, o))
           /\ StoreEntry(S, n, o).nodes = [S.nodes EXCEPT ![n] = o]
           /\ StoreEntry(S, n, o).edges = S.edges
           /\ StoreEntry(S, n, o).hookKeys = S.hookKeys
           /\ StoreEntry(S, n, o).hooks = S.hooks
           /\ FindingsFollow(S, StoreEntry(S, n, o))
  <1> DEFINE T == [S EXCEPT !.nodes[n] = o,
                            !.kinds[Kind(n)] = @ \cup {n},
                            !.models = [r \in ModelRefs |->
                                IF o \in Models /\ r = RefOf[o] THEN o ELSE @[r]]]
  <1>1. S \in Registries /\ S.nodes[n] = "absent"
    BY DEF Sound, CanStore, HasEntry
  <1>2. T \in Registries
    BY ZenonT(40), <1>1, KindOfNode DEF Registries
  <1>3. /\ T.nodes = [S.nodes EXCEPT ![n] = o]
        /\ T.kinds = [S.kinds EXCEPT ![Kind(n)] = @ \cup {n}]
        /\ T.models = [r \in ModelRefs |->
                         IF o \in Models /\ r = RefOf[o] THEN o ELSE S.models[r]]
        /\ T.edges = S.edges /\ T.buckets = S.buckets /\ T.incident = S.incident
        /\ T.digests = S.digests /\ T.hooks = S.hooks /\ T.hookKeys = S.hookKeys
        /\ T.refsBy = S.refsBy /\ T.refsTo = S.refsTo
        /\ T.nodeHealth = S.nodeHealth /\ T.edgeHealth = S.edgeHealth
    BY <1>1 DEF Registries
  <1> HIDE DEF T
  <1>4. StoresWellFormed(T)
    BY <1>1, <1>3, ModelsAssumption
    DEF Sound, IndexesAgree, StoresWellFormed, IsHydrated, Registries
  <1>5. KindIndexAgrees(T)
    BY <1>1, <1>3, KindOfNode, ModelsAssumption
    DEF Sound, IndexesAgree, KindIndexAgrees, HasEntry, Registries
  <1>6. ModelIndexAgrees(T)
    BY <1>1, <1>3, ModelsAssumption
    DEF Sound, IndexesAgree, ModelIndexAgrees, Registries
  <1>7. IncidenceIndexAgrees(T) /\ DigestIndexAgrees(T) /\ ReferenceIndexAgrees(T)
    BY <1>3
    DEF Sound, IndexesAgree, IncidenceIndexAgrees, DigestIndexAgrees, ReferenceIndexAgrees
  <1>8. Sound(T)
    BY <1>2, <1>4, <1>5, <1>6, <1>7 DEF Sound, IndexesAgree
  <1>9. View(o) \in Views
    BY ViewType DEF NodeObjects
  <1>10. StoreEntry(S, n, o) = Refresh(T, AffectedNodes(S, {n}, View(o)),
                                         AffectedEdges(S, {n}))
    BY DEF StoreEntry, T
  <1>11. FindingsFollow(S, StoreEntry(S, n, o))
    <2> DEFINE N == {n}
               v == View(o)
    <2>1. /\ \A m \in Nodes \ N : T.nodes[m] = S.nodes[m]
          /\ \A m \in N : v.refs = View(T.nodes[m]).refs
          /\ N \in SUBSET Nodes /\ v \in Views
      BY <1>1, <1>3, <1>9 DEF Registries
    <2>2. StoreEntry(S, n, o) = Refresh(T, AffectedNodes(S, N, v), AffectedEdges(S, N))
      BY <1>10
    <2>3. /\ T.edges = S.edges /\ T.refsBy = S.refsBy
          /\ T.nodeHealth = S.nodeHealth /\ T.edgeHealth = S.edgeHealth
      BY <1>3
    <2> HIDE DEF N, v
    <2>4. /\ EdgeFindingsKept(S, Refresh(T, AffectedNodes(S, N, v), AffectedEdges(S, N)))
          /\ ReferencesCurrent(S) =>
                ReferencesCurrent(Refresh(T, AffectedNodes(S, N, v), AffectedEdges(S, N)))
      BY <1>2, <2>1, <2>3, AffectedFindings
    <2> QED BY <2>2, <2>4 DEF FindingsFollow
  <1> QED
    BY <1>1, <1>2, <1>3, <1>8, <1>9, <1>10, <1>11, AffectedRefresh DEF SameStores

\* remove_entry and remove_model take the nodes out of the kind and the model
\* index; edges are not touched.
LEMMA RemoveEntriesSound ==
    ASSUME NEW S, Sound(S), NEW N \in SUBSET Nodes
    PROVE  /\ Sound(RemoveEntries(S, N))
           /\ RemoveEntries(S, N).nodes =
                [n \in Nodes |-> IF n \in N THEN "absent" ELSE S.nodes[n]]
           /\ RemoveEntries(S, N).edges = S.edges
           /\ RemoveEntries(S, N).hookKeys = S.hookKeys
           /\ RemoveEntries(S, N).hooks = S.hooks
           /\ FindingsFollow(S, RemoveEntries(S, N))
  <1> DEFINE T == [S EXCEPT
                    !.nodes = [n \in Nodes |-> IF n \in N THEN "absent" ELSE @[n]],
                    !.kinds = [k \in Kinds |-> @[k] \ N],
                    !.models = [r \in ModelRefs |->
                        IF \E n \in N : IsHydrated(S, n) /\ RefOf[S.nodes[n]] = r
                        THEN "absent" ELSE @[r]]]
  <1>1. S \in Registries
    BY DEF Sound
  <1>2. T \in Registries
    BY <1>1 DEF Registries
  <1>3. /\ T.nodes = [n \in Nodes |-> IF n \in N THEN "absent" ELSE S.nodes[n]]
        /\ T.kinds = [k \in Kinds |-> S.kinds[k] \ N]
        /\ T.models = [r \in ModelRefs |->
                         IF \E n \in N : IsHydrated(S, n) /\ RefOf[S.nodes[n]] = r
                         THEN "absent" ELSE S.models[r]]
        /\ T.edges = S.edges /\ T.buckets = S.buckets /\ T.incident = S.incident
        /\ T.digests = S.digests /\ T.hooks = S.hooks /\ T.hookKeys = S.hookKeys
        /\ T.refsBy = S.refsBy /\ T.refsTo = S.refsTo
        /\ T.nodeHealth = S.nodeHealth /\ T.edgeHealth = S.edgeHealth
    BY <1>1 DEF Registries
  <1> HIDE DEF T
  <1>4. StoresWellFormed(T)
    BY <1>1, <1>3, ModelsAssumption
    DEF Sound, IndexesAgree, StoresWellFormed, IsHydrated, Registries
  <1>5. KindIndexAgrees(T)
    BY <1>1, <1>3 DEF Sound, IndexesAgree, KindIndexAgrees, HasEntry, Registries
  <1>6. ModelIndexAgrees(T)
    BY <1>1, <1>3, ModelsAssumption
    DEF Sound, IndexesAgree, ModelIndexAgrees, IsHydrated, Registries
  <1>7. IncidenceIndexAgrees(T) /\ DigestIndexAgrees(T) /\ ReferenceIndexAgrees(T)
    BY <1>3
    DEF Sound, IndexesAgree, IncidenceIndexAgrees, DigestIndexAgrees, ReferenceIndexAgrees
  <1>8. Sound(T)
    BY <1>2, <1>4, <1>5, <1>6, <1>7 DEF Sound, IndexesAgree
  <1>9. Dropped \in Views
    BY DEF Dropped, Views
  <1>10. RemoveEntries(S, N) = Refresh(T, AffectedNodes(S, N, Dropped),
                                          AffectedEdges(S, N))
    BY DEF RemoveEntries, T
  <1>11. FindingsFollow(S, RemoveEntries(S, N))
    <2>1. /\ \A n \in Nodes \ N : T.nodes[n] = S.nodes[n]
          /\ \A n \in N : Dropped.refs = View(T.nodes[n]).refs
      BY <1>3, ModelsAssumption DEF Dropped, View
    <2> DEFINE v == Dropped
    <2>2. v \in Views /\ \A n \in N : v.refs = View(T.nodes[n]).refs
      BY <1>9, <2>1
    <2>3. RemoveEntries(S, N) = Refresh(T, AffectedNodes(S, N, v), AffectedEdges(S, N))
      BY <1>10
    <2>4. /\ T.edges = S.edges /\ T.refsBy = S.refsBy
          /\ T.nodeHealth = S.nodeHealth /\ T.edgeHealth = S.edgeHealth
      BY <1>3
    <2> HIDE DEF v
    <2>5. /\ EdgeFindingsKept(S, Refresh(T, AffectedNodes(S, N, v), AffectedEdges(S, N)))
          /\ ReferencesCurrent(S) =>
                ReferencesCurrent(Refresh(T, AffectedNodes(S, N, v), AffectedEdges(S, N)))
      BY <1>2, <2>1, <2>2, <2>4, AffectedFindings
    <2> QED BY <2>3, <2>5 DEF FindingsFollow
  <1> QED
    BY <1>1, <1>2, <1>3, <1>8, <1>9, <1>10, <1>11, AffectedRefresh DEF SameStores

\* reconcile stores a new model or keeps what is there.
LEMMA ReconcileSound ==
    ASSUME NEW S, Sound(S), NEW m \in Models
    PROVE  /\ Sound(Reconcile(S, m))
           /\ Reconcile(S, m).nodes = IF HasEntry(S, NodeOf[m]) THEN S.nodes
                                      ELSE [S.nodes EXCEPT ![NodeOf[m]] = m]
           /\ Reconcile(S, m).edges = S.edges
           /\ Reconcile(S, m).hookKeys = S.hookKeys
           /\ Reconcile(S, m).hooks = S.hooks
           /\ FindingsFollow(S, Reconcile(S, m))
  <1>1. CASE HasEntry(S, NodeOf[m])
    BY <1>1 DEF Reconcile, FindingsFollow, EdgeFindingsKept, FindingKept
  <1>2. CASE ~HasEntry(S, NodeOf[m])
    <2> DEFINE n == NodeOf[m]
    <2>1. /\ n \in Nodes /\ CanStore(S, n)
          /\ m \in {"key"} \cup {l \in Models : NodeOf[l] = n}
      BY <1>2, ModelsAssumption DEF CanStore
    <2>2. Reconcile(S, m) = StoreEntry(S, n, m)
      BY <1>2 DEF Reconcile
    <2> HIDE DEF n
    <2>3. /\ Sound(StoreEntry(S, n, m))
          /\ StoreEntry(S, n, m).nodes = [S.nodes EXCEPT ![n] = m]
          /\ StoreEntry(S, n, m).edges = S.edges
          /\ StoreEntry(S, n, m).hookKeys = S.hookKeys
          /\ StoreEntry(S, n, m).hooks = S.hooks
          /\ FindingsFollow(S, StoreEntry(S, n, m))
      BY <2>1, StoreEntrySound
    <2> QED BY <1>2, <2>2, <2>3 DEF n
  <1> QED BY <1>1, <1>2

\* hydrate fills a placeholder or reconciles.
LEMMA HydrateSound ==
    ASSUME NEW S, Sound(S), NEW m \in Models
    PROVE  /\ Sound(Hydrate(S, m))
           /\ Hydrate(S, m).nodes = IF S.nodes[NodeOf[m]] \in {"absent", "key"}
                                    THEN [S.nodes EXCEPT ![NodeOf[m]] = m]
                                    ELSE S.nodes
           /\ Hydrate(S, m).edges = S.edges
           /\ Hydrate(S, m).hookKeys = S.hookKeys
           /\ Hydrate(S, m).hooks = S.hooks
           /\ FindingsFollow(S, Hydrate(S, m))
  <1> DEFINE n == NodeOf[m]
  <1>1. n \in Nodes /\ S.nodes \in [Nodes -> {"absent", "key"} \cup Models]
    BY ModelsAssumption DEF Sound, Registries
  <1>2. CASE S.nodes[n] = "key"
    <2> DEFINE R == RemoveEntries(S, {n})
    <2>1. /\ Sound(R)
          /\ R.nodes = [l \in Nodes |-> IF l \in {n} THEN "absent" ELSE S.nodes[l]]
          /\ R.edges = S.edges
          /\ R.hookKeys = S.hookKeys /\ R.hooks = S.hooks /\ FindingsFollow(S, R)
      BY <1>1, RemoveEntriesSound
    <2>2. Hydrate(S, m) = StoreEntry(R, n, m)
      BY <1>2 DEF Hydrate
    <2> HIDE DEF R
    <2>3. CanStore(R, n)
      BY <1>1, <2>1 DEF CanStore, HasEntry
    <2>4. [R.nodes EXCEPT ![n] = m] = [S.nodes EXCEPT ![n] = m]
      BY <1>1, <2>1
    <2>5. m \in {"key"} \cup {l \in Models : NodeOf[l] = n}
      OBVIOUS
    <2> HIDE DEF n
    <2>6. /\ Sound(StoreEntry(R, n, m))
          /\ StoreEntry(R, n, m).nodes = [R.nodes EXCEPT ![n] = m]
          /\ StoreEntry(R, n, m).edges = R.edges
          /\ StoreEntry(R, n, m).hookKeys = R.hookKeys
          /\ StoreEntry(R, n, m).hooks = R.hooks
          /\ FindingsFollow(R, StoreEntry(R, n, m))
      BY <1>1, <2>1, <2>3, <2>5, StoreEntrySound
    <2>7. FindingsFollow(S, StoreEntry(R, n, m))
      BY <2>1, <2>6, EdgeFindingsKeptTwice DEF FindingsFollow
    <2> QED BY <1>2, <2>1, <2>2, <2>4, <2>6, <2>7 DEF n
  <1>3. CASE S.nodes[n] # "key"
    BY <1>1, <1>3, ReconcileSound DEF Hydrate, HasEntry
  <1> QED BY <1>2, <1>3

\* clear_models runs only when no kind has a bucket, hence no edge.
LEMMA ClearModelsSound ==
    ASSUME NEW S, Sound(S), CanClearModels(S)
    PROVE  /\ Sound(ClearModels(S))
           /\ ClearModels(S).nodes = [n \in Nodes |-> "absent"]
           /\ ClearModels(S).edges = S.edges
           /\ ClearModels(S).hookKeys = S.hookKeys
           /\ \A e \in EdgeIds : ~IsStored(S.edges[e]) /\ ~IsExecutable(S.edges[e])
           /\ EdgeFindingsKept(S, ClearModels(S))
  <1> DEFINE T == [S EXCEPT !.nodes  = [n \in Nodes |-> "absent"],
                            !.kinds  = [k \in Kinds |-> {}],
                            !.models = [r \in ModelRefs |-> "absent"]]
  <1>1. S \in Registries
    BY DEF Sound
  <1>2. \A e \in EdgeIds : ~IsStored(S.edges[e]) /\ ~IsExecutable(S.edges[e])
    BY EdgesAssumption
    DEF Sound, IndexesAgree, StoresWellFormed, CanClearModels, IsStored, IsExecutable
  <1>3. /\ T \in Registries
        /\ T.nodes = [n \in Nodes |-> "absent"]
        /\ T.kinds = [k \in Kinds |-> {}]
        /\ T.models = [r \in ModelRefs |-> "absent"]
        /\ T.edges = S.edges /\ T.buckets = S.buckets /\ T.incident = S.incident
        /\ T.digests = S.digests /\ T.hooks = S.hooks /\ T.hookKeys = S.hookKeys
        /\ T.refsBy = S.refsBy /\ T.refsTo = S.refsTo
        /\ T.nodeHealth = S.nodeHealth /\ T.edgeHealth = S.edgeHealth
    BY <1>1 DEF Registries
  <1> HIDE DEF T
  <1>4. StoresWellFormed(T)
    BY <1>3, <1>2, ModelsAssumption
    DEF Sound, IndexesAgree, StoresWellFormed, IsHydrated
  <1>5. KindIndexAgrees(T) /\ ModelIndexAgrees(T)
    BY <1>3 DEF KindIndexAgrees, ModelIndexAgrees, HasEntry
  <1>6. IncidenceIndexAgrees(T) /\ DigestIndexAgrees(T) /\ ReferenceIndexAgrees(T)
    BY <1>3
    DEF Sound, IndexesAgree, IncidenceIndexAgrees, DigestIndexAgrees, ReferenceIndexAgrees
  <1>7. Sound(T)
    BY <1>3, <1>4, <1>5, <1>6 DEF Sound, IndexesAgree
  <1>8. ClearModels(S) = Rebuild(T)
    BY DEF ClearModels, T
  <1> QED BY <1>2, <1>3, <1>7, <1>8, RebuildSound DEF SameStores

-----------------------------------------------------------------------------
(* Migrations and hooks. *)

\* An edge object shows the two nodes it embeds.
LEMMA EdgeViewsType ==
    ASSUME NEW o, o.id \in EdgeIds, o.source \in NodeObjects, o.target \in NodeObjects
    PROVE  EdgeViews(o) \in [Ends(o.id) -> Views] /\ Ends(o.id) \in SUBSET Nodes
  BY ViewType, EdgesAssumption DEF EdgeViews, Ends

\* store_migration inserts an edge, upgrades a key-only one or keeps what is
\* there; buckets, incidence and digests follow.
LEMMA StoreEdgeSound ==
    ASSUME NEW S, Sound(S), NEW o \in EdgeObjects
    PROVE  /\ Sound(StoreEdge(S, o))
           /\ StoreEdge(S, o).nodes = S.nodes
           /\ \/ StoreEdge(S, o) = S /\ IsStored(S.edges[o.id])
              \/ /\ ~IsExecutable(S.edges[o.id])
                 /\ StoreEdge(S, o).edges = [S.edges EXCEPT ![o.id] = o]
           /\ StoreEdge(S, o).hookKeys = S.hookKeys
           /\ StoreEdge(S, o).hooks = S.hooks
           /\ EdgeFindingsKept(S, StoreEdge(S, o))
           /\ ReferencesCurrent(S) /\ EmbedsStored(S, o) => ReferencesCurrent(StoreEdge(S, o))
  <1>1. CASE IsStored(S.edges[o.id]) /\ ~(IsExecutable(o) /\ ~IsExecutable(S.edges[o.id]))
    BY <1>1 DEF StoreEdge, EdgeFindingsKept, FindingKept
  <1>2. CASE ~(IsStored(S.edges[o.id]) /\ ~(IsExecutable(o) /\ ~IsExecutable(S.edges[o.id])))
    <2> DEFINE T == [S EXCEPT
                      !.edges[o.id] = o,
                      !.buckets = @ \cup {Kind(o.id.source)},
                      !.incident = [n \in Nodes |-> IF n \in Ends(o.id)
                                                    THEN @[n] \cup {o.id} ELSE @[n]],
                      !.digests = IF IsExecutable(o) THEN @ \cup {o} ELSE @]
    <2>1. /\ S \in Registries /\ o.id \in EdgeIds
          /\ o.source \in NodeObjects /\ o.target \in NodeObjects
          /\ o.func \in Funcs \cup {NoFunc}
          /\ Kind(o.id.source) \in Kinds
      BY EdgesAssumption, KindOfNode DEF Sound, EdgeObjects
    <2>2. T \in Registries
      BY ZenonT(40), <2>1 DEF Registries
    <2>3. /\ T.edges = [S.edges EXCEPT ![o.id] = o]
          /\ T.buckets = S.buckets \cup {Kind(o.id.source)}
          /\ T.incident = [n \in Nodes |-> IF n \in Ends(o.id)
                                           THEN S.incident[n] \cup {o.id}
                                           ELSE S.incident[n]]
          /\ T.digests = IF IsExecutable(o) THEN S.digests \cup {o} ELSE S.digests
          /\ T.nodes = S.nodes /\ T.kinds = S.kinds /\ T.models = S.models
          /\ T.hooks = S.hooks /\ T.hookKeys = S.hookKeys
          /\ T.refsBy = S.refsBy /\ T.refsTo = S.refsTo
          /\ T.nodeHealth = S.nodeHealth /\ T.edgeHealth = S.edgeHealth
      BY <2>1 DEF Registries
    <2> HIDE DEF T
    <2>4. IsStored(o) /\ ~IsExecutable(S.edges[o.id])
      BY <1>2, <2>1, EdgesAssumption DEF IsStored, IsExecutable, NoFunc
    <2>5. S.edges \in [EdgeIds -> EdgeObjects \cup {NoEdge}]
      BY <2>1 DEF Registries
    <2>6. StoresWellFormed(T)
      BY <2>1, <2>3, <2>5 DEF Sound, IndexesAgree, StoresWellFormed, IsHydrated
    <2>7. KindIndexAgrees(T) /\ ModelIndexAgrees(T) /\ ReferenceIndexAgrees(T)
      BY <2>3
      DEF Sound, IndexesAgree, KindIndexAgrees, ModelIndexAgrees, ReferenceIndexAgrees, HasEntry
    <2>8. IncidenceIndexAgrees(T)
      BY <2>1, <2>3, <2>4, <2>5 DEF Sound, IndexesAgree, IncidenceIndexAgrees
    <2>9. DigestIndexAgrees(T)
      BY <2>1, <2>3, <2>4, <2>5 DEF Sound, IndexesAgree, DigestIndexAgrees
    <2>10. Sound(T)
      BY <2>2, <2>6, <2>7, <2>8, <2>9 DEF Sound, IndexesAgree
    <2>11. StoreEdge(S, o) = Refresh(T, EdgeViews(o), {o.id})
      BY <1>2 DEF StoreEdge, T
    <2>12. Sound(StoreEdge(S, o)) /\ SameStores(StoreEdge(S, o), T)
      BY <2>1, <2>2, <2>10, <2>11, EdgeViewsType, RefreshSound, RefreshFrame
    <2> DEFINE N == Ends(o.id)
               views == EdgeViews(o)
               es == {o.id}
    <2>15. /\ N \in SUBSET Nodes /\ views \in [N -> Views] /\ es \in SUBSET EdgeIds
           /\ T.refsBy = S.refsBy /\ T.nodeHealth = S.nodeHealth /\ T.edgeHealth = S.edgeHealth
           /\ StoreEdge(S, o) = Refresh(T, views, es)
      BY <2>1, <2>3, <2>11, EdgeViewsType
    <2>13. EdgeFindingsKept(S, StoreEdge(S, o))
      <3>1. \A e \in EdgeIds \ es : IsStored(T.edges[e]) =>
               /\ IsStored(S.edges[e])
               /\ \A n \in Ends(e) : HasEntry(T, n) <=> HasEntry(S, n)
        BY <2>3, <2>5 DEF HasEntry
      <3> HIDE DEF views, es, N
      <3>2. EdgeFindingsKept(S, Refresh(T, views, es))
        BY <2>2, <2>15, <3>1, RefreshEdgeFindings
      <3> QED BY <2>15, <3>2
    <2>14. ASSUME ReferencesCurrent(S), EmbedsStored(S, o)
           PROVE  ReferencesCurrent(StoreEdge(S, o))
      <3>1. \A n \in N : views[n].refs = View(T.nodes[n]).refs
        BY <2>3, <2>14 DEF EdgeViews, EmbedsStored, Ends
      <3>2. \A n \in Nodes \ N :
               /\ T.nodes[n] = S.nodes[n]
               /\ \A r \in View(S.nodes[n]).refs : HasEntry(T, r) <=> HasEntry(S, r)
        BY <2>3 DEF HasEntry
      <3> HIDE DEF views, es, N
      <3>3. ReferencesCurrent(Refresh(T, views, es))
        BY <2>2, <2>14, <2>15, <3>1, <3>2, RefreshReferenceFindings
      <3> QED BY <2>15, <3>3
    <2> QED BY <2>3, <2>4, <2>12, <2>13, <2>14 DEF SameStores
  <1> QED BY <1>1, <1>2

\* remove_migration takes stored edges out of the buckets, the incidence index
\* and the digest index; an edge is found under its own identity, so no other
\* edge's digest goes with it.
LEMMA RemoveEdgesSound ==
    ASSUME NEW S, Sound(S), NEW K \in SUBSET EdgeIds, \A e \in K : IsStored(S.edges[e])
    PROVE  /\ Sound(RemoveEdges(S, K))
           /\ RemoveEdges(S, K).nodes = S.nodes
           /\ RemoveEdges(S, K).kinds = S.kinds
           /\ RemoveEdges(S, K).edges =
                [e \in EdgeIds |-> IF e \in K THEN NoEdge ELSE S.edges[e]]
           /\ RemoveEdges(S, K).hookKeys = S.hookKeys
           /\ RemoveEdges(S, K).hooks = S.hooks
           /\ EdgeFindingsKept(S, RemoveEdges(S, K))
           /\ ReferencesCurrent(S) /\ (\A e \in K : EmbedsStored(S, S.edges[e])) =>
                 ReferencesCurrent(RemoveEdges(S, K))
  <1> DEFINE T == [S EXCEPT
                    !.edges = [e \in EdgeIds |-> IF e \in K THEN NoEdge ELSE @[e]],
                    !.buckets = @ \ {k \in Kinds :
                                   /\ \E e \in K : Kind(e.source) = k
                                   /\ \A e \in EdgeIds \ K :
                                        Kind(e.source) = k => ~IsStored(S.edges[e])},
                    !.incident = [n \in Nodes |-> @[n] \ K],
                    !.digests = @ \ {S.edges[e] : e \in K}]
             ends == UNION {Ends(e) : e \in K}
             viewOf(n) ==
                 IF \E e \in K : e.source = n
                 THEN View(S.edges[CHOOSE e \in K : e.source = n].source)
                 ELSE View(S.edges[CHOOSE e \in K : e.target = n].target)
             R == Refresh(T, [n \in ends |-> viewOf(n)], {})
             F == [R EXCEPT !.edgeHealth = [e \in EdgeIds |-> IF e \in K THEN {} ELSE @[e]]]
  <1>1. S \in Registries /\ S.edges \in [EdgeIds -> EdgeObjects \cup {NoEdge}]
    BY DEF Sound, Registries
  <1>2. \A e \in K : S.edges[e] \in EdgeObjects /\ S.edges[e].id = e
    BY <1>1 DEF Sound, IndexesAgree, StoresWellFormed, IsStored, NoEdge
  <1>3. ends \in SUBSET Nodes
    BY EdgesAssumption DEF Ends
  <1>4. \A n \in ends : viewOf(n) \in Views
    <2> TAKE n \in ends
    <2>1. CASE \E e \in K : e.source = n
      <3> DEFINE c == CHOOSE e \in K : e.source = n
      <3>1. c \in K
        BY <2>1
      <3>2. S.edges[c].source \in NodeObjects
        BY <1>2, <3>1 DEF EdgeObjects
      <3> HIDE DEF c
      <3>3. View(S.edges[c].source) \in Views
        BY <3>2, ViewType
      <3> QED BY <2>1, <3>3 DEF c
    <2>2. CASE ~\E e \in K : e.source = n
      <3> DEFINE c == CHOOSE e \in K : e.target = n
      <3>1. c \in K
        BY <2>2 DEF Ends
      <3>2. S.edges[c].target \in NodeObjects
        BY <1>2, <3>1 DEF EdgeObjects
      <3> HIDE DEF c
      <3>3. View(S.edges[c].target) \in Views
        BY <3>2, ViewType
      <3> QED BY <2>2, <3>3 DEF c
    <2> QED BY <2>1, <2>2
  <1>5. [n \in ends |-> viewOf(n)] \in [ends -> Views]
    BY <1>4
  <1>6. T \in Registries
    BY <1>1 DEF Registries
  <1>7. /\ T.edges = [e \in EdgeIds |-> IF e \in K THEN NoEdge ELSE S.edges[e]]
        /\ T.buckets = S.buckets \ {k \in Kinds :
                                   /\ \E e \in K : Kind(e.source) = k
                                   /\ \A e \in EdgeIds \ K :
                                        Kind(e.source) = k => ~IsStored(S.edges[e])}
        /\ T.incident = [n \in Nodes |-> S.incident[n] \ K]
        /\ T.digests = S.digests \ {S.edges[e] : e \in K}
        /\ T.nodes = S.nodes /\ T.kinds = S.kinds /\ T.models = S.models
        /\ T.hooks = S.hooks /\ T.hookKeys = S.hookKeys
        /\ T.refsBy = S.refsBy /\ T.refsTo = S.refsTo
        /\ T.nodeHealth = S.nodeHealth /\ T.edgeHealth = S.edgeHealth
    BY <1>1 DEF Registries
  <1>8. RemoveEdges(S, K) = F
    BY DEF RemoveEdges
  <1>18. ASSUME \A e \in K : EmbedsStored(S, S.edges[e]), NEW n \in ends
         PROVE  viewOf(n) = View(S.nodes[n])
    <2>1. CASE \E e \in K : e.source = n
      <3> DEFINE c == CHOOSE e \in K : e.source = n
      <3>1. c \in K /\ c.source = n
        BY <2>1
      <3> HIDE DEF c
      <3>2. S.edges[c].source = S.nodes[n]
        BY <1>2, <1>18, <3>1 DEF EmbedsStored
      <3> QED BY <2>1, <3>2 DEF c
    <2>2. CASE ~\E e \in K : e.source = n
      <3> DEFINE c == CHOOSE e \in K : e.target = n
      <3>1. c \in K /\ c.target = n
        BY <2>2 DEF Ends
      <3> HIDE DEF c
      <3>2. S.edges[c].target = S.nodes[n]
        BY <1>2, <1>18, <3>1 DEF EmbedsStored
      <3> QED BY <2>2, <3>2 DEF c
    <2> QED BY <2>1, <2>2
  <1> HIDE DEF T, ends, viewOf
  <1>9. ~IsStored(NoEdge) /\ ~IsExecutable(NoEdge)
    BY EdgesAssumption DEF NoEdge, IsStored, IsExecutable
  <1>10. StoresWellFormed(T)
    BY <1>1, <1>7, <1>9 DEF Sound, IndexesAgree, StoresWellFormed, IsHydrated
  <1>11. KindIndexAgrees(T) /\ ModelIndexAgrees(T) /\ ReferenceIndexAgrees(T)
    BY <1>7
    DEF Sound, IndexesAgree, KindIndexAgrees, ModelIndexAgrees, ReferenceIndexAgrees, HasEntry
  <1>12. IncidenceIndexAgrees(T)
    BY <1>7, <1>9 DEF Sound, IndexesAgree, IncidenceIndexAgrees
  <1>13. DigestIndexAgrees(T)
    <2>1. \A e \in EdgeIds : IsExecutable(S.edges[e]) => S.edges[e].id = e
      BY EdgesAssumption
      DEF Sound, IndexesAgree, StoresWellFormed, IsStored, IsExecutable
    <2> QED BY <1>2, <1>7, <1>9, <2>1 DEF Sound, IndexesAgree, DigestIndexAgrees
  <1>14. Sound(T)
    BY <1>6, <1>10, <1>11, <1>12, <1>13 DEF Sound, IndexesAgree
  <1>15. Sound(R) /\ SameStores(R, T)
    BY <1>3, <1>5, <1>6, <1>14, RefreshSound, RefreshFrame
  <1>19. EdgeFindingsKept(S, R)
    <2>1. \A e \in EdgeIds \ {} : IsStored(T.edges[e]) =>
             /\ IsStored(S.edges[e])
             /\ \A n \in Ends(e) : HasEntry(T, n) <=> HasEntry(S, n)
      BY <1>7, <1>9 DEF HasEntry
    <2>2. {} \in SUBSET EdgeIds
      OBVIOUS
    <2> QED BY <1>3, <1>5, <1>6, <1>7, <2>1, <2>2, RefreshEdgeFindings
  <1>20. ASSUME ReferencesCurrent(S), \A e \in K : EmbedsStored(S, S.edges[e])
         PROVE  ReferencesCurrent(R)
    <2> DEFINE views == [n \in ends |-> viewOf(n)]
    <2>1. \A n \in ends : views[n].refs = View(T.nodes[n]).refs
      BY <1>7, <1>18, <1>20
    <2>2. \A n \in Nodes \ ends :
             /\ T.nodes[n] = S.nodes[n]
             /\ \A r \in View(S.nodes[n]).refs : HasEntry(T, r) <=> HasEntry(S, r)
      BY <1>7 DEF HasEntry
    <2>4. views \in [ends -> Views] /\ R = Refresh(T, views, {})
      BY <1>5
    <2>5. T.refsBy = S.refsBy /\ T.nodeHealth = S.nodeHealth
      BY <1>7
    <2> DEFINE es == {}
    <2>6. es \in SUBSET EdgeIds /\ R = Refresh(T, views, es)
      BY <2>4
    <2> HIDE DEF views, R, es
    <2>7. ReferencesCurrent(Refresh(T, views, es))
      BY <1>3, <1>6, <1>20, <2>1, <2>2, <2>4, <2>5, <2>6, RefreshReferenceFindings
    <2> QED BY <2>6, <2>7
  <1> HIDE DEF R
  <1>16. /\ F \in Registries /\ SameStores(F, R) /\ F.refsBy = R.refsBy /\ F.refsTo = R.refsTo
         /\ F.nodeHealth = R.nodeHealth
         /\ F.edgeHealth = [e \in EdgeIds |-> IF e \in K THEN {} ELSE R.edgeHealth[e]]
    BY <1>15 DEF Sound, Registries, SameStores
  <1> HIDE DEF F
  <1>17. Sound(F)
    BY <1>15, <1>16, SameStoresSound DEF Sound, IndexesAgree, ReferenceIndexAgrees
  <1>21. EdgeFindingsKept(S, F)
    <2>1. \A e \in EdgeIds : EdgeIssues(F, e) = EdgeIssues(R, e)
      BY <1>16 DEF EdgeIssues, HasEntry, SameStores
    <2> QED BY <1>7, <1>9, <1>15, <1>16, <1>19, <2>1
         DEF EdgeFindingsKept, FindingKept, SameStores
  <1>22. ReferencesCurrent(R) => ReferencesCurrent(F)
    BY <1>16
    DEF ReferencesCurrent, ReferenceFindings, MissingReferences, HasEntry, SameStores
  <1> QED BY <1>7, <1>8, <1>15, <1>16, <1>17, <1>20, <1>21, <1>22 DEF SameStores

\* What a refresh of the one key o, which names edge e, leaves of S in R.
KeyRefreshed(S, R, e) ==
    /\ Sound(R) /\ SameStores(R, S)
    /\ ReferencesCurrent(S) => ReferencesCurrent(R)
    /\ \A f \in EdgeIds \ {e} : FindingKept(S, R, f) \/ ~IsStored(R.edges[f])
    /\ FindingKept(S, R, e) \/ R.edgeHealth[e] = {}

\* The refresh of a key writes the finding of the edge it names and nothing else; that
\* finding is current, or it is gone.
LEMMA KeyRefreshSound ==
    ASSUME NEW S, Sound(S), NEW e \in EdgeIds, NEW o
    PROVE  KeyRefreshed(S, RefreshKey(S, e, o), e)
  <1> DEFINE R == RefreshKey(S, e, o)
  <1>1. S \in Registries
    BY DEF Sound
  <1>2. EdgeIssues(S, e) \in SUBSET Issues
    BY <1>1, IssueTypes
  <1>3. [S.edgeHealth EXCEPT ![e] = IF o = "id" THEN {} ELSE EdgeIssues(S, e)]
            \in [EdgeIds -> SUBSET Issues]
    BY <1>1, <1>2 DEF Registries
  <1>4. R \in Registries
    BY <1>1, <1>3 DEF RefreshKey, Registries
  <1>5. /\ SameStores(R, S) /\ R.refsBy = S.refsBy /\ R.refsTo = S.refsTo
        /\ R.nodeHealth = S.nodeHealth
        /\ R.edgeHealth =
             [S.edgeHealth EXCEPT ![e] = IF o = "id" THEN {} ELSE EdgeIssues(S, e)]
    BY <1>1 DEF RefreshKey, Registries, SameStores
  <1> HIDE DEF R
  <1>6. Sound(R)
    <2>1. ReferenceIndexAgrees(R)
      BY <1>5 DEF Sound, IndexesAgree, ReferenceIndexAgrees
    <2> QED BY <1>4, <1>5, <2>1, SameStoresSound
  <1>7. ReferencesCurrent(S) => ReferencesCurrent(R)
    BY <1>5
    DEF ReferencesCurrent, ReferenceFindings, MissingReferences, HasEntry, SameStores
  <1>8. \A f \in EdgeIds : EdgeIssues(R, f) = EdgeIssues(S, f)
    BY <1>5 DEF EdgeIssues, HasEntry, SameStores
  <1>9. \A f \in EdgeIds \ {e} : FindingKept(S, R, f) \/ ~IsStored(R.edges[f])
    BY <1>1, <1>5, <1>8 DEF FindingKept, SameStores, Registries
  <1>10. FindingKept(S, R, e) \/ R.edgeHealth[e] = {}
    BY <1>1, <1>5, <1>8 DEF FindingKept, Registries
  <1>11. KeyRefreshed(S, R, e)
    BY <1>5, <1>6, <1>7, <1>9, <1>10 DEF KeyRefreshed
  <1> QED BY <1>11 DEF R

\* remove_migration of a key that is not stored leaves a bucket behind, which
\* the bucket condition allows.
LEMMA RemoveUnknownSound ==
    ASSUME NEW S, Sound(S), NEW e \in EdgeIds, ~IsStored(S.edges[e]),
           NEW src \in NodeObjects, NEW tgt \in NodeObjects, NEW k
    PROVE  /\ Sound(RemoveUnknown(S, e, src, tgt, k))
           /\ RemoveUnknown(S, e, src, tgt, k).nodes = S.nodes
           /\ RemoveUnknown(S, e, src, tgt, k).edges = S.edges
           /\ EdgeFindingsKept(S, RemoveUnknown(S, e, src, tgt, k))
  <1> DEFINE T == [S EXCEPT !.buckets = @ \cup {Kind(e.source)}]
             o == [id |-> e, source |-> src, target |-> tgt]
  <1>1. S \in Registries /\ Kind(e.source) \in Kinds
    BY EdgesAssumption, KindOfNode DEF Sound
  <1>2. /\ T \in Registries
        /\ T.edges = S.edges
        /\ T.buckets = S.buckets \cup {Kind(e.source)}
        /\ T.incident = S.incident /\ T.digests = S.digests
        /\ T.nodes = S.nodes /\ T.kinds = S.kinds /\ T.models = S.models
        /\ T.hooks = S.hooks /\ T.hookKeys = S.hookKeys
        /\ T.refsBy = S.refsBy /\ T.refsTo = S.refsTo
        /\ T.nodeHealth = S.nodeHealth /\ T.edgeHealth = S.edgeHealth
    BY <1>1 DEF Registries
  <1>3. EdgeViews(o) \in [Ends(e) -> Views] /\ Ends(e) \in SUBSET Nodes
    BY EdgeViewsType
  <1> DEFINE V == Refresh(T, EdgeViews(o), {})
             R == RemoveUnknown(S, e, src, tgt, k)
  <1>4. R = RefreshKey(V, e, k)
    BY DEF RemoveUnknown
  <1> HIDE DEF T, o
  <1>5. StoresWellFormed(T) /\ KindIndexAgrees(T) /\ ModelIndexAgrees(T)
    BY <1>2
    DEF Sound, IndexesAgree, StoresWellFormed, KindIndexAgrees, ModelIndexAgrees,
        HasEntry, IsHydrated
  <1>6. ReferenceIndexAgrees(T) /\ IncidenceIndexAgrees(T) /\ DigestIndexAgrees(T)
    BY <1>2
    DEF Sound, IndexesAgree, IncidenceIndexAgrees, DigestIndexAgrees, ReferenceIndexAgrees
  <1>7. Sound(T)
    BY <1>2, <1>5, <1>6 DEF Sound, IndexesAgree
  <1>8. EdgeFindingsKept(S, V)
    <2> DEFINE views == EdgeViews(o)
               es == {}
               N == Ends(e)
    <2>1. /\ \A f \in EdgeIds \ es : IsStored(T.edges[f]) =>
                /\ IsStored(S.edges[f])
                /\ \A n \in Ends(f) : HasEntry(T, n) <=> HasEntry(S, n)
          /\ N \in SUBSET Nodes /\ views \in [N -> Views] /\ es \in SUBSET EdgeIds
          /\ T.edgeHealth = S.edgeHealth
      BY <1>2, <1>3 DEF HasEntry
    <2> HIDE DEF views, es, N
    <2>2. EdgeFindingsKept(S, Refresh(T, views, es))
      BY <1>2, <2>1, RefreshEdgeFindings
    <2> QED BY <2>2 DEF views, es
  <1>9. Sound(V) /\ SameStores(V, T)
    <2>1. {} \in SUBSET EdgeIds
      OBVIOUS
    <2> QED BY <1>2, <1>3, <1>7, <2>1, RefreshSound, RefreshFrame
  <1> HIDE DEF V, R
  <1>10. KeyRefreshed(V, R, e)
    BY <1>4, <1>9, KeyRefreshSound
  <1>11. Sound(R) /\ R.nodes = S.nodes /\ R.edges = S.edges
    BY <1>2, <1>9, <1>10 DEF KeyRefreshed, SameStores
  <1>12. EdgeFindingsKept(S, R)
    <2>1. EdgeFindingsKept(V, R)
      BY <1>10, <1>11 DEF KeyRefreshed, EdgeFindingsKept
    <2> QED BY <1>8, <2>1, EdgeFindingsKeptTwice
  <1> QED BY <1>11, <1>12 DEF R

\* Two registries that differ at most in their hooks.
SameButHooks(R, S) ==
    /\ R.nodes = S.nodes /\ R.kinds = S.kinds /\ R.models = S.models
    /\ R.edges = S.edges /\ R.buckets = S.buckets /\ R.incident = S.incident
    /\ R.digests = S.digests /\ R.refsBy = S.refsBy /\ R.refsTo = S.refsTo
    /\ R.nodeHealth = S.nodeHealth /\ R.edgeHealth = S.edgeHealth

\* Hooks are in no index: it is enough that they sit under recorded keys.
LEMMA HooksSound ==
    ASSUME NEW S, Sound(S), NEW R \in Registries, SameButHooks(R, S),
           \A e \in EdgeIds \ R.hookKeys : R.hooks[e] = << >>
    PROVE  Sound(R) /\ FindingsFollow(S, R)
  <1> USE DEF SameButHooks, Sound, IndexesAgree
  <1>1. StoresWellFormed(R)
    BY DEF StoresWellFormed, IsHydrated
  <1>2. KindIndexAgrees(R) /\ ModelIndexAgrees(R)
    BY DEF KindIndexAgrees, ModelIndexAgrees, HasEntry
  <1>3. IncidenceIndexAgrees(R) /\ DigestIndexAgrees(R) /\ ReferenceIndexAgrees(R)
    BY DEF IncidenceIndexAgrees, DigestIndexAgrees, ReferenceIndexAgrees
  <1>4. FindingsFollow(S, R)
    BY DEF FindingsFollow, EdgeFindingsKept, FindingKept, EdgeIssues, ReferencesCurrent,
           ReferenceFindings, MissingReferences, HasEntry
  <1> QED BY <1>1, <1>2, <1>3, <1>4

\* clear_hooks drops lists together with their keys.
LEMMA ClearHooksSound ==
    ASSUME NEW S, Sound(S), NEW K \in SUBSET EdgeIds
    PROVE  /\ Sound(ClearHooks(S, K))
           /\ SameButHooks(ClearHooks(S, K), S)
           /\ ClearHooks(S, K).hookKeys = S.hookKeys \ K
           /\ ClearHooks(S, K).hooks = [e \in EdgeIds |-> IF e \in K THEN << >> ELSE S.hooks[e]]
           /\ FindingsFollow(S, ClearHooks(S, K))
  <1> DEFINE R == ClearHooks(S, K)
  <1>1. S \in Registries
    BY DEF Sound
  <1>2. R \in Registries
    <2>1. [e \in EdgeIds |-> IF e \in K THEN << >> ELSE S.hooks[e]] \in [EdgeIds -> Seq(Hooks)]
      BY <1>1 DEF Registries
    <2> QED BY <1>1, <2>1 DEF ClearHooks, Registries
  <1>3. /\ SameButHooks(R, S) /\ R.hookKeys = S.hookKeys \ K
        /\ R.hooks = [e \in EdgeIds |-> IF e \in K THEN << >> ELSE S.hooks[e]]
    BY <1>1 DEF ClearHooks, Registries, SameButHooks
  <1>4. \A e \in EdgeIds \ R.hookKeys : R.hooks[e] = << >>
    BY <1>1 DEF ClearHooks, Registries, Sound, IndexesAgree, StoresWellFormed
  <1> HIDE DEF R
  <1>5. Sound(R) /\ FindingsFollow(S, R)
    BY <1>2, <1>3, <1>4, HooksSound
  <1> QED BY <1>3, <1>5 DEF R

\* list.remove leaves a shorter list of hooks.
LEMMA RemoveFirstType ==
    ASSUME NEW s \in Seq(Hooks), NEW h, \E i \in DOMAIN s : s[i] = h
    PROVE  RemoveFirst(s, h) \in Seq(Hooks) /\ RemoveFirst(s, h) # s
  <1>1. Len(s) - 1 \in Nat
    OBVIOUS
  <1>2. \A i \in 1..(Len(s) - 1) : s[i] \in Hooks /\ s[i + 1] \in Hooks
    OBVIOUS
  <1>3. RemoveFirst(s, h) \in [1..(Len(s) - 1) -> Hooks]
    BY <1>2 DEF RemoveFirst
  <1>4. DOMAIN s = 1..Len(s) /\ Len(s) \in Nat \ {0}
    OBVIOUS
  <1>5. Len(s) \in DOMAIN s /\ Len(s) \notin DOMAIN RemoveFirst(s, h)
    BY <1>1, <1>3, <1>4
  <1> QED BY <1>1, <1>3, <1>5

\* A refresh of edges alone, as the hook operations make it.
LEMMA EdgeRefreshSound ==
    ASSUME NEW S, Sound(S), NEW es \in SUBSET EdgeIds
    PROVE  /\ Sound(Refresh(S, << >>, es)) /\ SameStores(Refresh(S, << >>, es), S)
           /\ FindingsFollow(S, Refresh(S, << >>, es))
  <1>1. << >> \in [{} -> Views] /\ {} \in SUBSET Nodes /\ S \in Registries
    BY DEF Sound
  <1>2. \A n \in {} : << >>[n].refs = View(S.nodes[n]).refs
    OBVIOUS
  <1>3. FindingsFollow(S, Refresh(S, << >>, es))
    BY <1>1, <1>2, RefreshEdgeFindings, RefreshReferenceFindings DEF FindingsFollow
  <1> QED BY <1>1, <1>3, RefreshSound, RefreshFrame

\* A change of the hooks of edge e and the refresh of the key that names it: where the
\* hooks really change, the findings move as they may.
LEMMA HookRefreshSound ==
    ASSUME NEW S, Sound(S), NEW e \in EdgeIds, NEW o,
           NEW R, Sound(R), SameButHooks(R, S), FindingsFollow(S, R),
           R.hooks[e] # S.hooks[e] \/ ~(e \in R.hookKeys <=> e \in S.hookKeys)
    PROVE  /\ Sound(RefreshKey(R, e, o)) /\ SameStores(RefreshKey(R, e, o), R)
           /\ ReferencesCurrent(S) => ReferencesCurrent(RefreshKey(R, e, o))
           /\ EdgeFindingsMove(S, RefreshKey(R, e, o))
  <1> DEFINE T == RefreshKey(R, e, o)
  <1>1. KeyRefreshed(R, T, e)
    BY KeyRefreshSound
  <1> HIDE DEF T
  <1>2. T.hooks = R.hooks /\ T.hookKeys = R.hookKeys /\ T.edges = R.edges
    BY <1>1 DEF KeyRefreshed, SameStores
  <1>3. \A f \in EdgeIds : IsStored(T.edges[f]) =>
           FindingKept(R, T, f) \/ FindingDropped(S, T, f)
    BY <1>1, <1>2 DEF KeyRefreshed, FindingDropped
  <1>4. \A f \in EdgeIds : IsStored(R.edges[f]) => FindingKept(S, R, f)
    BY DEF FindingsFollow, EdgeFindingsKept
  <1>5. EdgeFindingsMove(S, T)
    BY <1>2, <1>3, <1>4 DEF EdgeFindingsMove, FindingKept
  <1>6. /\ Sound(T) /\ SameStores(T, R) /\ (ReferencesCurrent(S) => ReferencesCurrent(T))
        /\ EdgeFindingsMove(S, T)
    BY <1>1, <1>5 DEF KeyRefreshed, FindingsFollow
  <1> QED BY <1>6 DEF T

\* T differs from S in hooks and findings only, and the findings move as they may.
HooksMove(S, T) ==
    /\ Sound(T)
    /\ T.nodes = S.nodes /\ T.edges = S.edges
    /\ ReferencesCurrent(S) => ReferencesCurrent(T)
    /\ EdgeFindingsMove(S, T)

\* T is S with hook h added to the edges K.
HooksAdded(S, T, K, h) ==
    /\ T.nodes = S.nodes /\ T.edges = S.edges
    /\ T.hookKeys = S.hookKeys \cup K
    /\ T.hooks = [e \in EdgeIds |-> IF e \in K THEN Append(S.hooks[e], h) ELSE S.hooks[e]]

\* add_hook appends under a key it records.
LEMMA AddHookSound ==
    ASSUME NEW S, Sound(S), NEW e \in EdgeIds, NEW h \in Hooks, NEW o
    PROVE  /\ HooksMove(S, AddHook(S, e, h, o))
           /\ HooksAdded(S, AddHook(S, e, h, o), {e}, h)
  <1> DEFINE R == [S EXCEPT !.hookKeys = @ \cup {e}, !.hooks[e] = Append(@, h)]
             T == AddHook(S, e, h, o)
  <1>1. S \in Registries
    BY DEF Sound
  <1>2. R \in Registries
    <2>1. [S.hooks EXCEPT ![e] = Append(@, h)] \in [EdgeIds -> Seq(Hooks)]
      BY <1>1 DEF Registries
    <2> QED BY <1>1, <2>1 DEF Registries
  <1>3. /\ SameButHooks(R, S) /\ R.hookKeys = S.hookKeys \cup {e}
        /\ R.hooks = [S.hooks EXCEPT ![e] = Append(@, h)]
    BY <1>1 DEF Registries, SameButHooks
  <1>4. \A f \in EdgeIds \ R.hookKeys : R.hooks[f] = << >>
    BY <1>1 DEF Registries, Sound, IndexesAgree, StoresWellFormed
  <1>5. T = RefreshKey(R, e, o)
    BY DEF AddHook
  <1> HIDE DEF R, T
  <1>6. Sound(R) /\ FindingsFollow(S, R)
    BY <1>2, <1>3, <1>4, HooksSound
  <1>7. R.hooks[e] # S.hooks[e]
    <2>1. S.hooks \in [EdgeIds -> Seq(Hooks)]
      BY <1>1 DEF Registries
    <2>2. PICK s \in Seq(Hooks) : s = S.hooks[e]
      BY <2>1
    <2>3. Append(s, h) # s
      OBVIOUS
    <2>4. R.hooks[e] = Append(s, h)
      BY <1>3, <2>1, <2>2
    <2> QED BY <2>2, <2>3, <2>4
  <1>8. /\ Sound(T) /\ SameStores(T, R) /\ EdgeFindingsMove(S, T)
        /\ ReferencesCurrent(S) => ReferencesCurrent(T)
    BY <1>3, <1>5, <1>6, <1>7, HookRefreshSound
  <1>9. T.nodes = S.nodes /\ T.edges = S.edges /\ T.hookKeys = R.hookKeys /\ T.hooks = R.hooks
    BY <1>3, <1>8 DEF SameButHooks, SameStores
  <1>10. R.hooks = [f \in EdgeIds |-> IF f \in {e} THEN Append(S.hooks[f], h) ELSE S.hooks[f]]
    BY <1>1, <1>3 DEF Registries
  <1> QED BY <1>3, <1>8, <1>9, <1>10 DEF T, HooksMove, HooksAdded

\* attach_hooks does so for several edges.
LEMMA AddHooksSound ==
    ASSUME NEW S, Sound(S), NEW K \in SUBSET EdgeIds, NEW h \in Hooks
    PROVE  /\ Sound(AddHooks(S, K, h))
           /\ HooksAdded(S, AddHooks(S, K, h), K, h)
           /\ FindingsFollow(S, AddHooks(S, K, h))
  <1> DEFINE hooks == [e \in EdgeIds |-> IF e \in K THEN Append(S.hooks[e], h) ELSE S.hooks[e]]
             R == [S EXCEPT !.hookKeys = @ \cup K,
                            !.hooks = [e \in EdgeIds |->
                                         IF e \in K THEN Append(@[e], h) ELSE @[e]]]
  <1>1. S \in Registries
    BY DEF Sound
  <1>2. hooks \in [EdgeIds -> Seq(Hooks)]
    BY <1>1 DEF Registries
  <1>3. /\ SameButHooks(R, S) /\ R.hookKeys = S.hookKeys \cup K /\ R.hooks = hooks
    BY <1>1 DEF Registries, SameButHooks
  <1>4. R \in Registries
    BY <1>1, <1>2 DEF Registries
  <1>5. \A f \in EdgeIds \ R.hookKeys : R.hooks[f] = << >>
    BY <1>1, <1>3 DEF Registries, Sound, IndexesAgree, StoresWellFormed
  <1>6. AddHooks(S, K, h) = Refresh(R, << >>, K)
    BY DEF AddHooks
  <1> HIDE DEF R, hooks
  <1>7. Sound(R) /\ FindingsFollow(S, R)
    BY <1>3, <1>4, <1>5, HooksSound
  <1>8. /\ Sound(Refresh(R, << >>, K)) /\ SameStores(Refresh(R, << >>, K), R)
        /\ FindingsFollow(R, Refresh(R, << >>, K))
    BY <1>7, EdgeRefreshSound
  <1>9. HooksAdded(S, AddHooks(S, K, h), K, h)
    BY <1>3, <1>6, <1>8 DEF SameButHooks, SameStores, HooksAdded, hooks
  <1>10. FindingsFollow(S, Refresh(R, << >>, K))
    BY <1>7, <1>8, EdgeFindingsKeptTwice DEF FindingsFollow
  <1> QED BY <1>6, <1>8, <1>9, <1>10

\* remove_hook drops one occurrence, and the key with the last one.
LEMMA RemoveHookSound ==
    ASSUME NEW S, Sound(S), NEW e \in EdgeIds, NEW h \in Hooks, NEW o, CanRemoveHook(S, e, h)
    PROVE  /\ HooksMove(S, RemoveHook(S, e, h, o))
           /\ RemoveHook(S, e, h, o).hookKeys \subseteq S.hookKeys
           /\ \A f \in RemoveHook(S, e, h, o).hookKeys :
                 RemoveHook(S, e, h, o).hooks[f] = << >> => S.hooks[f] = << >>
  <1> DEFINE rest == RemoveFirst(S.hooks[e], h)
             R == [S EXCEPT !.hookKeys = IF rest = << >> THEN @ \ {e} ELSE @,
                            !.hooks[e] = rest]
             T == RemoveHook(S, e, h, o)
  <1>1. S \in Registries
    BY DEF Sound
  <1>2. T = RefreshKey(R, e, o)
    BY DEF RemoveHook
  <1>3. S.hooks[e] \in Seq(Hooks)
    BY <1>1 DEF Registries
  <1>4. rest \in Seq(Hooks) /\ rest # S.hooks[e]
    BY <1>3, RemoveFirstType DEF CanRemoveHook
  <1> HIDE DEF rest
  <1>5. R \in Registries
    BY <1>1, <1>4 DEF Registries
  <1>6. SameButHooks(R, S) /\ R.hookKeys \subseteq S.hookKeys
    BY <1>1 DEF Registries, SameButHooks
  <1>9. \A f \in R.hookKeys : R.hooks[f] = << >> => S.hooks[f] = << >>
    BY <1>1 DEF Registries
  <1>7. \A f \in EdgeIds \ R.hookKeys : R.hooks[f] = << >>
    BY <1>1 DEF Registries, Sound, IndexesAgree, StoresWellFormed, CanRemoveHook
  <1>10. R.hooks[e] # S.hooks[e]
    BY <1>1, <1>4 DEF Registries
  <1> HIDE DEF R, T
  <1>8. Sound(R) /\ FindingsFollow(S, R)
    BY <1>5, <1>6, <1>7, HooksSound
  <1>11. /\ Sound(T) /\ SameStores(T, R) /\ EdgeFindingsMove(S, T)
         /\ ReferencesCurrent(S) => ReferencesCurrent(T)
    BY <1>2, <1>6, <1>8, <1>10, HookRefreshSound
  <1>12. T.nodes = S.nodes /\ T.edges = S.edges /\ T.hookKeys = R.hookKeys /\ T.hooks = R.hooks
    BY <1>6, <1>11 DEF SameButHooks, SameStores
  <1> QED BY <1>6, <1>9, <1>11, <1>12 DEF T, HooksMove

\* hooks(key) records the key it was asked for.
LEMMA ReadHooksSound ==
    ASSUME NEW S, Sound(S), NEW e \in EdgeIds
    PROVE  /\ Sound(ReadHooks(S, e))
           /\ ReadHooks(S, e).nodes = S.nodes /\ ReadHooks(S, e).edges = S.edges
           /\ FindingsFollow(S, ReadHooks(S, e))
  <1> DEFINE R == ReadHooks(S, e)
  <1>1. S \in Registries
    BY DEF Sound
  <1>2. R \in Registries /\ SameButHooks(R, S)
    BY <1>1 DEF ReadHooks, Registries, SameButHooks
  <1>3. \A f \in EdgeIds \ R.hookKeys : R.hooks[f] = << >>
    BY <1>1 DEF ReadHooks, Registries, Sound, IndexesAgree, StoresWellFormed
  <1> HIDE DEF R
  <1>4. Sound(R) /\ FindingsFollow(S, R)
    BY <1>2, <1>3, HooksSound
  <1> QED BY <1>2, <1>4 DEF R, SameButHooks

\* clear_migrations empties the edges, every index over them and the hooks.
LEMMA ClearMigrationsSound ==
    ASSUME NEW S, Sound(S)
    PROVE  /\ Sound(ClearMigrations(S))
           /\ ClearMigrations(S).nodes = S.nodes
           /\ ClearMigrations(S).edges = [e \in EdgeIds |-> NoEdge]
           /\ EdgeFindingsKept(S, ClearMigrations(S))
  <1> DEFINE H == ClearHooks(S, EdgeIds)
             T == [H EXCEPT !.edges    = [e \in EdgeIds |-> NoEdge],
                            !.buckets  = {},
                            !.incident = [n \in Nodes |-> {}],
                            !.digests  = {}]
  <1>1. Sound(H) /\ SameButHooks(H, S)
    BY ClearHooksSound
  <1>2. ClearMigrations(S) = Rebuild(T)
    BY DEF ClearMigrations
  <1> HIDE DEF H
  <1>3. /\ T \in Registries
        /\ T.edges = [e \in EdgeIds |-> NoEdge]
        /\ T.incident = [n \in Nodes |-> {}]
        /\ T.digests = {}
        /\ T.nodes = H.nodes /\ T.kinds = H.kinds /\ T.models = H.models
        /\ T.hooks = H.hooks /\ T.hookKeys = H.hookKeys
        /\ T.refsBy = H.refsBy /\ T.refsTo = H.refsTo
    BY <1>1 DEF Sound, Registries
  <1> HIDE DEF T
  <1>4. ~IsStored(NoEdge) /\ ~IsExecutable(NoEdge)
    BY EdgesAssumption DEF NoEdge, IsStored, IsExecutable
  <1>5. StoresWellFormed(T) /\ KindIndexAgrees(T) /\ ModelIndexAgrees(T)
    BY <1>1, <1>3, <1>4
    DEF Sound, IndexesAgree, StoresWellFormed, KindIndexAgrees, ModelIndexAgrees,
        HasEntry, IsHydrated
  <1>6. IncidenceIndexAgrees(T) /\ DigestIndexAgrees(T) /\ ReferenceIndexAgrees(T)
    BY <1>1, <1>3, <1>4
    DEF Sound, IndexesAgree, IncidenceIndexAgrees, DigestIndexAgrees, ReferenceIndexAgrees
  <1>7. Sound(T)
    BY <1>3, <1>5, <1>6 DEF Sound, IndexesAgree
  <1> QED BY <1>1, <1>2, <1>3, <1>7, RebuildSound DEF SameStores, SameButHooks

\* What delete_kind makes of S, with K the executable edges and N the hydrated versions
\* of the kind.
DeleteKindRemoves(S, D, K, N) ==
    /\ Sound(D)
    /\ D.nodes = [n \in Nodes |-> IF n \in N THEN "absent" ELSE S.nodes[n]]
    /\ D.edges = [e \in EdgeIds |-> IF e \in K THEN NoEdge ELSE S.edges[e]]
    /\ D.hookKeys = S.hookKeys \ K
    /\ D.hooks = [e \in EdgeIds |-> IF e \in K THEN << >> ELSE S.hooks[e]]
    /\ N \in SUBSET Nodes
    /\ K = {e \in EdgeIds : IsExecutable(S.edges[e]) /\ Ends(e) \cap N # {}}
    /\ EdgeFindingsKept(S, D)
    /\ ReferencesCurrent(S) /\ (\A e \in K : EmbedsStored(S, S.edges[e])) =>
          ReferencesCurrent(D)

\* delete_kind removes exactly the hydrated versions of the kind and the
\* executable edges at them, with their hooks.
LEMMA DeleteKindSound ==
    ASSUME NEW S, Sound(S), NEW k \in Kinds
    PROVE  DeleteKindRemoves(S, DeleteKind(S, k), KindEdges(S, k), KindVersions(S, k))
  <1> DEFINE D == DeleteKind(S, k)
             K == KindEdges(S, k)
             N == KindVersions(S, k)
             H == ClearHooks(S, K)
             R == RemoveEdges(H, K)
  <1>1. N \in SUBSET Nodes
    BY DEF Sound, Registries, KindVersions
  <1>2. K = {e \in EdgeIds : IsExecutable(S.edges[e]) /\ Ends(e) \cap N # {}}
    BY <1>1, MigrationsOfExact DEF KindEdges
  <1>3. \A e \in K : IsStored(S.edges[e])
    BY <1>2, EdgesAssumption DEF IsStored, IsExecutable
  <1>4. D = RemoveEntries(R, N)
    BY DEF DeleteKind
  <1> HIDE DEF K, N, D
  <1>5. /\ Sound(H) /\ SameButHooks(H, S) /\ H.hookKeys = S.hookKeys \ K
        /\ H.hooks = [e \in EdgeIds |-> IF e \in K THEN << >> ELSE S.hooks[e]]
        /\ FindingsFollow(S, H)
    BY <1>2, ClearHooksSound
  <1> HIDE DEF H
  <1>6. /\ Sound(R) /\ R.nodes = S.nodes /\ R.hookKeys = S.hookKeys \ K
        /\ R.hooks = [e \in EdgeIds |-> IF e \in K THEN << >> ELSE S.hooks[e]]
        /\ R.edges = [e \in EdgeIds |-> IF e \in K THEN NoEdge ELSE S.edges[e]]
        /\ EdgeFindingsKept(H, R)
        /\ ReferencesCurrent(S) /\ (\A e \in K : EmbedsStored(S, S.edges[e])) =>
              ReferencesCurrent(R)
    BY <1>2, <1>3, <1>5, RemoveEdgesSound DEF SameButHooks, FindingsFollow, EmbedsStored
  <1> HIDE DEF R
  <1>7. /\ Sound(RemoveEntries(R, N))
        /\ RemoveEntries(R, N).nodes =
             [n \in Nodes |-> IF n \in N THEN "absent" ELSE S.nodes[n]]
        /\ RemoveEntries(R, N).edges = R.edges
        /\ RemoveEntries(R, N).hookKeys = R.hookKeys /\ RemoveEntries(R, N).hooks = R.hooks
        /\ FindingsFollow(R, RemoveEntries(R, N))
    BY <1>1, <1>6, RemoveEntriesSound
  <1>8. EdgeFindingsKept(S, RemoveEntries(R, N))
    BY <1>5, <1>6, <1>7, EdgeFindingsKeptTwice DEF FindingsFollow
  <1> QED BY <1>1, <1>2, <1>4, <1>6, <1>7, <1>8 DEF FindingsFollow, DeleteKindRemoves, D, K, N

\* A registry starts sound.
LEMMA EmptySound ==
    /\ Sound(EmptyRegistry) /\ ExecutableEndsRegistered(EmptyRegistry)
    /\ ReferencesCurrent(EmptyRegistry)
  <1>1. ~IsStored(NoEdge) /\ ~IsExecutable(NoEdge)
    BY EdgesAssumption DEF NoEdge, IsStored, IsExecutable
  <1>2. EmptyRegistry \in Registries
    BY DEF EmptyRegistry, Registries
  <1>3. StoresWellFormed(EmptyRegistry) /\ KindIndexAgrees(EmptyRegistry)
    BY <1>1, ModelsAssumption
    DEF EmptyRegistry, StoresWellFormed, KindIndexAgrees, HasEntry, IsHydrated
  <1>4. ModelIndexAgrees(EmptyRegistry) /\ ReferenceIndexAgrees(EmptyRegistry)
    BY DEF EmptyRegistry, ModelIndexAgrees, ReferenceIndexAgrees
  <1>5. IncidenceIndexAgrees(EmptyRegistry) /\ DigestIndexAgrees(EmptyRegistry)
    BY <1>1 DEF EmptyRegistry, IncidenceIndexAgrees, DigestIndexAgrees
  <1>6. ExecutableEndsRegistered(EmptyRegistry)
    BY <1>1 DEF EmptyRegistry, ExecutableEndsRegistered
  <1>8. ReferencesCurrent(EmptyRegistry)
    BY ModelsAssumption
    DEF EmptyRegistry, ReferencesCurrent, ReferenceFindings, MissingReferences, View
  <1> QED BY <1>2, <1>3, <1>4, <1>5, <1>6, <1>8 DEF Sound, IndexesAgree

-----------------------------------------------------------------------------
(***************************************************************************)
(* A registry driven by an engine: only models and placeholders are stored *)
(* and only executable edges, built from the stored models.  The guards of *)
(* the operations keep it so.                                              *)
(***************************************************************************)
Driven(S) ==
    /\ Sound(S)
    /\ EdgesBindStoredModels(S)
    /\ HooksOnExecutableEdges(S)
    /\ ReferencesCurrent(S)

\* What a driven registry says of its edges, its bindings and its ends.
LEMMA DrivenFacts ==
    ASSUME NEW S, Driven(S)
    PROVE  /\ S \in Registries
           /\ S.nodes \in [Nodes -> {"absent", "key"} \cup Models]
           /\ S.edges \in [EdgeIds -> EdgeObjects \cup {NoEdge}]
           /\ \A e \in EdgeIds :
                 /\ e.source \in Nodes /\ e.target \in Nodes
                 /\ IsStored(S.edges[e]) <=> IsExecutable(S.edges[e])
                 /\ IsStored(S.edges[e]) => EmbedsStored(S, S.edges[e])
                 /\ ~IsStored(S.edges[e]) => S.edges[e] = NoEdge
  <1>1. /\ S \in Registries
        /\ S.nodes \in [Nodes -> {"absent", "key"} \cup Models]
        /\ S.edges \in [EdgeIds -> EdgeObjects \cup {NoEdge}]
    BY DEF Driven, Sound, Registries
  <1>2. ASSUME NEW e \in EdgeIds
        PROVE  /\ e.source \in Nodes /\ e.target \in Nodes
               /\ IsStored(S.edges[e]) <=> IsExecutable(S.edges[e])
               /\ IsStored(S.edges[e]) => EmbedsStored(S, S.edges[e])
               /\ ~IsStored(S.edges[e]) => S.edges[e] = NoEdge
    <2>1. e.source \in Nodes /\ e.target \in Nodes
      BY EdgesAssumption
    <2>2. IsStored(S.edges[e]) <=> IsExecutable(S.edges[e])
      BY EdgesAssumption DEF Driven, EdgesBindStoredModels, IsStored, IsExecutable
    <2>3. IsStored(S.edges[e]) => EmbedsStored(S, S.edges[e])
      BY DEF Driven, Sound, IndexesAgree, StoresWellFormed, EdgesBindStoredModels, EmbedsStored
    <2>4. \A o \in EdgeObjects : IsStored(o)
      BY EdgesAssumption DEF EdgeObjects, IsStored, NoFunc
    <2> QED BY <1>1, <2>1, <2>2, <2>3, <2>4
  <1> QED BY <1>1, <1>2

\* An empty registry is driven.
LEMMA EmptyDriven == Driven(EmptyRegistry)
  <1>1. ~IsStored(NoEdge)
    BY DEF NoEdge, IsStored
  <1> QED
    BY <1>1, EmptySound
    DEF Driven, EdgesBindStoredModels, HooksOnExecutableEdges, EmptyRegistry

\* An entry appears, or a placeholder is filled: no edge ended there.
LEMMA DrivenGrows ==
    ASSUME NEW S, Driven(S), NEW T, Sound(T), FindingsFollow(S, T),
           NEW n \in Nodes, ~IsHydrated(S, n), NEW o,
           T.nodes = [S.nodes EXCEPT ![n] = o], T.edges = S.edges,
           T.hookKeys = S.hookKeys, T.hooks = S.hooks
    PROVE  Driven(T)
  <1>1. \A e \in EdgeIds : IsStored(S.edges[e]) => e.source # n /\ e.target # n
    BY DEF Driven, EdgesBindStoredModels
  <1>2. EdgesBindStoredModels(T)
    BY <1>1, DrivenFacts DEF Driven, EdgesBindStoredModels, IsHydrated
  <1>3. HooksOnExecutableEdges(T)
    BY DEF Driven, HooksOnExecutableEdges
  <1> QED BY <1>2, <1>3 DEF Driven, FindingsFollow

\* Entries and edges go, and with an entry every edge at it.
LEMMA DrivenShrinks ==
    ASSUME NEW S, Driven(S), NEW T, Sound(T), ReferencesCurrent(T),
           NEW N \in SUBSET Nodes, NEW K \in SUBSET EdgeIds,
           \A e \in EdgeIds \ K : IsExecutable(S.edges[e]) => Ends(e) \cap N = {},
           T.nodes = [n \in Nodes |-> IF n \in N THEN "absent" ELSE S.nodes[n]],
           T.edges = [e \in EdgeIds |-> IF e \in K THEN NoEdge ELSE S.edges[e]],
           T.hookKeys \subseteq S.hookKeys \ K,
           \A e \in T.hookKeys : T.hooks[e] = << >> => S.hooks[e] = << >>
    PROVE  Driven(T)
  <1>1. ~IsStored(NoEdge)
    BY DEF NoEdge, IsStored
  <1>2. EdgesBindStoredModels(T)
    BY <1>1, DrivenFacts DEF Driven, EdgesBindStoredModels, IsHydrated, Ends
  <1>3. HooksOnExecutableEdges(T)
    BY DEF Driven, HooksOnExecutableEdges, Sound, Registries
  <1> QED BY <1>2, <1>3 DEF Driven

\* Only hooks change, and only on executable edges.
LEMMA DrivenHooks ==
    ASSUME NEW S, Driven(S), NEW T, Sound(T), ReferencesCurrent(S) => ReferencesCurrent(T),
           T.nodes = S.nodes, T.edges = S.edges, HooksOnExecutableEdges(T)
    PROVE  Driven(T)
  BY DEF Driven, EdgesBindStoredModels, IsHydrated

\* store of a placeholder or a model under a free identity.
LEMMA StoreEntryDriven ==
    ASSUME NEW S, Driven(S), NEW n \in Nodes, CanStore(S, n),
           NEW o \in {"key"} \cup {m \in Models : NodeOf[m] = n}
    PROVE  Driven(StoreEntry(S, n, o))
  <1>1. ~IsHydrated(S, n)
    BY ModelsAssumption DEF CanStore, HasEntry, IsHydrated
  <1> DEFINE T == StoreEntry(S, n, o)
  <1>2. /\ Sound(T) /\ FindingsFollow(S, T)
        /\ T.nodes = [S.nodes EXCEPT ![n] = o] /\ T.edges = S.edges
        /\ T.hookKeys = S.hookKeys /\ T.hooks = S.hooks
    BY StoreEntrySound DEF Driven
  <1> HIDE DEF T
  <1>3. Driven(T)
    BY <1>1, <1>2, DrivenGrows
  <1> QED BY <1>3 DEF T

\* hydrate keeps every model that edges may be bound to.
LEMMA HydrateDriven ==
    ASSUME NEW S, Driven(S), NEW m \in Models
    PROVE  Driven(Hydrate(S, m))
  <1> DEFINE T == Hydrate(S, m)
             n == NodeOf[m]
  <1>1. /\ Sound(T) /\ FindingsFollow(S, T)
        /\ T.nodes = IF S.nodes[n] \in {"absent", "key"}
                     THEN [S.nodes EXCEPT ![n] = m] ELSE S.nodes
        /\ T.edges = S.edges /\ T.hookKeys = S.hookKeys /\ T.hooks = S.hooks
    BY HydrateSound DEF Driven
  <1>2. n \in Nodes
    BY ModelsAssumption
  <1> HIDE DEF T, n
  <1>3. CASE S.nodes[n] \in {"absent", "key"}
    <2>1. ~IsHydrated(S, n)
      BY <1>3, ModelsAssumption DEF IsHydrated
    <2>2. T.nodes = [S.nodes EXCEPT ![n] = m]
      BY <1>1, <1>3
    <2> QED BY <1>1, <1>2, <2>1, <2>2, DrivenGrows DEF T
  <1>4. CASE S.nodes[n] \notin {"absent", "key"}
    <2>1. HooksOnExecutableEdges(T)
      BY <1>1 DEF Driven, HooksOnExecutableEdges
    <2> QED BY <1>1, <1>4, <2>1, DrivenHooks DEF T, FindingsFollow
  <1> QED BY <1>3, <1>4

\* reconcile stores at most a model that was not there.
LEMMA ReconcileDriven ==
    ASSUME NEW S, Driven(S), NEW m \in Models
    PROVE  Driven(Reconcile(S, m))
  <1>1. CASE HasEntry(S, NodeOf[m])
    BY <1>1 DEF Reconcile
  <1>2. CASE ~HasEntry(S, NodeOf[m])
    <2> DEFINE n == NodeOf[m]
    <2>1. /\ n \in Nodes /\ CanStore(S, n)
          /\ m \in {"key"} \cup {l \in Models : NodeOf[l] = n}
      BY <1>2, ModelsAssumption DEF CanStore
    <2>2. Reconcile(S, m) = StoreEntry(S, n, m)
      BY <1>2 DEF Reconcile
    <2> HIDE DEF n
    <2> QED BY <2>1, <2>2, StoreEntryDriven
  <1> QED BY <1>1, <1>2

\* remove_model is refused while an executable edge ends at the version.
LEMMA RemoveModelDriven ==
    ASSUME NEW S, Driven(S), NEW n \in Nodes, CanRemoveModel(S, n)
    PROVE  /\ Driven(RemoveModel(S, n))
           /\ \A e \in EdgeIds : IsExecutable(S.edges[e]) => n \notin Ends(e)
  <1> DEFINE T == RemoveEntries(S, {n})
             N == {n}
             K == {}
  <1>1. Sound(S)
    BY DEF Driven
  <1>2. \A e \in EdgeIds : IsExecutable(S.edges[e]) => n \notin Ends(e)
    BY <1>1, MigrationsOfExact DEF CanRemoveModel
  <1>3. /\ Sound(T) /\ FindingsFollow(S, T)
        /\ T.nodes = [m \in Nodes |-> IF m \in N THEN "absent" ELSE S.nodes[m]]
        /\ T.edges = S.edges /\ T.hookKeys = S.hookKeys /\ T.hooks = S.hooks
    BY <1>1, RemoveEntriesSound
  <1>4. /\ N \in SUBSET Nodes /\ K \in SUBSET EdgeIds
        /\ \A e \in EdgeIds \ K : IsExecutable(S.edges[e]) => Ends(e) \cap N = {}
        /\ S.hookKeys \subseteq S.hookKeys \ K
    BY <1>2
  <1> HIDE DEF T
  <1>5. T.edges = [e \in EdgeIds |-> IF e \in K THEN NoEdge ELSE S.edges[e]]
    BY <1>3, DrivenFacts
  <1>6. ReferencesCurrent(T)
    BY <1>3 DEF Driven, FindingsFollow
  <1>7. T.hookKeys \subseteq S.hookKeys \ K /\ \A e \in T.hookKeys : T.hooks[e] = << >> => S.hooks[e] = << >>
    BY <1>3, <1>4
  <1> HIDE DEF N, K
  <1>8. Driven(T)
    BY <1>3, <1>4, <1>5, <1>6, <1>7, DrivenShrinks
  <1> QED BY <1>2, <1>8 DEF T, RemoveModel

\* store_migration binds an edge to the models its ends hold.
LEMMA StoreSpecDriven ==
    ASSUME NEW S, Driven(S), NEW e \in EdgeIds, NEW f \in Funcs, CanStoreSpec(S, e, f)
    PROVE  LET o == BuildEdge(S, e, f)
               T == StoreEdge(S, o)
           IN  /\ Driven(T)
               /\ o \in [id: {e}, source: Models, target: Models, func: Funcs]
               /\ T.nodes = S.nodes /\ T.hookKeys = S.hookKeys
               /\ T.edges[e] = o
               /\ T = S \/ (S.edges[e] = NoEdge /\ T.edges = [S.edges EXCEPT ![e] = o])
  <1> DEFINE o == BuildEdge(S, e, f)
             T == StoreEdge(S, o)
  <1>1. e.source \in Nodes /\ e.target \in Nodes
    BY EdgesAssumption
  <1>2. S.nodes[e.source] \in Models /\ S.nodes[e.target] \in Models
    BY <1>1 DEF CanStoreSpec, Unhydrated, Ends, IsHydrated
  <1>3. /\ o \in [id: {e}, source: Models, target: Models, func: Funcs]
        /\ o \in EdgeObjects /\ EmbedsStored(S, o) /\ o.id = e
        /\ o.source \in Models /\ o.target \in Models /\ IsExecutable(o)
    BY <1>2 DEF BuildEdge, EdgeObjects, NodeObjects, EmbedsStored, IsExecutable
  <1>4. IsExecutable(S.edges[e]) => o = S.edges[e]
    BY <1>3 DEF CanStoreSpec, CanStoreEdge
  <1> HIDE DEF o
  <1>5. /\ Sound(T) /\ T.nodes = S.nodes /\ T.hookKeys = S.hookKeys /\ T.hooks = S.hooks
        /\ ReferencesCurrent(T)
        /\ \/ T = S /\ IsStored(S.edges[e])
           \/ ~IsExecutable(S.edges[e]) /\ T.edges = [S.edges EXCEPT ![e] = o]
    BY <1>3, StoreEdgeSound DEF Driven
  <1> HIDE DEF T
  <1>6. CASE T = S /\ IsStored(S.edges[e])
    BY <1>3, <1>4, <1>6, DrivenFacts DEF o, T
  <1>7. CASE ~IsExecutable(S.edges[e]) /\ T.edges = [S.edges EXCEPT ![e] = o]
    <2>1. S.edges[e] = NoEdge /\ T.edges[e] = o
      BY <1>7, DrivenFacts
    <2>2. EdgesBindStoredModels(T)
      BY <1>2, <1>3, <1>5, <1>7, DrivenFacts
      DEF Driven, EdgesBindStoredModels, IsHydrated, EmbedsStored
    <2>3. HooksOnExecutableEdges(T)
      BY <1>3, <1>5, <1>7, DrivenFacts DEF Driven, HooksOnExecutableEdges, Registries
    <2> QED BY <1>3, <1>5, <1>7, <2>1, <2>2, <2>3 DEF Driven, o, T
  <1> QED BY <1>5, <1>6, <1>7

\* remove_migration and remove_migration_range of edges without hooks.
LEMMA RemoveEdgesDriven ==
    ASSUME NEW S, Driven(S), NEW K \in SUBSET EdgeIds,
           \A e \in K : IsExecutable(S.edges[e]) /\ e \notin S.hookKeys
    PROVE  Driven(RemoveEdges(S, K))
  <1> DEFINE T == RemoveEdges(S, K)
             N == {}
  <1>1. \A e \in K : IsStored(S.edges[e]) /\ EmbedsStored(S, S.edges[e])
    BY DrivenFacts
  <1>2. /\ Sound(T) /\ T.nodes = S.nodes /\ T.hookKeys = S.hookKeys /\ T.hooks = S.hooks
        /\ T.edges = [e \in EdgeIds |-> IF e \in K THEN NoEdge ELSE S.edges[e]]
        /\ ReferencesCurrent(T)
    BY <1>1, RemoveEdgesSound DEF Driven
  <1> HIDE DEF T
  <1>3. T.nodes = [n \in Nodes |-> IF n \in N THEN "absent" ELSE S.nodes[n]]
    BY <1>2, DrivenFacts
  <1>4. /\ N \in SUBSET Nodes
        /\ \A e \in EdgeIds \ K : IsExecutable(S.edges[e]) => Ends(e) \cap N = {}
        /\ T.hookKeys \subseteq S.hookKeys \ K
        /\ \A e \in T.hookKeys : T.hooks[e] = << >> => S.hooks[e] = << >>
    BY <1>2
  <1> HIDE DEF N
  <1>5. Driven(T)
    BY <1>2, <1>3, <1>4, DrivenShrinks
  <1> QED BY <1>5 DEF T

\* delete_kind takes the edges and their hooks along.
LEMMA DeleteKindDriven ==
    ASSUME NEW S, Driven(S), NEW k \in Kinds
    PROVE  Driven(DeleteKind(S, k))
  <1> DEFINE T == DeleteKind(S, k)
             K == KindEdges(S, k)
             N == KindVersions(S, k)
  <1>1. DeleteKindRemoves(S, T, K, N)
    BY DeleteKindSound DEF Driven
  <1> HIDE DEF T, K, N
  <1>2. /\ Sound(T) /\ N \in SUBSET Nodes
        /\ T.nodes = [n \in Nodes |-> IF n \in N THEN "absent" ELSE S.nodes[n]]
        /\ T.edges = [e \in EdgeIds |-> IF e \in K THEN NoEdge ELSE S.edges[e]]
        /\ K = {e \in EdgeIds : IsExecutable(S.edges[e]) /\ Ends(e) \cap N # {}}
        /\ T.hookKeys = S.hookKeys \ K
        /\ T.hooks = [e \in EdgeIds |-> IF e \in K THEN << >> ELSE S.hooks[e]]
    BY <1>1 DEF DeleteKindRemoves
  <1>3. ReferencesCurrent(T)
    <2>1. \A e \in K : EmbedsStored(S, S.edges[e])
      BY <1>2, DrivenFacts
    <2> QED BY <1>1, <2>1 DEF DeleteKindRemoves, Driven
  <1>4. /\ K \in SUBSET EdgeIds
        /\ \A e \in EdgeIds \ K : IsExecutable(S.edges[e]) => Ends(e) \cap N = {}
        /\ T.hookKeys \subseteq S.hookKeys \ K
    BY <1>2
  <1>5. \A e \in T.hookKeys : T.hooks[e] = << >> => S.hooks[e] = << >>
    BY <1>2, DrivenFacts DEF Registries
  <1>7. /\ Sound(T) /\ N \in SUBSET Nodes
        /\ T.nodes = [n \in Nodes |-> IF n \in N THEN "absent" ELSE S.nodes[n]]
        /\ T.edges = [e \in EdgeIds |-> IF e \in K THEN NoEdge ELSE S.edges[e]]
    BY <1>2
  <1>6. Driven(T)
    BY <1>3, <1>4, <1>5, <1>7, DrivenShrinks
  <1> QED BY <1>6 DEF T

\* add_hook and attach_hooks look the edges up first.
LEMMA AddHooksDriven ==
    ASSUME NEW S, Driven(S), NEW K \in SUBSET EdgeIds, \A e \in K : IsExecutable(S.edges[e]),
           NEW h \in Hooks
    PROVE  Driven(AddHooks(S, K, h))
  <1> DEFINE T == AddHooks(S, K, h)
  <1>1. Sound(T) /\ FindingsFollow(S, T) /\ HooksAdded(S, T, K, h)
    BY AddHooksSound DEF Driven
  <1> HIDE DEF T
  <1>2. \A e \in EdgeIds : S.hooks[e] \in Seq(Hooks)
    BY DrivenFacts DEF Registries
  <1>3. \A e \in EdgeIds : Append(S.hooks[e], h) # << >>
    BY <1>2
  <1>4. S.hookKeys \subseteq EdgeIds
    BY DrivenFacts DEF Registries
  <1>5. HooksOnExecutableEdges(T)
    BY <1>1, <1>3, <1>4 DEF Driven, HooksOnExecutableEdges, HooksAdded
  <1>6. Driven(T)
    BY <1>1, <1>5, DrivenHooks DEF HooksAdded, FindingsFollow
  <1> QED BY <1>6 DEF T

\* add_hook likewise.
LEMMA AddHookDriven ==
    ASSUME NEW S, Driven(S), NEW e \in EdgeIds, IsExecutable(S.edges[e]), NEW h \in Hooks, NEW o
    PROVE  Driven(AddHook(S, e, h, o))
  <1> DEFINE T == AddHook(S, e, h, o)
  <1>1. HooksMove(S, T) /\ HooksAdded(S, T, {e}, h)
    BY AddHookSound DEF Driven
  <1> HIDE DEF T
  <1>2. S.hooks \in [EdgeIds -> Seq(Hooks)] /\ S.hookKeys \subseteq EdgeIds
    BY DrivenFacts DEF Registries
  <1>3. Append(S.hooks[e], h) # << >>
    BY <1>2
  <1>4. HooksOnExecutableEdges(T)
    BY <1>1, <1>2, <1>3 DEF Driven, HooksOnExecutableEdges, HooksAdded
  <1>5. Driven(T)
    BY <1>1, <1>4, DrivenHooks DEF HooksMove
  <1> QED BY <1>5 DEF T

\* remove_hook drops a key whose list it empties.
LEMMA RemoveHookDriven ==
    ASSUME NEW S, Driven(S), NEW e \in EdgeIds, NEW h \in Hooks, NEW o, CanRemoveHook(S, e, h)
    PROVE  Driven(RemoveHook(S, e, h, o))
  <1> DEFINE T == RemoveHook(S, e, h, o)
  <1>1. /\ Sound(T) /\ (ReferencesCurrent(S) => ReferencesCurrent(T)) /\ T.nodes = S.nodes /\ T.edges = S.edges
        /\ T.hookKeys \subseteq S.hookKeys
        /\ \A f \in T.hookKeys : T.hooks[f] = << >> => S.hooks[f] = << >>
    BY RemoveHookSound DEF Driven, HooksMove
  <1> HIDE DEF T
  <1>2. HooksOnExecutableEdges(T)
    BY <1>1 DEF Driven, HooksOnExecutableEdges
  <1>3. Driven(T)
    BY <1>1, <1>2, DrivenHooks
  <1> QED BY <1>3 DEF T

\* clear_hooks drops lists with their keys, remove_hook(key) refreshes the edge too.
LEMMA ClearHooksDriven ==
    ASSUME NEW S, Driven(S), NEW K \in SUBSET EdgeIds
    PROVE  /\ Driven(ClearHooks(S, K))
           /\ \A e \in EdgeIds : \A o :
                 /\ Driven(RefreshKey(ClearHooks(S, K), e, o))
                 /\ SameStores(RefreshKey(ClearHooks(S, K), e, o), ClearHooks(S, K))
  <1> DEFINE T == ClearHooks(S, K)
  <1>1. /\ Sound(T) /\ SameButHooks(T, S) /\ FindingsFollow(S, T)
        /\ T.hookKeys = S.hookKeys \ K
        /\ T.hooks = [e \in EdgeIds |-> IF e \in K THEN << >> ELSE S.hooks[e]]
    BY ClearHooksSound DEF Driven
  <1> HIDE DEF T
  <1>3. T.nodes = S.nodes /\ T.edges = S.edges
    BY <1>1 DEF SameButHooks
  <1>8. S.hookKeys \subseteq EdgeIds
    BY DrivenFacts DEF Registries
  <1>2. HooksOnExecutableEdges(T)
    BY <1>1, <1>3, <1>8 DEF Driven, HooksOnExecutableEdges
  <1>4. Driven(T)
    BY <1>1, <1>2, <1>3, DrivenHooks DEF FindingsFollow
  <1>5. ASSUME NEW e \in EdgeIds, NEW o
        PROVE  Driven(RefreshKey(T, e, o)) /\ SameStores(RefreshKey(T, e, o), T)
    <2> DEFINE R == RefreshKey(T, e, o)
    <2>1. KeyRefreshed(T, R, e)
      BY <1>1, KeyRefreshSound
    <2> HIDE DEF R
    <2>2. /\ HooksOnExecutableEdges(R) /\ R.nodes = T.nodes /\ R.edges = T.edges
          /\ Sound(R) /\ (ReferencesCurrent(T) => ReferencesCurrent(R)) /\ SameStores(R, T)
      BY <1>2, <2>1 DEF HooksOnExecutableEdges, KeyRefreshed, SameStores
    <2>3. Driven(R)
      BY <1>4, <2>2, DrivenHooks
    <2> QED BY <2>2, <2>3 DEF R
  <1> QED BY <1>4, <1>5 DEF T
=============================================================================
