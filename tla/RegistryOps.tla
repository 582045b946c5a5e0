---------------------------- MODULE RegistryOps ----------------------------
(***************************************************************************)
(* The mutations of pyverge's in-memory registry (core/registry/memory.py) *)
(* as operators from a registry state to a registry state.  A registry is  *)
(* a value here, not a variable, because the program owns several: the     *)
(* default engine of a manager class and one copy per manager instance.    *)
(*                                                                         *)
(* A node is an identity <<kind, version>>; what the registry keeps under  *)
(* it is "absent", "key" (a VersionKey placeholder) or a model (a          *)
(* VersionNode).  Operations of the code receive *objects*, and two        *)
(* objects of one identity need not carry the same data: "id" is a bare    *)
(* NodeId, "key" a VersionKey, a member of Models a VersionNode.           *)
(***************************************************************************)
EXTENDS Integers, Sequences, FiniteSets

CONSTANTS
    Nodes,          \* node identities <<kind, version>> of the registry's namespace
    ForeignNodes,   \* node identities of other namespaces (targets of references only)
    Models,         \* VersionNode objects
    NodeOf,         \* the identity of each model
    RefOf,          \* the ModelRef of each model's descriptor
    FieldsOf,       \* the field names of each model's descriptor
    ReferencesOf,   \* the node identities each model's descriptor refers to
    EdgeIds,        \* edge identities [source, target, disc]
    Funcs,          \* identities of migration callables
    Hooks           \* HookRefs

Kind(n) == n[1]

Version(n) == n[2]

Kinds == {Kind(n) : n \in Nodes}

RefIds == Nodes \cup ForeignNodes

ModelRefs == {RefOf[m] : m \in Models}

DefaultDiscriminator == "default"

NoFunc == "nofunc"

ASSUME NodesAssumption ==
    /\ \A n \in Nodes : n = <<Kind(n), Version(n)>> /\ Version(n) \in Int
    /\ Nodes \cap ForeignNodes = {}
    /\ IsFiniteSet(Nodes)

ASSUME ModelsAssumption ==
    /\ Models \cap {"absent", "key", "id"} = {}
    /\ NodeOf \in [Models -> Nodes]
    /\ ReferencesOf \in [Models -> SUBSET RefIds]
    /\ DOMAIN RefOf = Models
    /\ DOMAIN FieldsOf = Models

\* Cross-kind edges are refused by EdgeId itself.
ASSUME EdgesAssumption ==
    /\ \A e \in EdgeIds : /\ e = [source |-> e.source, target |-> e.target,
                                  disc |-> e.disc]
                          /\ e.source \in Nodes
                          /\ e.target \in Nodes
                          /\ Kind(e.source) = Kind(e.target)
    /\ Funcs \cap {NoFunc, "absent"} = {}

Ends(e) == {e.source, e.target}

NodeObjects == {"id", "key"} \cup Models

(***************************************************************************)
(* An edge object: a VersionEdge when func is a callable's identity, else  *)
(* an EdgeKey.  It embeds the node objects it was built from.              *)
(***************************************************************************)
EdgeObjects ==
    [id: EdgeIds, source: NodeObjects, target: NodeObjects, func: Funcs \cup {NoFunc}]

NoEdge == [func |-> "absent"]

IsExecutable(o) == o.func \in Funcs

IsStored(o) == o.func # "absent"

-----------------------------------------------------------------------------
(***************************************************************************)
(* The registry.  Sorted lists are sets: every read of them goes through   *)
(* the order of versions.  A defaultdict whose keys matter keeps its key   *)
(* set next to its contents (buckets for _migrations, hookKeys for _hooks).*)
(***************************************************************************)
IssueCodes == {"reference.missing", "migration.missing", "edge.endpoint.missing"}

Issues == IssueCodes \X RefIds

Registries ==
    [ nodes      : [Nodes -> {"absent", "key"} \cup Models],         \* _by_versions
      kinds      : [Kinds -> SUBSET Nodes],                          \* _by_kinds
      models     : [ModelRefs -> {"absent"} \cup Models],            \* _by_models
      edges      : [EdgeIds -> EdgeObjects \cup {NoEdge}],           \* _migrations
      buckets    : SUBSET Kinds,                                     \* keys of _migrations
      incident   : [Nodes -> SUBSET EdgeIds],                        \* _edges_by_version
      digests    : SUBSET EdgeObjects,                               \* _digest_index
      hooks      : [EdgeIds -> Seq(Hooks)],                          \* _hooks
      hookKeys   : SUBSET EdgeIds,                                   \* keys of _hooks
      refsBy     : [Nodes -> SUBSET RefIds],                         \* _references_by_entity
      refsTo     : [RefIds -> SUBSET Nodes],                         \* _references_to
      nodeHealth : [Nodes -> SUBSET Issues],                         \* _health_issues of nodes
      edgeHealth : [EdgeIds -> SUBSET Issues] ]                      \* _health_issues of edges

EmptyRegistry ==
    [ nodes      |-> [n \in Nodes |-> "absent"],
      kinds      |-> [k \in Kinds |-> {}],
      models     |-> [r \in ModelRefs |-> "absent"],
      edges      |-> [e \in EdgeIds |-> NoEdge],
      buckets    |-> {},
      incident   |-> [n \in Nodes |-> {}],
      digests    |-> {},
      hooks      |-> [e \in EdgeIds |-> << >>],
      hookKeys   |-> {},
      refsBy     |-> [n \in Nodes |-> {}],
      refsTo     |-> [r \in RefIds |-> {}],
      nodeHealth |-> [n \in Nodes |-> {}],
      edgeHealth |-> [e \in EdgeIds |-> {}] ]

-----------------------------------------------------------------------------
(* Queries. *)

HasEntry(S, n) == n \in Nodes /\ S.nodes[n] # "absent"

IsHydrated(S, n) == S.nodes[n] \in Models

KindVersions(S, k) == {n \in S.kinds[k] : IsHydrated(S, n)}

HasExecutable(S, e) == e \in EdgeIds /\ IsExecutable(S.edges[e])

MigrationsOf(S, n) == {e \in S.incident[n] : IsExecutable(S.edges[e])}

\* The bisect position of a version among all entries of its kind.
Position(S, n) == Cardinality({m \in S.kinds[Kind(n)] : Version(m) < Version(n)})

IsAdjacent(S, e) ==
    Position(S, e.source) - Position(S, e.target) \in {1, -1}

\* True as soon as a kind has three edges, wherever the edge is among them.
IsCriticalEdge(S, e) ==
    Cardinality({f \in EdgeIds : IsStored(S.edges[f]) /\ Kind(f.source) = Kind(e.source)}) > 2

-----------------------------------------------------------------------------
(* Health: the default linters and the refresh of the cached findings. *)

\* What a refresh reads off the object it is given: its references, and
\* whether it is a VersionKey at all (the node linters skip a bare NodeId).
View(o) == [refs |-> IF o \in Models THEN ReferencesOf[o] ELSE {}, key |-> o # "id"]

\* _drop_entity: no references, no findings.
Dropped == [refs |-> {}, key |-> FALSE]

MissingReferences(S, v) == {r \in v.refs : ~HasEntry(S, r)}

\* The next hydrated version after n in its kind, as a set of at most one.
NextVersion(S, n) ==
    LET later == {m \in KindVersions(S, Kind(n)) : Version(m) > Version(n)}
    IN  {m \in later : \A l \in later : Version(m) <= Version(l)}

DefaultEdge(n, m) == [source |-> n, target |-> m, disc |-> DefaultDiscriminator]

MissingMigrations(S, n) ==
    IF n \in KindVersions(S, Kind(n))
    THEN {m \in NextVersion(S, n) : ~HasExecutable(S, DefaultEdge(n, m))}
    ELSE {}

NodeIssues(S, n, v) ==
    {<<"reference.missing", r>> : r \in MissingReferences(S, v)}
    \cup (IF v.key THEN {<<"migration.missing", m>> : m \in MissingMigrations(S, n)}
                   ELSE {})

EdgeIssues(S, e) ==
    {<<"edge.endpoint.missing", n>> : n \in {m \in Ends(e) : ~HasEntry(S, m)}}

\* _refresh_health of a set of entities: views gives the nodes among them and
\* what each refreshed object shows, es the edges.  S is the registry after
\* the mutation; references are moved from the old index entries to the new.
Refresh(S, views, es) ==
    LET D == DOMAIN views IN
    [S EXCEPT
      !.refsBy     = [n \in Nodes |-> IF n \in D THEN views[n].refs ELSE S.refsBy[n]],
      !.refsTo     = [r \in RefIds |-> (S.refsTo[r] \ {n \in D : r \in S.refsBy[n]})
                                       \cup {n \in D : r \in views[n].refs}],
      !.nodeHealth = [n \in Nodes |-> IF n \in D THEN NodeIssues(S, n, views[n])
                                                 ELSE S.nodeHealth[n]],
      !.edgeHealth = [e \in EdgeIds |-> IF e \in es THEN EdgeIssues(S, e)
                                                    ELSE S.edgeHealth[e]]]

\* _refresh_health of the one edge key a caller passed.  For a bare EdgeId
\* (o = "id") the endpoint linter has no answer, so the cached finding of the
\* edge it equals is dropped; an EdgeKey (o = "key") is linted.
RefreshKey(S, e, o) ==
    [S EXCEPT !.edgeHealth[e] = IF o = "id" THEN {} ELSE EdgeIssues(S, e)]

\* _rebuild_health: forget everything, then refresh every stored entity.
Rebuild(S) ==
    [S EXCEPT
      !.refsBy     = [n \in Nodes |-> View(S.nodes[n]).refs],
      !.refsTo     = [r \in RefIds |-> {n \in Nodes : r \in View(S.nodes[n]).refs}],
      !.nodeHealth = [n \in Nodes |-> IF HasEntry(S, n)
                                      THEN NodeIssues(S, n, View(S.nodes[n])) ELSE {}],
      !.edgeHealth = [e \in EdgeIds |-> IF IsStored(S.edges[e])
                                        THEN EdgeIssues(S, e) ELSE {}]]

\* Mutant: only the changed nodes themselves.
AffectedNodesSelf(S, N, v) == [m \in N |-> v]

\* _affected_by_node_change: the changed nodes, seen as v, and every entity
\* recorded as referring to one of them, seen as it was last refreshed.
AffectedNodes(S, N, v) ==
    [m \in N \cup UNION {S.refsTo[n] : n \in N} |->
        IF m \in N THEN v ELSE [refs |-> S.refsBy[m], key |-> TRUE]]

\* Mutant: edges are not refreshed with their endpoints.
AffectedEdgesNone(S, N) == {}

AffectedEdges(S, N) == UNION {S.incident[n] : n \in N}

-----------------------------------------------------------------------------
(* Nodes. *)

\* Mutant: a key-only entry is stored as its bare identity.
StoreEntryBare(S, n, o) ==
    Refresh([S EXCEPT
              !.nodes[n] = IF o = "key" THEN "id" ELSE o,
              !.kinds[Kind(n)] = @ \cup {n},
              !.models = [r \in ModelRefs |->
                            IF o \in Models /\ r = RefOf[o] THEN o ELSE @[r]]],
            AffectedNodes(S, {n}, View(o)),
            AffectedEdges(S, {n}))

\* store: o is a VersionKey or a VersionNode for an identity not yet there.
StoreEntry(S, n, o) ==
    Refresh([S EXCEPT
              !.nodes[n] = o,
              !.kinds[Kind(n)] = @ \cup {n},
              !.models = [r \in ModelRefs |->
                            IF o \in Models /\ r = RefOf[o] THEN o ELSE @[r]]],
            AffectedNodes(S, {n}, View(o)),
            AffectedEdges(S, {n}))

\* remove_entry and the tail of remove_model, for a set of nodes at once: the
\* last refresh of every dependent sees all of them gone.
RemoveEntries(S, N) ==
    Refresh([S EXCEPT
              !.nodes = [n \in Nodes |-> IF n \in N THEN "absent" ELSE @[n]],
              !.kinds = [k \in Kinds |-> @[k] \ N],
              !.models = [r \in ModelRefs |->
                            IF \E n \in N : IsHydrated(S, n) /\ RefOf[S.nodes[n]] = r
                            THEN "absent" ELSE @[r]]],
            AffectedNodes(S, N, Dropped),
            AffectedEdges(S, N))

\* Mutant: duplicates are not rejected.
CanStoreTwice(S, n) == TRUE

CanStore(S, n) == ~HasEntry(S, n)

\* reconcile of a model with a stored entry raises unless the fields agree.
CanReconcile(S, m) ==
    \/ ~HasEntry(S, NodeOf[m])
    \/ /\ IsHydrated(S, NodeOf[m])
       /\ FieldsOf[S.nodes[NodeOf[m]]] = FieldsOf[m]

Reconcile(S, m) ==
    IF HasEntry(S, NodeOf[m]) THEN S ELSE StoreEntry(S, NodeOf[m], m)

CanHydrate(S, m) == S.nodes[NodeOf[m]] = "key" \/ CanReconcile(S, m)

Hydrate(S, m) ==
    IF S.nodes[NodeOf[m]] = "key"
    THEN StoreEntry(RemoveEntries(S, {NodeOf[m]}), NodeOf[m], m)
    ELSE Reconcile(S, m)

\* Mutant: the migrations of the version are not consulted.
CanRemoveModelUnguarded(S, n) == HasEntry(S, n)

CanRemoveModel(S, n) == HasEntry(S, n) /\ MigrationsOf(S, n) = {}

RemoveModel(S, n) == RemoveEntries(S, {n})

\* Refused while _migrations holds any bucket, an empty one included.
CanClearModels(S) == S.buckets = {}

ClearModels(S) ==
    Rebuild([S EXCEPT !.nodes  = [n \in Nodes |-> "absent"],
                      !.kinds  = [k \in Kinds |-> {}],
                      !.models = [r \in ModelRefs |-> "absent"]])

-----------------------------------------------------------------------------
(* Migrations. *)

\* The endpoints of edge object o, each with the node object o embeds.
EdgeViews(o) ==
    [n \in Ends(o.id) |-> IF n = o.id.source THEN View(o.source) ELSE View(o.target)]

\* The direct form checks the endpoints of an executable edge only.
CanStoreEdge(S, o) ==
    /\ IsExecutable(o) => \A n \in Ends(o.id) : HasEntry(S, n)
    /\ IsExecutable(o) /\ IsExecutable(S.edges[o.id]) => o = S.edges[o.id]

\* Mutant: an edge already there is replaced by whatever comes.
StoreEdgeReplacing(S, o) ==
    Refresh([S EXCEPT
              !.edges[o.id] = o,
              !.buckets = @ \cup {Kind(o.id.source)},
              !.incident = [n \in Nodes |-> IF n \in Ends(o.id)
                                            THEN @[n] \cup {o.id} ELSE @[n]],
              !.digests = (@ \ {S.edges[o.id]})
                         \cup (IF IsExecutable(o) THEN {o} ELSE {})],
            EdgeViews(o), {o.id})

\* The common tail of store_migration: insert, upgrade a key-only edge, or
\* keep what is there.
StoreEdge(S, o) ==
    IF IsStored(S.edges[o.id]) /\ ~(IsExecutable(o) /\ ~IsExecutable(S.edges[o.id]))
    THEN S
    ELSE Refresh([S EXCEPT
                   !.edges[o.id] = o,
                   !.buckets = @ \cup {Kind(o.id.source)},
                   !.incident = [n \in Nodes |-> IF n \in Ends(o.id)
                                                 THEN @[n] \cup {o.id} ELSE @[n]],
                   !.digests = IF IsExecutable(o) THEN @ \cup {o} ELSE @],
                 EdgeViews(o), {o.id})

\* Mutant: the incidence index keeps removed edges.
RemoveEdgesIncident(S, K) ==
    [S EXCEPT !.edges = [e \in EdgeIds |-> IF e \in K THEN NoEdge ELSE @[e]],
              !.digests = @ \ {S.edges[e] : e \in K},
              !.edgeHealth = [e \in EdgeIds |-> IF e \in K THEN {} ELSE @[e]]]

\* remove_migration of stored edges K: the endpoints are refreshed with the
\* node objects the removed edge embeds; in a run of edges the later one wins,
\* which is the one the shared endpoint is the source of.
RemoveEdges(S, K) ==
    LET T == [S EXCEPT
               !.edges = [e \in EdgeIds |-> IF e \in K THEN NoEdge ELSE @[e]],
               !.buckets = @ \ {k \in Kinds :
                              /\ \E e \in K : Kind(e.source) = k
                              /\ \A e \in EdgeIds \ K :
                                   Kind(e.source) = k => ~IsStored(S.edges[e])},
               !.incident = [n \in Nodes |-> @[n] \ K],
               !.digests = @ \ {S.edges[e] : e \in K}]
        ends == UNION {Ends(e) : e \in K}
        viewOf(n) ==
            IF \E e \in K : e.source = n
            THEN View(S.edges[CHOOSE e \in K : e.source = n].source)
            ELSE View(S.edges[CHOOSE e \in K : e.target = n].target)
        R == Refresh(T, [n \in ends |-> viewOf(n)], {})
    IN  [R EXCEPT !.edgeHealth = [e \in EdgeIds |-> IF e \in K THEN {} ELSE @[e]]]

\* A key the registry has hooks for (or has only been asked for, see ReadHooks)
\* is not removed.
CanRemoveMigration(S, e) == e \notin S.hookKeys

\* remove_migration of a key that is not stored: no error, but the lookup
\* leaves an empty bucket and the key's endpoints are refreshed as given.
RemoveUnknown(S, e, src, tgt, o) ==
    RefreshKey(Refresh([S EXCEPT !.buckets = @ \cup {Kind(e.source)}],
                       EdgeViews([id |-> e, source |-> src, target |-> tgt]), {}),
               e, o)

ClearHooks(S, K) ==
    [S EXCEPT !.hookKeys = @ \ K,
              !.hooks = [e \in EdgeIds |-> IF e \in K THEN << >> ELSE @[e]]]

ClearMigrations(S) ==
    Rebuild([ClearHooks(S, EdgeIds) EXCEPT
               !.edges    = [e \in EdgeIds |-> NoEdge],
               !.buckets  = {},
               !.incident = [n \in Nodes |-> {}],
               !.digests  = {}])

\* remove_migration_range: the default edges between consecutive hydrated
\* versions from lo on; hi itself must be hydrated and may not be the last
\* position the loop indexes past.
RangeEdges(S, lo, hi) ==
    {e \in EdgeIds :
        /\ e.disc = DefaultDiscriminator
        /\ Kind(e.source) = Kind(lo)
        /\ IsHydrated(S, e.source) /\ e.target \in NextVersion(S, e.source)
        /\ Version(lo) <= Version(e.source) /\ Version(e.source) < Version(hi)
        /\ HasExecutable(S, e)}

CanRemoveRange(S, lo, hi) ==
    /\ \E n \in KindVersions(S, Kind(lo)) : Version(n) >= Version(hi)
    /\ \A e \in RangeEdges(S, lo, hi) : ~IsAdjacent(S, e) /\ e \notin S.hookKeys

RemoveRange(S, lo, hi) == RemoveEdges(S, RangeEdges(S, lo, hi))

\* delete_kind refuses when an executable edge leaves the hydrated versions,
\* otherwise clears the hooks of their executable edges, removes these edges
\* and then the versions.  Key-only nodes and edges stay.
KindEdges(S, k) == UNION {MigrationsOf(S, n) : n \in KindVersions(S, k)}

CanDeleteKind(S, k) ==
    \A e \in KindEdges(S, k) : Ends(e) \subseteq KindVersions(S, k)

\* Mutant: the hooks of the removed edges stay.
DeleteKindHooks(S, k) ==
    RemoveEntries(RemoveEdges(S, KindEdges(S, k)), KindVersions(S, k))

DeleteKind(S, k) ==
    RemoveEntries(RemoveEdges(ClearHooks(S, KindEdges(S, k)), KindEdges(S, k)),
                  KindVersions(S, k))

-----------------------------------------------------------------------------
(* Migrations given as a MigrationSpec. *)

\* Endpoints the registry holds no model for.
Unhydrated(S, e) == {n \in Ends(e) : ~IsHydrated(S, n)}

\* store_migration reflects a single missing endpoint when the registry was
\* made with on_missing="reconstruct_model"; storing it over a key-only entry
\* is refused.  m is the model the reflection port returns.
CanReflect(S, e, m) ==
    /\ \E n \in Unhydrated(S, e) : Unhydrated(S, e) = {n} /\ NodeOf[m] = n /\ CanStore(S, n)
    /\ \E n \in Ends(e) : IsHydrated(S, n)

\* The executable edge built from the hydrated endpoints of S.
BuildEdge(S, e, f) ==
    [id |-> e, source |-> S.nodes[e.source], target |-> S.nodes[e.target], func |-> f]

CanStoreSpec(S, e, f) ==
    /\ Unhydrated(S, e) = {}
    /\ IsAdjacent(S, e)
    /\ CanStoreEdge(S, BuildEdge(S, e, f))

-----------------------------------------------------------------------------
(* Hooks. *)

AddHook(S, e, h, o) ==
    RefreshKey([S EXCEPT !.hookKeys = @ \cup {e}, !.hooks[e] = Append(@, h)], e, o)

\* The same hook for a set of edges at once, each refreshed.
AddHooks(S, K, h) ==
    Refresh([S EXCEPT !.hookKeys = @ \cup K,
                      !.hooks = [e \in EdgeIds |-> IF e \in K THEN Append(@[e], h) ELSE @[e]]],
            << >>, K)

\* list.remove drops the first occurrence; an emptied list drops the key.
RemoveFirst(s, h) ==
    [i \in 1..(Len(s) - 1) |-> IF \E j \in 1..i : s[j] = h THEN s[i + 1] ELSE s[i]]

CanRemoveHook(S, e, h) == e \in S.hookKeys /\ \E i \in DOMAIN S.hooks[e] : S.hooks[e][i] = h

RemoveHook(S, e, h, o) ==
    LET rest == RemoveFirst(S.hooks[e], h) IN
    RefreshKey([S EXCEPT !.hookKeys = IF rest = << >> THEN @ \ {e} ELSE @,
                         !.hooks[e] = rest],
               e, o)

\* hooks(key) indexes a defaultdict: asking for a key records it.
ReadHooks(S, e) == [S EXCEPT !.hookKeys = @ \cup {e}]

-----------------------------------------------------------------------------
(***************************************************************************)
(* What a registry owes its callers, as predicates on one registry.        *)
(***************************************************************************)

\* Every secondary index says exactly what the primary stores say.
KindIndexAgrees(S) ==
    \A k \in Kinds : S.kinds[k] = {n \in Nodes : Kind(n) = k /\ HasEntry(S, n)}

ModelIndexAgrees(S) ==
    \A r \in ModelRefs : S.models[r] # "absent" =>
        RefOf[S.models[r]] = r /\ S.nodes[NodeOf[S.models[r]]] = S.models[r]

\* Two versions may share a reference: it is the qualified name of the class,
\* and the index keeps the version stored last under it.
OneVersionPerReference ==
    \A l, m \in Models : RefOf[l] = RefOf[m] => NodeOf[l] = NodeOf[m]

\* Where none do, no model is missing from the index.
ModelIndexComplete(S) ==
    OneVersionPerReference =>
        \A n \in Nodes : IsHydrated(S, n) => S.models[RefOf[S.nodes[n]]] = S.nodes[n]

IncidenceIndexAgrees(S) ==
    \A n \in Nodes : S.incident[n] = {e \in EdgeIds : IsStored(S.edges[e]) /\ n \in Ends(e)}

DigestIndexAgrees(S) ==
    S.digests = {S.edges[e] : e \in {f \in EdgeIds : IsExecutable(S.edges[f])}}

ReferenceIndexAgrees(S) ==
    \A r \in RefIds : S.refsTo[r] = {n \in Nodes : r \in S.refsBy[n]}

\* Primary stores keep an object under its own identity, a bucket for every
\* kind with edges, and hooks only under recorded keys.
StoresWellFormed(S) ==
    /\ \A n \in Nodes : IsHydrated(S, n) => NodeOf[S.nodes[n]] = n
    /\ \A e \in EdgeIds : IsStored(S.edges[e]) =>
          S.edges[e].id = e /\ Kind(e.source) \in S.buckets
    /\ \A e \in EdgeIds \ S.hookKeys : S.hooks[e] = << >>

IndexesAgree(S) ==
    /\ StoresWellFormed(S)
    /\ KindIndexAgrees(S)
    /\ ModelIndexAgrees(S)
    /\ IncidenceIndexAgrees(S)
    /\ DigestIndexAgrees(S)
    /\ ReferenceIndexAgrees(S)

ExecutableEndsRegistered(S) ==
    \A e \in EdgeIds : IsExecutable(S.edges[e]) => \A n \in Ends(e) : HasEntry(S, n)

\* From S to T no model and no executable edge is replaced or loses its content
\* in place.
ContentKept(S, T) ==
    /\ \A n \in Nodes : IsHydrated(S, n) => T.nodes[n] \in {S.nodes[n], "absent"}
    /\ \A e \in EdgeIds : IsExecutable(S.edges[e]) => T.edges[e] \in {S.edges[e], NoEdge}

\* The cached finding of edge e in T is what the linter says of T, or neither
\* moved since S.
FindingKept(S, T, e) ==
    \/ T.edgeHealth[e] = EdgeIssues(T, e)
    \/ /\ IsStored(S.edges[e])
       /\ T.edgeHealth[e] = S.edgeHealth[e]
       /\ EdgeIssues(T, e) = EdgeIssues(S, e)

\* It went with a change of the edge's hooks.
FindingDropped(S, T, e) ==
    /\ T.edgeHealth[e] = {}
    /\ T.hooks[e] # S.hooks[e] \/ ~(e \in T.hookKeys <=> e \in S.hookKeys)

EdgeFindingsMove(S, T) ==
    \A e \in EdgeIds : IsStored(T.edges[e]) =>
        FindingKept(S, T, e) \/ FindingDropped(S, T, e)

ReferenceFindings(S, n) == {r \in RefIds : <<"reference.missing", r>> \in S.nodeHealth[n]}

ReferencesCurrent(S) ==
    \A n \in Nodes : /\ S.refsBy[n] = View(S.nodes[n]).refs
                     /\ ReferenceFindings(S, n) = MissingReferences(S, View(S.nodes[n]))

EdgesBindStoredModels(S) ==
    \A e \in EdgeIds : IsStored(S.edges[e]) =>
        /\ IsExecutable(S.edges[e])
        /\ IsHydrated(S, e.source) /\ IsHydrated(S, e.target)
        /\ S.edges[e].source = S.nodes[e.source]
        /\ S.edges[e].target = S.nodes[e.target]

HooksOnExecutableEdges(S) ==
    \A e \in S.hookKeys : IsExecutable(S.edges[e]) /\ S.hooks[e] # << >>
=============================================================================
