------------------------------ MODULE Lookups ------------------------------
(***************************************************************************)
(* What the registry, the engine over it and the manager on top answer     *)
(* when they are asked (core/registry/memory.py, core/engine.py,           *)
(* runtime/manager/mixins/lookup.py and models.py).  S is a registry; an   *)
(* answer is the set of at most one result, {} where the code raises.      *)
(***************************************************************************)
EXTENDS Snapshot

\* versions, latest_version
RegistryVersions(S) == {n \in Nodes : IsHydrated(S, n)}

RegistryLatestVersion(S) == Newest(RegistryVersions(S))

\* entities: the kinds that have entries.
RegistryEntities(S) == {k \in Kinds : S.kinds[k] # {}}

\* models(kind), and models(None)
ModelsOfKind(S, k) == {RefOf[S.nodes[n]] : n \in KindVersions(S, k)}

AllModels(S) == {r \in ModelRefs : S.models[r] # "absent"}

\* latest, earliest
RegistryLatest(S, k) == Newest(KindVersions(S, k))

RegistryEarliest(S, k) == Oldest(KindVersions(S, k))

RegistryEdgeByDigest(S, o) == IF o \in S.digests THEN {o.id} ELSE {}

\* model_count and migration_count, which goes by the kinds with a bucket.
ModelCount(S) == Cardinality(RegistryVersions(S))

MigrationCount(S) ==
    Cardinality({e \in EdgeIds : Kind(e.source) \in S.buckets /\ HasExecutable(S, e)})

-----------------------------------------------------------------------------
(***************************************************************************)
(* Indexes of a manager: a model key or object (a node), a model class (its*)
(* reference), a typed edge, a pair of versions, a slice from one version  *)
(* to another.                                                             *)
(***************************************************************************)
Indexes ==
    [form : {"node"}, node : Nodes] \cup [form : {"class"}, ref : ModelRefs]
    \cup [form : {"edge"}, edge : EdgeIds]
    \cup [form : {"pair", "slice"}, from : Nodes, to : Nodes]

\* get_model
ModelAt(S, n) == IF IsHydrated(S, n) THEN {S.nodes[n]} ELSE {}

\* get_model_by_class: the adapter's reference looked up in _by_models.
ModelByClass(S, r) == IF S.models[r] = "absent" THEN {} ELSE {S.models[r]}

\* _resolve_model_key of a class
KeyOfClass(S, r) == {NodeOf[m] : m \in ModelByClass(S, r)}

\* __getitem__ of the registry, key-only entries and edges included.
EntryAt(S, n) == IF HasEntry(S, n) THEN {S.nodes[n]} ELSE {}

EdgeAt(S, e) == IF e \in EdgeIds /\ IsStored(S.edges[e]) THEN {S.edges[e]} ELSE {}

\* migration_path: the walk between two models in G, a new snapshot of S.
MigrationPath(S, G, from, to) ==
    IF ModelAt(S, from) = {} \/ ModelAt(S, to) = {} THEN {}
    ELSE EdgePath(G, from, to, DefaultDiscriminator)

PairKey(i) == DefaultEdge(i.from, i.to)

\* Versions of two kinds make no pair: the key's ValueError is not among the errors
\* that __contains__ answers with FALSE.
Contains(S, G, i) ==
    IF i.form = "pair" /\ Kind(i.from) # Kind(i.to) THEN {}
    ELSE {CASE i.form = "node"  -> EntryAt(S, i.node) # {}
            [] i.form = "class" -> \E n \in KeyOfClass(S, i.ref) : EntryAt(S, n) # {}
            [] i.form = "edge"  -> EdgeAt(S, i.edge) # {}
            [] i.form = "pair"  -> EdgeAt(S, PairKey(i)) # {}
            [] i.form = "slice" -> MigrationPath(S, G, i.from, i.to) # {}}

\* A slice returns the migrations along the path, found again in the registry.
GetItem(S, G, i) ==
    CASE i.form = "node"  -> EntryAt(S, i.node)
      [] i.form = "class" -> UNION {EntryAt(S, n) : n \in KeyOfClass(S, i.ref)}
      [] i.form = "edge"  -> EdgeAt(S, i.edge)
      [] i.form = "pair"  -> EdgeAt(S, PairKey(i))
      [] i.form = "slice" ->
            {[s \in DOMAIN p |-> S.edges[p[s]]] :
               p \in {q \in MigrationPath(S, G, i.from, i.to) :
                        \A s \in DOMAIN q : HasExecutable(S, q[s])}}
=============================================================================
