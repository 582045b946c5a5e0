---------------------------- MODULE Publication ----------------------------
(***************************************************************************)
(* A registry that keeps changing, the publishers that lock it             *)
(* (Engine.snapshot) and hand the graphs on through a store with           *)
(* compare-and-set saves (core/graph/store.py).  A store call is one step: *)
(* it neither awaits nor releases anything between its check and its write *)
(* and publishers are tasks of one event loop or callers of one thread.    *)
(***************************************************************************)
EXTENDS Registry, Lookups

CONSTANTS
    Publishers,
    Seeds,           \* registries to start from, built by registry calls
    MaxChanges,      \* bound on registry mutations
    MaxGeneration    \* bound on saves

ASSUME PublicationAssumption ==
    /\ Seeds \subseteq Registries
    /\ \A S \in Seeds : IndexesAgree(S) /\ ModelIndexComplete(S) /\ ExecutableEndsRegistered(S)
    /\ MaxChanges \in Nat /\ MaxGeneration \in Nat

VARIABLES
    held,       \* the graph each publisher holds, a set of at most one
    seen,       \* the PublishedRevision each publisher last read, or {}
    store,      \* _graph
    published,  \* _published
    changes     \* registry mutations so far

pvars == <<reg, held, seen, store, published, changes>>

PInit ==
    /\ reg \in Seeds
    /\ held = [p \in Publishers |-> {}]
    /\ seen = [p \in Publishers |-> {}]
    /\ store = {} /\ published = {}
    /\ changes = 0

Mutate ==
    /\ changes < MaxChanges
    /\ Next
    /\ changes' = changes + 1
    /\ UNCHANGED <<held, seen, store, published>>

\* Engine.snapshot(); with the revision of the publication it last read, build
\* raises RevisionMismatchError unless the registry still has that revision.
Lock(p, pinned) ==
    /\ pinned => \E s \in seen[p] : s.revision = BuildGraph(reg).revision
    /\ held' = [held EXCEPT ![p] = {BuildGraph(reg)}]
    /\ UNCHANGED <<reg, seen, store, published, changes>>

Observe(p) ==
    /\ seen' = [seen EXCEPT ![p] = published]
    /\ UNCHANGED <<reg, held, store, published, changes>>

Load(p) ==
    /\ store # {}
    /\ held' = [held EXCEPT ![p] = store]
    /\ UNCHANGED <<reg, seen, store, published, changes>>

\* What save compares: an expectation the publisher has (it has none before the
\* first publication it read) must be met by the current publication.
Expected(p, checks) ==
    \A s \in seen[p] :
        /\ "revision" \in checks => \E c \in published : c.revision = s.revision
        /\ "generation" \in checks => \E c \in published : c.generation = s.generation

\* Mutant: counted from what the publisher read.
NextGenerationSeen(p) == IF seen[p] = {} THEN 1 ELSE 1 + (CHOOSE s \in seen[p] : TRUE).generation

NextGeneration(p) == IF published = {} THEN 1 ELSE 1 + (CHOOSE c \in published : TRUE).generation

Save(p, checks) ==
    /\ held[p] # {} /\ NextGeneration(p) <= MaxGeneration
    /\ Expected(p, checks)
    /\ \E g \in held[p] :
          published' = {[revision |-> g.revision, generation |-> NextGeneration(p)]}
    /\ store' = held[p]
    /\ seen' = [seen EXCEPT ![p] = published']
    /\ UNCHANGED <<reg, held, changes>>

PNext ==
    \/ Mutate
    \/ \E p \in Publishers :
          \/ \E pinned \in BOOLEAN : Lock(p, pinned)
          \/ Observe(p) \/ Load(p)
          \/ \E checks \in SUBSET {"revision", "generation"} : Save(p, checks)

PSpec == PInit /\ [][PNext]_pvars

-----------------------------------------------------------------------------
(* Properties. *)

OrNotFound(os) == IF os = {} THEN NotFound ELSE CHOOSE o \in os : TRUE

\* What a graph answers and what the registry it was built from does: entries,
\* models by identity and by reference, kinds, first and last version,
\* executable edges of a kind and of a version, adjacency, criticality, digests.
LookupsAgree ==
    LET G == BuildGraph(reg) IN
    /\ \A n \in Nodes :
          /\ FindEntry(G, n) = OrNotFound(EntryAt(reg, n))
          /\ FindModel(G, n) = OrNotFound(ModelAt(reg, n))
          /\ GraphMigrationsOf(G, n) = MigrationsOf(reg, n)
          /\ n \in NodeEntries(G, BOOLEAN, {FALSE}, BOOLEAN)
                <=> HasEntry(reg, n) /\ reg.incident[n] = {}
    /\ \A r \in ModelRefs : GetModelByRef(G, r) = OrNotFound(ModelByClass(reg, r))
    /\ \A k \in Kinds :
          /\ VersionsOfKind(G, k) = KindVersions(reg, k)
          /\ Latest(G, k) = RegistryLatest(reg, k)
          /\ Earliest(G, k) = RegistryEarliest(reg, k)
          /\ EdgeEntriesOf(G, {k}, {TRUE}) = GraphMigrations(G, k)
    /\ GraphEntities(G) = RegistryEntities(reg)
    /\ LatestVersion(G) = RegistryLatestVersion(reg)
    /\ MigrationCount(reg) = Cardinality(G.backend.exec)
    /\ \A e \in EdgeIds :
          /\ HasMigration(G, e) <=> HasExecutable(reg, e)
          /\ Ends(e) \subseteq Entries(reg) => (GraphAdjacent(G, e) <=> IsAdjacent(reg, e))
          /\ GraphCritical(G, e) <=> IsStored(reg.edges[e]) /\ IsCriticalEdge(reg, e)
          /\ IsStored(reg.edges[e]) =>
                FindEdgeByDigest(G, reg.edges[e]) = RegistryEdgeByDigest(reg, reg.edges[e])

\* A graph answers every lookup as the registry it was built from does.  And a
\* manager over that registry finds exactly what it says it contains: by key,
\* class, edge, pair or slice, a class at its own version, a slice as executable
\* migrations from its start to its stop; it lists by reference only models that
\* are registered, and all of them where no two versions share a reference; a pair
\* across kinds, which it refuses, is no answer.
\* Both read the registry's secondary indexes, so this fails after any sequence
\* of calls that lets one of them drift.
SnapshotAnswersAsRegistry ==
    LET G == BuildGraph(reg) IN
    /\ LookupsAgree
    /\ AllModels(reg) \subseteq UNION {ModelsOfKind(reg, k) : k \in Kinds}
    /\ OneVersionPerReference =>
          /\ AllModels(reg) = UNION {ModelsOfKind(reg, k) : k \in Kinds}
          /\ ModelCount(reg) = Cardinality(AllModels(reg))
    /\ \A i \in Indexes :
          /\ Contains(reg, G, i) \subseteq {GetItem(reg, G, i) # {}}
          /\ i.form = "class" => \A m \in GetItem(reg, G, i) : m \in Models /\ RefOf[m] = i.ref
          /\ i.form = "slice" => \A p \in GetItem(reg, G, i) :
                IF i.from = i.to THEN p = << >>
                ELSE p[1].id.source = i.from /\ p[Len(p)].id.target = i.to

\* The nodes at most i edges away.
Within(es, n, i) ==
    LET reach[j \in 0..i] ==
            IF j = 0 THEN {n}
            ELSE LET r == reach[j - 1] IN r \cup {e.target : e \in {f \in es : f.source \in r}}
    IN  reach[i]

IsWalk(path, from, to) ==
    /\ path # << >> => path[1].source = from /\ path[Len(path)].target = to
    /\ path = << >> => from = to
    /\ \A i \in 1..(Len(path) - 1) : path[i].target = path[i + 1].source

\* The planner's walk along consecutive versions exists exactly when no version
\* from its start on has a missing-migration finding.
WalksFollowFindings ==
    \A a, b \in Entries(reg) :
        Kind(a) = Kind(b) /\ Version(a) < Version(b) /\ IsHydrated(reg, a) /\ IsHydrated(reg, b) =>
           (EdgePath(BuildGraph(reg), a, b, DefaultDiscriminator) # {}
              <=> \A n \in KindVersions(reg, Kind(a)) :
                     Version(a) <= Version(n) /\ Version(n) < Version(b)
                        => MissingMigrations(reg, n) = {})

\* For every two versions, the breadth-first searches of both kinds of backend
\* return one and the same walk along allowed edges, a shortest one, and none
\* exactly when there is none; the planner's own walk along consecutive
\* versions exists exactly when no version in between has a missing-migration
\* finding; topological_sort orders every edge of a graph whose edges have
\* entries at both ends, and gives up exactly when the graph has a cycle.
TraversalsMatchReference ==
    LET G == BuildGraph(reg)
        N == Cardinality(Nodes)
    IN
    /\ \A es \in {G.backend.edges, G.backend.exec} : \A a, b \in Nodes :
          LET path == IndexedShortestPath(G, a, b, es) IN
          /\ path # {} <=> b \in Within(es, a, N)
          /\ \A p \in path : /\ IsWalk(p, a, b) /\ Seqs!ToSet(p) \subseteq es
                             /\ p # << >> => b \notin Within(es, a, Len(p) - 1)
          /\ Closed(G) /\ {a, b} \subseteq DOMAIN G.backend.nodes =>
                NativeShortestPath(G, a, b, es) = path
    /\ WalksFollowFindings
    /\ Closed(G) =>
          LET order == TopologicalSort(G)
              At(o, n) == CHOOSE i \in DOMAIN o : o[i] = n
          IN  /\ order = {} <=> \E e \in G.backend.edges : e.source \in Within(G.backend.edges, e.target, N)
              /\ \A o \in order : \A e \in G.backend.edges : At(o, e.source) < At(o, e.target)

\* What planning and binding read off a graph, models by their digest.
Plans(G) ==
    [ nodes |-> [n \in DOMAIN G.backend.nodes |-> NodeDigest(n, G.backend.nodes[n])],
      paths |-> [ab \in Nodes \X Nodes |-> EdgePath(G, ab[1], ab[2], DefaultDiscriminator)],
      exec  |-> G.backend.exec,
      digests |-> G.backend.digests,
      hooks |-> G.backend.hooks ]

\* A revision stands for one graph: any two graphs in circulation (held by a
\* publisher or in the store, built from whatever states of the registry) with
\* the same revision plan the same paths over the same models and hooks, so a
\* pinned lock or a conditional save accepts nothing else; equal content already
\* means an equal manifest.
RevisionsPinGraphs ==
    LET graphs == store \cup UNION {held[p] : p \in Publishers} IN
    /\ \A G, H \in graphs : SameManifest(G, H) => Plans(G) = Plans(H)
    /\ \A G, H \in graphs : SameContent(G, H) => SameManifest(G, H)
    /\ \A G \in store, c \in published : c.revision = G.revision

\* Publications form one chain: no publisher has read a generation beyond the
\* current one, and a generation names one revision for everybody who read it,
\* however conditional and unconditional saves of stale readers interleave.
ChronologyIsLinear ==
    LET records == published \cup UNION {seen[p] : p \in Publishers} IN
    \A r \in records, c \in published :
        /\ r.generation <= c.generation
        /\ \A s \in records : r.generation = s.generation => r.revision = s.revision
=============================================================================
