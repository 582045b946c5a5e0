------------------------------ MODULE Snapshot ------------------------------
(***************************************************************************)
(* Migration graphs: GraphBuilder compiles a registry into an immutable    *)
(* MigrationGraph with a revision (core/graph/builder.py, revision.py),    *)
(* whose lookups and traversals go to a backend (graph.py, backend/).      *)
(*                                                                         *)
(* A graph is a value.  Its sorted tuples are sets; where an algorithm     *)
(* iterates over one, its order is KindRank, then version, then            *)
(* discriminator (the order of NodeId and EdgeId).                         *)
(***************************************************************************)
EXTENDS RegistryOps

Seqs == INSTANCE SequencesExt

CONSTANTS
    KindRank,   \* position of a kind's name in the order of strings
    DiscRank    \* position of a discriminator in the order of strings

ASSUME RanksAssumption ==
    /\ \A k \in Kinds : KindRank[k] \in Nat
    /\ \A k, l \in Kinds : KindRank[k] = KindRank[l] => k = l
    /\ \A e \in EdgeIds : DiscRank[e.disc] \in Nat
    /\ \A e, f \in EdgeIds : DiscRank[e.disc] = DiscRank[f.disc] => e.disc = f.disc

NodeBefore(m, n) ==
    \/ KindRank[Kind(m)] < KindRank[Kind(n)]
    \/ Kind(m) = Kind(n) /\ Version(m) < Version(n)

EdgeBefore(e, f) ==
    \/ NodeBefore(e.source, f.source)
    \/ e.source = f.source /\ NodeBefore(e.target, f.target)
    \/ e.source = f.source /\ e.target = f.target /\ DiscRank[e.disc] < DiscRank[f.disc]

Sorted(es) == Seqs!SetToSortSeq(es, EdgeBefore)

SortedNodes(ns) == Seqs!SetToSortSeq(ns, NodeBefore)

-----------------------------------------------------------------------------
(***************************************************************************)
(* Digests are injective: a digest is the content it covers.  A node's is  *)
(* its identity, for a model also the reference, field names and           *)
(* references of the descriptor (not the types of the fields); an edge's   *)
(* is its identity, for an executable edge also what its endpoints hash to *)
(* and the identity of the migration.                                      *)
(***************************************************************************)
NodeDigest(n, o) ==
    IF o \in Models THEN <<n, RefOf[o], FieldsOf[o], ReferencesOf[o]>> ELSE <<n>>

EdgeDigest(o) ==
    IF IsExecutable(o)
    THEN <<o.id, NodeDigest(o.id.source, o.source), NodeDigest(o.id.target, o.target), o.func>>
    ELSE <<o.id>>

\* Hooks of an edge sorted by digest: how often each occurs is all that is left.
HookBag(s) == [h \in {s[i] : i \in DOMAIN s} |-> Cardinality({i \in DOMAIN s : s[i] = h})]

\* The edges the builder visits: those of every kind with entries or a bucket.
SourceEdges(S) ==
    {e \in EdgeIds : /\ IsStored(S.edges[e])
                     /\ S.kinds[Kind(e.source)] # {} \/ Kind(e.source) \in S.buckets}

\* IndexedBackend.build on what the builder passes on.  Positions are those
\* among the entries of the kind; an index is the set comprehension it caches.
Indexed(nodes, edges, exec, objects, refs, digests, hooks) ==
    [ nodes     |-> nodes,
      edges     |-> edges,
      exec      |-> exec,
      position  |-> [n \in DOMAIN nodes |->
                       Cardinality({m \in DOMAIN nodes :
                                      Kind(m) = Kind(n) /\ Version(m) < Version(n)})],
      endpoint  |-> [n \in Nodes |-> {e \in edges : n \in Ends(e)}],
      outgoing  |-> [n \in Nodes |-> {e \in edges : e.source = n}],
      incoming  |-> [n \in Nodes |-> {e \in edges : e.target = n}],
      models    |-> refs,
      digests   |-> digests,
      nodeDigest |-> [n \in DOMAIN nodes |-> NodeDigest(n, nodes[n])],
      edgeDigest |-> [e \in edges |-> EdgeDigest(objects[e])],
      hooks     |-> hooks ]

Entries(S) == {n \in Nodes : HasEntry(S, n)}

Backend(S) ==
    LET es == SourceEdges(S) IN
    Indexed([n \in Entries(S) |-> S.nodes[n]],
            es,
            {e \in es : IsExecutable(S.edges[e])},
            S.edges,
            [r \in {x \in ModelRefs : S.models[x] # "absent"} |-> S.models[r]],
            {o.id : o \in S.digests},
            [e \in {f \in es : S.hooks[f] # << >>} |-> HookBag(S.hooks[e])])

\* Mutant: the executable flag of an edge and its binding are not hashed.
ContentDigestIds(B) == [nodes |-> B.nodeDigest, edges |-> B.edges, hooks |-> B.hooks]

ContentDigest(B) ==
    [ nodes |-> B.nodeDigest,
      edges |-> [e \in B.edges |-> <<B.edgeDigest[e], e \in B.exec>>],
      hooks |-> B.hooks ]

\* VersionVectorRevisionPolicy.derive: the versions of every kind with entries,
\* and the content digest.  One namespace has one version strategy.
Derive(B) ==
    [ versions |-> [k \in {Kind(n) : n \in DOMAIN B.nodes} |->
                      {Version(n) : n \in {m \in DOMAIN B.nodes : Kind(m) = k}}],
      content  |-> ContentDigest(B) ]

\* GraphBuilder.build
BuildGraph(S) == [backend |-> Backend(S), revision |-> Derive(Backend(S))]

\* The manifest digest hashes the revision.
SameContent(G, H) == G.revision.content = H.revision.content
SameManifest(G, H) == G.revision = H.revision

-----------------------------------------------------------------------------
(* MigrationGraph lookups.  NotFound stands for the error or None; a lookup  *)
(* that returns a node, an edge or a path returns the set of at most one.    *)

NotFound == "not found"

FindEntry(G, n) == IF n \in DOMAIN G.backend.nodes THEN G.backend.nodes[n] ELSE NotFound

FindModel(G, n) == IF FindEntry(G, n) \in Models THEN FindEntry(G, n) ELSE NotFound

GetModelByRef(G, r) ==
    IF r \in DOMAIN G.backend.models THEN G.backend.models[r] ELSE NotFound

NodesForKind(G, k) == {n \in DOMAIN G.backend.nodes : Kind(n) = k}

VersionsOfKind(G, k) == {n \in NodesForKind(G, k) : G.backend.nodes[n] \in Models}

GraphKinds(G) ==
    {Kind(n) : n \in DOMAIN G.backend.nodes} \cup {Kind(e.source) : e \in G.backend.edges}

GraphEntities(G) == {k \in GraphKinds(G) : NodesForKind(G, k) # {}}

\* versions[-1] and versions[0] of the sorted list.
Newest(ns) == {n \in ns : \A m \in ns : m = n \/ NodeBefore(m, n)}
Oldest(ns) == {n \in ns : \A m \in ns : m = n \/ NodeBefore(n, m)}

Latest(G, k) == Newest(VersionsOfKind(G, k))

Earliest(G, k) == Oldest(VersionsOfKind(G, k))

LatestVersion(G) == Newest({n \in DOMAIN G.backend.nodes : G.backend.nodes[n] \in Models})

GraphMigrations(G, k) == {e \in G.backend.exec : Kind(e.source) = k}

GraphMigrationsOf(G, n) == G.backend.endpoint[n] \cap G.backend.exec

HasMigration(G, e) == e \in G.backend.edges /\ e \in G.backend.exec

\* Unlike the registry's, FALSE as soon as an endpoint has no entry.
GraphAdjacent(G, e) ==
    /\ Ends(e) \subseteq DOMAIN G.backend.position
    /\ G.backend.position[e.source] - G.backend.position[e.target] \in {1, -1}

\* Unlike the registry's, FALSE for an edge that is not in the graph.
GraphCritical(G, e) ==
    /\ e \in G.backend.edges
    /\ Cardinality({f \in G.backend.edges : Kind(f.source) = Kind(e.source)}) > 2

FindEdgeByDigest(G, o) == {o.id} \cap G.backend.digests

\* node_entries(full=, connected=, orphaned=): the accepted values of each flag,
\* all of them for None.
NodeEntries(G, full, connected, orphaned) ==
    {n \in DOMAIN G.backend.nodes :
        /\ (G.backend.nodes[n] \in Models) \in full
        /\ (G.backend.endpoint[n] # {}) \in connected
        /\ (G.backend.endpoint[n] = {}) \in orphaned}

\* edge_entries(kind=, executable=)
EdgeEntriesOf(G, ks, executable) ==
    {e \in G.backend.edges : Kind(e.source) \in ks /\ (e \in G.backend.exec) \in executable}

\* edge_path: the walk over consecutive hydrated versions of the kind, which
\* must have an executable edge of the discriminator between every two.
WalkAlong(versions, exec, from, to, disc) ==
    LET at(n) == Cardinality({m \in versions : Version(m) <= Version(n)})
        lo == at(from)
        hi == at(to)
        len == IF lo <= hi THEN hi - lo ELSE lo - hi
        node(i) == CHOOSE n \in versions : at(n) = IF lo <= hi THEN lo + i ELSE lo - i
        walk == [i \in 1..len |->
                   [source |-> node(i - 1), target |-> node(i), disc |-> disc]]
    IN  IF \/ Kind(from) # Kind(to)
           \/ ~{from, to} \subseteq versions
           \/ \E i \in DOMAIN walk : walk[i] \notin exec
        THEN {}
        ELSE {walk}

EdgePath(G, from, to, disc) ==
    WalkAlong(VersionsOfKind(G, Kind(from)), G.backend.exec, from, to, disc)

-----------------------------------------------------------------------------
(***************************************************************************)
(* Traversals of the backends.  Dependency-free (IndexedBackend) and over  *)
(* a native graph (NativeBackend: rustworkx, igraph) they are the same     *)
(* breadth-first search; what differs is which edges leaving a node are    *)
(* tried, and in which order.                                              *)
(***************************************************************************)
\* Every node is queued at most once, so the queue is empty after as many
\* rounds as there are nodes.
Search(start, goal, Tried(_)) ==
    LET Visit(st, e) ==
            IF st.found \/ e.target \in st.seen THEN st
            ELSE [queue |-> Append(st.queue, e.target),
                  seen  |-> st.seen \cup {e.target},
                  pred  |-> [st.pred EXCEPT ![e.target] = e],
                  found |-> e.target = goal]
        after[i \in 0..Cardinality(Nodes)] ==
            IF i = 0
            THEN [queue |-> <<start>>, seen |-> {start},
                  pred |-> [n \in Nodes |-> NoEdge], found |-> FALSE]
            ELSE LET st == after[i - 1] IN
                 IF st.found \/ st.queue = << >> THEN st
                 ELSE Seqs!FoldLeft(Visit, [st EXCEPT !.queue = Tail(@)],
                                    Tried(Head(st.queue)))
        end == after[Cardinality(Nodes)]
        back[i \in 0..Cardinality(Nodes)] ==      \* _reconstruct
            IF i = 0 THEN <<goal, << >>>>
            ELSE LET b == back[i - 1] IN
                 IF b[1] = start THEN b
                 ELSE <<end.pred[b[1]].source, <<end.pred[b[1]]>> \o b[2]>>
    IN  IF start = goal THEN {<< >>}
        ELSE IF end.found THEN {back[Cardinality(Nodes)][2]} ELSE {}

\* Mutant: the search goes on along any edge, wherever it leads to.
IndexedShortestPathAny(G, start, goal, allowed) ==
    LET Tried(n) == Sorted(G.backend.outgoing[n])
    IN  Search(start, goal, Tried)

IndexedShortestPath(G, start, goal, allowed) ==
    LET Tried(n) == Sorted(G.backend.outgoing[n] \cap allowed)
    IN  Search(start, goal, Tried)

\* A native graph has a vertex per entry: building it, and asking it about a
\* node that has none, raises KeyError.
Closed(G) == \A e \in G.backend.edges : Ends(e) \subseteq DOMAIN G.backend.nodes

\* The vertices behind a vertex, in the order of the entries.
Successors(G, n) == SortedNodes({e.target : e \in G.backend.outgoing[n]})

\* _edge_to: the first allowed edge between the two, as a sequence.
EdgeTo(G, n, m, allowed) ==
    LET es == Sorted({e \in G.backend.outgoing[n] \cap allowed : e.target = m})
    IN  IF es = << >> THEN << >> ELSE <<es[1]>>

NativeShortestPath(G, start, goal, allowed) ==
    LET Tried(n) ==
            LET ms == Successors(G, n)
            IN  Seqs!FlattenSeq([i \in DOMAIN ms |-> EdgeTo(G, n, ms[i], allowed)])
    IN  Search(start, goal, Tried)

\* topological_sort of IndexedBackend, as the set of at most one order.  An edge
\* to a node without an entry raises KeyError; one from such a node is never
\* taken off the indegree, and the sort reports a cycle.
TopologicalSort(G) ==
    LET nodes == DOMAIN G.backend.nodes
        degree == [n \in nodes |-> Cardinality(G.backend.incoming[n])]
        Relax(st, e) ==
            LET d == [st.degree EXCEPT ![e.target] = @ - 1] IN
            [st EXCEPT !.degree = d,
                       !.ready = IF d[e.target] = 0 THEN Append(@, e.target) ELSE @]
        after[i \in 0..Cardinality(Nodes)] ==
            IF i = 0
            THEN [degree |-> degree, order |-> << >>,
                  ready |-> SortedNodes({n \in nodes : degree[n] = 0})]
            ELSE LET st == after[i - 1] IN
                 IF st.ready = << >> THEN st
                 ELSE Seqs!FoldLeft(Relax,
                                    [st EXCEPT !.ready = Tail(@),
                                               !.order = Append(@, Head(st.ready))],
                                    Sorted(G.backend.outgoing[Head(st.ready)]))
        order == after[Cardinality(Nodes)].order
    IN  IF \A e \in G.backend.edges : e.target \in nodes
        THEN {o \in {order} : Len(o) = Cardinality(nodes)}
        ELSE {}
=============================================================================
