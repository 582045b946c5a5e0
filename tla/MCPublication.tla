--------------------------- MODULE MCPublication ---------------------------
(***************************************************************************)
(* Kind U with three versions, forward edges with a parallel one, a        *)
(* shortcut and a way back, and kind V with one version; two publishers.   *)
(***************************************************************************)
EXTENDS Publication, TLC

U(v) == <<"U", v>>
V1 == <<"V", 1>>

ModelTable ==
    [ u1  |-> [node |-> U(1), ref |-> "U1", fields |-> {"a"},      refs |-> {}],
      u2  |-> [node |-> U(2), ref |-> "U2", fields |-> {"a", "b"}, refs |-> {}],
      u2x |-> [node |-> U(2), ref |-> "U2", fields |-> {"b"},      refs |-> {V1}],
      u3  |-> [node |-> U(3), ref |-> "U3", fields |-> {"a"},      refs |-> {}] ]

MCModels == DOMAIN ModelTable
MCNodeOf == [m \in MCModels |-> ModelTable[m].node]
MCRefOf == [m \in MCModels |-> ModelTable[m].ref]
MCFieldsOf == [m \in MCModels |-> ModelTable[m].fields]
MCReferencesOf == [m \in MCModels |-> ModelTable[m].refs]

MCNodes == {U(1), U(2), U(3), V1}
MCKindRank == [k \in {"U", "V"} |-> IF k = "U" THEN 1 ELSE 2]
MCDiscRank == [d \in {"alt", "default"} |-> IF d = "alt" THEN 1 ELSE 2]

Edge(a, b, d) == [source |-> U(a), target |-> U(b), disc |-> d]
MCEdgeIds == { Edge(1, 2, "default"), Edge(1, 2, "alt"), Edge(2, 3, "default"),
               Edge(1, 3, "default"), Edge(3, 1, "default"), Edge(2, 1, "default") }

KeyOnly(e) == [id |-> e, source |-> "key", target |-> "key", func |-> "nofunc"]
Bound(e, a, b, f) == [id |-> e, source |-> a, target |-> b, func |-> f]

\* Key-only imports of every edge and a ready-made executable shortcut.
MCEdgeEntries ==
    {KeyOnly(e) : e \in MCEdgeIds} \cup {Bound(Edge(1, 3, "default"), "u1", "u3", "f")}

Full ==
    StoreEntry(StoreEntry(StoreEntry(EmptyRegistry, U(1), "u1"), U(2), "u2"), U(3), "u3")
Chained ==
    StoreEdge(StoreEdge(Full, Bound(Edge(1, 2, "default"), "u1", "u2", "f")),
              Bound(Edge(2, 3, "default"), "u2", "u3", "f"))
\* Edges imported before the versions they connect.
Imported ==
    StoreEdge(StoreEdge(StoreEntry(EmptyRegistry, U(1), "key"), KeyOnly(Edge(1, 2, "default"))),
              KeyOnly(Edge(2, 3, "default")))
MCSeeds == {Chained, Imported}

\* Publishers differ in nothing but their name.
Symmetry == Permutations(Publishers)
=============================================================================
