------------------------------ MODULE MCEngine ------------------------------
(***************************************************************************)
(* A small engine: kind U with three versions and kind V with one, models  *)
(* that refer across kinds, two competing models of U@2, and enough edges  *)
(* for one of them to be critical.                                         *)
(***************************************************************************)
EXTENDS Engine

U(v) == <<"U", v>>

V1 == <<"V", 1>>

\* A node of another namespace.
W1 == <<"other:W", 1>>

\* identity, ModelRef, fields and references of each model
ModelTable ==
    [ u1  |-> [node |-> U(1), ref |-> "U1", fields |-> {"a"},      refs |-> {V1}],
      u2  |-> [node |-> U(2), ref |-> "U2", fields |-> {"a", "b"}, refs |-> {}],
      u2x |-> [node |-> U(2), ref |-> "U2", fields |-> {"b"},      refs |-> {V1, W1}],
      u3  |-> [node |-> U(3), ref |-> "U3", fields |-> {"a"},      refs |-> {U(1)}],
      v1  |-> [node |-> V1,   ref |-> "V1", fields |-> {"a"},      refs |-> {U(2)}] ]

MCModels == DOMAIN ModelTable
MCNodeOf == [m \in MCModels |-> ModelTable[m].node]
MCRefOf == [m \in MCModels |-> ModelTable[m].ref]
MCFieldsOf == [m \in MCModels |-> ModelTable[m].fields]
MCReferencesOf == [m \in MCModels |-> ModelTable[m].refs]

MCForeignNodes == {W1}
MCNodes == {U(1), U(2), U(3), V1}

Edge(v, w) == [source |-> U(v), target |-> U(w), disc |-> "default"]
MCEdgeIds == {Edge(1, 2), Edge(2, 1), Edge(2, 3), Edge(1, 3)}
=============================================================================
