----------------------------- MODULE MCRegistry -----------------------------
(***************************************************************************)
(* A small registry: kind U with three versions, kind V with one, models   *)
(* that refer to each other across kinds, two competing models of U@2.     *)
(***************************************************************************)
EXTENDS Registry

U(v) == <<"U", v>>

V1 == <<"V", 1>>

\* A node of another namespace.
W1 == <<"other:W", 1>>

\* identity, ModelRef, fields and references of each model
ModelTable ==
    [ u1  |-> [node |-> U(1), ref |-> "U1", fields |-> {"a"},      refs |-> {}],
      u2  |-> [node |-> U(2), ref |-> "U2", fields |-> {"a", "b"}, refs |-> {}],
      u2x |-> [node |-> U(2), ref |-> "U2", fields |-> {"b"},      refs |-> {V1, W1}],
      u3  |-> [node |-> U(3), ref |-> "U3", fields |-> {"a"},      refs |-> {}],
      v1  |-> [node |-> V1,   ref |-> "V1", fields |-> {"a"},      refs |-> {U(2)}] ]

MCModels == DOMAIN ModelTable
MCNodeOf == [m \in MCModels |-> ModelTable[m].node]
MCRefOf == [m \in MCModels |-> ModelTable[m].ref]
MCFieldsOf == [m \in MCModels |-> ModelTable[m].fields]
MCReferencesOf == [m \in MCModels |-> ModelTable[m].refs]

MCForeignNodes == {W1}
MCNodes == {U(1), U(2), U(3), V1}

E12 == [source |-> U(1), target |-> U(2), disc |-> "default"]
E13 == [source |-> U(1), target |-> U(3), disc |-> "default"]
MCEdgeIds == {E12, E13}

\* Key-only import with bare endpoints, and a ready-made executable edge.
MCEdgeEntries ==
    { [id |-> E12, source |-> "key", target |-> "key", func |-> "nofunc"],
      [id |-> E12, source |-> "u1", target |-> "u2x", func |-> "f"] }
=============================================================================
