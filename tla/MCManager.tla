------------------------------ MODULE MCManager ------------------------------
(* Versions of one kind, an adjacent edge and one that skips a version. *)
EXTENDS Manager

U(v) == <<"U", v>>

MCModels2 == {"u1", "u2"}
MCModels3 == {"u1", "u2", "u3"}
MCNodes2 == {U(1), U(2)}
MCNodes3 == {U(1), U(2), U(3)}
Three == [u1 |-> 1, u2 |-> 2, u3 |-> 3]
MCNodeOf == [m \in Models |-> U(Three[m])]
MCRefOf == [m \in Models |-> m]
MCFieldsOf == [m \in Models |-> {m}]
MCReferencesOf == [m \in Models |-> {}]

Edge(v, w) == [source |-> U(v), target |-> U(w), disc |-> "default"]
MCEdgeIds2 == {Edge(1, 2)}
MCEdgeIds3 == {Edge(1, 2), Edge(1, 3)}

\* Registration on the class and its instances, with removals; on the class alone,
\* with missing endpoints reflected.
MCUsages ==
    {[onMissing |-> "raise", instanceCalls |-> TRUE, removals |-> TRUE],
     [onMissing |-> "reconstruct_model", instanceCalls |-> FALSE, removals |-> FALSE]}

\* Registration on the class and its instances, nothing removed.
Registering == {[onMissing |-> "raise", instanceCalls |-> TRUE, removals |-> FALSE]}

\* f and its reloaded definition share an identity.
MCIdentityOf == [c \in Callables |-> IF c = "g" THEN "idG" ELSE "idF"]
==============================================================================
