------------------------------ MODULE Catalog ------------------------------
(***************************************************************************)
(* What an engine's registry promises, without its indexes: a catalog of   *)
(* version nodes and the executable edges between them.  An edge connects  *)
(* models the catalog holds, is written once, and holds its endpoints in   *)
(* place for as long as it exists; hooks hold their edge in place unless   *)
(* the whole kind goes.                                                    *)
(***************************************************************************)
CONSTANTS
    Nodes,      \* node identities
    Contents,   \* what a node can hold besides "absent"
    Placeholder, \* the content without a model
    EdgeIds,    \* edge identities
    Bodies(_),  \* the bodies an edge identity can be bound to
    Unbound,    \* no body
    Joins(_, _, _)  \* Joins(e, b, n): what body b of edge e wants node n to hold

VARIABLES
    held,    \* content of every node
    bound,   \* body of every edge
    hooked   \* edges that carry hooks

cvars == <<held, bound, hooked>>

\* Edge e bound to b fits the contents h.
Fits(h, e, b) == \A n \in Nodes : Joins(e, b, n) # "any" => h[n] = Joins(e, b, n)

CInit ==
    /\ held = [n \in Nodes |-> "absent"]
    /\ bound = [e \in EdgeIds |-> Unbound]
    /\ hooked = {}

\* A node appears, or a placeholder is filled.
Put(n, c) ==
    /\ held[n] \in {"absent", Placeholder} /\ c # held[n]
    /\ held' = [held EXCEPT ![n] = c]
    /\ UNCHANGED <<bound, hooked>>

\* A node disappears; no edge needs it.
Drop(n) ==
    /\ \A e \in EdgeIds : bound[e] # Unbound => Joins(e, bound[e], n) = "any"
    /\ held' = [held EXCEPT ![n] = "absent"]
    /\ UNCHANGED <<bound, hooked>>

\* An edge is bound, possibly together with an endpoint made up for it.
Bind(e, b) ==
    /\ bound[e] = Unbound
    /\ \/ held' = held
       \/ \E n \in Nodes, c \in Contents :
             held[n] = "absent" /\ held' = [held EXCEPT ![n] = c]
    /\ Fits(held', e, b)
    /\ bound' = [bound EXCEPT ![e] = b]
    /\ UNCHANGED hooked

\* Edges without hooks are unbound.
Unbind(E) ==
    /\ E \cap hooked = {}
    /\ bound' = [e \in EdgeIds |-> IF e \in E THEN Unbound ELSE bound[e]]
    /\ UNCHANGED <<held, hooked>>

\* Nodes, the edges among them and the hooks of these go together.
Purge(N, E) ==
    /\ held' = [n \in Nodes |-> IF n \in N THEN "absent" ELSE held[n]]
    /\ bound' = [e \in EdgeIds |-> IF e \in E THEN Unbound ELSE bound[e]]
    /\ hooked' = hooked \ E
    /\ \A e \in EdgeIds, n \in N :
          bound[e] # Unbound /\ Joins(e, bound[e], n) # "any" => e \in E
    /\ \A e \in E : bound[e] # Unbound /\ \E n \in N : Joins(e, bound[e], n) # "any"

\* Hooks come and go on bound edges.
Hook(H) ==
    /\ \A e \in H : bound[e] # Unbound
    /\ hooked' = H
    /\ UNCHANGED <<held, bound>>

CNext ==
    \/ \E n \in Nodes, c \in Contents : Put(n, c)
    \/ \E n \in Nodes : Drop(n)
    \/ \E e \in EdgeIds : \E b \in Bodies(e) : Bind(e, b)
    \/ \E E \in SUBSET EdgeIds : Unbind(E)
    \/ \E N \in SUBSET Nodes, E \in SUBSET EdgeIds : Purge(N, E)
    \/ \E H \in SUBSET EdgeIds : Hook(H)

CSpec == CInit /\ [][CNext]_cvars
=============================================================================
