---------------------------- MODULE MCProvider ----------------------------
(***************************************************************************)
(* Applications for TLC: one or two kinds of up to three versions.         *)
(***************************************************************************)
EXTENDS Provider

MCFamilies == <<"tool", "prompt">>

Policy1(form, version) == [form |-> form, version |-> version]

None == Policy1("none", 0)

Component(family, kind, version, policy) ==
    [family |-> family, kind |-> kind, version |-> version, policy |-> policy]

\* Tools of kind k at versions 1 and 3, and a declared version 2.
Base ==
    [ components |-> {Component("tool", "k", 1, None), Component("tool", "k", 3, None)},
      own |-> {Component("tool", "k", 2, None)},
      models |-> {<<"k", 1>>, <<"k", 2>>, <<"k", 3>>}, late |-> {},
      fallback |-> [k \in {"k", "l"} |-> Policy1("latest", 0)],
      virtuals |-> TRUE, healthy |-> TRUE, fragile |-> FALSE, hidden |-> {} ]

\* A policy of the components' own, the earliest, an unversioned tool, and a tool
\* that disagrees.
Conflict == [Base EXCEPT
    !.components = {Component("tool", "k", 1, Policy1("earliest", 0)),
                    Component("tool", "k", 0, None)},
    !.own = {Component("tool", "k", 2, Policy1("latest", 0)),
             Component("tool", "k", 3, Policy1("earliest", 0))},
    !.healthy = FALSE]

\* No policy anywhere: only the provider's own components have one.
Bare == [Base EXCEPT
    !.components = {Component("prompt", "k", 1, None)},
    !.own = {Component("tool", "k", 2, None)},
    !.fallback = [k \in {"k", "l"} |-> None]]

\* Versions registered by sync, or declared late.
Growing == [Base EXCEPT !.models = {<<"k", 1>>}, !.late = {<<"k", 2>>},
                        !.own = {Component("tool", "k", 2, None)}]

\* One name in two families and a second kind, whose policy is a range that may
\* match nothing; refused components.
Families2 == [Base EXCEPT
    !.components = {Component("tool", "k", 1, None), Component("prompt", "k", 1, None),
                    Component("prompt", "l", 2, Policy1("below", 2))},
    !.models = {<<"k", 1>>, <<"k", 2>>}, !.late = {<<"l", 1>>}]

Fragile == [Base EXCEPT !.fragile = TRUE,
    !.components = {Component("tool", "k", 3, Policy1("version", 3))}]

\* A listing transform, and no virtual versions.
Filtered == [Base EXCEPT !.hidden = {<<"k", 1>>}, !.own = {Component("tool", "k", 3, None)},
    !.components = {Component("tool", "k", 1, None)}]

Plain == [Base EXCEPT !.virtuals = FALSE]

MCSites == {Base, Conflict, Bare, Growing, Families2, Fragile, Filtered, Plain}
=============================================================================
