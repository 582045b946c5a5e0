----------------------------- MODULE MCPlanning -----------------------------
(* Two threads plan on runners that differ in graph, policy and cache. *)
EXTENDS Planning

U(v) == <<"U", v>>

P(v) == <<"P", v>>

Position(path, node) == [path |-> path, node |-> node]

\* A versioned mapping in another in a third, next to a plain value.
Nested ==
    << Position(<< >>, U(1)), Position(<<"n">>, NoNode),
       Position(<<"p">>, P(1)), Position(<<"p", "u">>, U(2)) >>

\* The same nodes at other places.
Shifted ==
    << Position(<< >>, NoNode), Position(<<"a">>, U(1)), Position(<<"b">>, P(1)),
       Position(<<"b", "u">>, U(2)), Position(<<"c">>, <<"U", 9>>) >>

Inner == << Position(<< >>, NoNode), Nested[3], Nested[4] >>

\* Another payload with the entries of Nested.
Fuller == Append(Nested, Position(<<"x">>, NoNode))

Single(n) == << Position(<< >>, n) >>

Newer == Single(U(3))

Skip == [form |-> "skip"]

Latest == [form |-> "latest"]

Earliest == [form |-> "earliest"]

At3 == [form |-> "version", version |-> 3]

NodeTarget(n) == [form |-> "node", node |-> n]

Upto(v) == [form |-> "range", eq |-> 0, gte |-> 1, lt |-> v]

Exactly(v) == [form |-> "range", eq |-> v, gte |-> 0, lt |-> 0]

Callable == [form |-> "callable"]

PerKind == [form |-> "dict", by |-> [U |-> NodeTarget(U(2)), P |-> Skip]]

Stray == [form |-> "dict", by |-> [P |-> Latest, Q |-> NodeTarget(P(9))]]

Deciding == [form |-> "dict", by |-> [P |-> Callable]]

Fallback == [form |-> "dict", by |-> ("*" :> Exactly(2))]

Asked(payload, target) ==
    [payload |-> payload, target |-> target, source |-> "none", maxDepth |-> -1,
     valid |-> TRUE, validated |-> payload]

Guided(payload, target) == [Asked(payload, target) EXCEPT !.source = "model"]

Hop(m, n) == [source |-> m, target |-> n, disc |-> "default"]

\* Every version upwards, with an edge that skips one and one of another
\* discriminator; downwards only part of the way.
Graph ==
    [models |-> {U(1), U(2), U(3), P(1), P(2)},
     executable |-> {Hop(U(1), U(2)), Hop(U(2), U(3)), Hop(U(1), U(3)), Hop(P(1), P(2)),
                     Hop(U(2), U(1)), [Hop(U(3), U(2)) EXCEPT !.disc = "other"]},
     discriminator |-> "default"]

Runner(direction, strategy, depth, size, validation, requests) ==
    [models |-> Graph.models, executable |-> Graph.executable,
     discriminator |-> Graph.discriminator,
     direction |-> direction, onDirection |-> strategy, onDepth |-> strategy,
     onMissing |-> strategy, depthLimit |-> depth, cacheSize |-> size,
     validation |-> validation, requests |-> requests]

MCSetups ==
    {Runner("any", "raise", -1, 2, "lax",
            {Asked(Nested, Latest), Asked(Fuller, Latest), Asked(Shifted, Latest),
             Asked(Inner, PerKind), [Asked(Nested, Latest) EXCEPT !.maxDepth = 1]}),
     Runner("forward", "skip", 1, 1, "none",
            {Asked(Nested, Upto(3)), Guided(Shifted, Latest), Asked(Inner, Stray),
             [Guided(Nested, Latest) EXCEPT !.source = "unknown"]}),
     Runner("backward", "raise", -1, -1, "strict",
            {[Guided(Shifted, Earliest) EXCEPT !.validated = Nested, !.maxDepth = 0],
             [Guided(Newer, Latest) EXCEPT !.valid = FALSE],
             Asked(Single(U(2)), Earliest), Asked(Nested, NodeTarget(U(1))),
             Asked(Newer, Earliest), Asked(Newer, Skip)}),
     Runner("any", "raise", 1, 0, "lax",
            {Asked(Inner, Fallback), Asked(Inner, At3), Asked(Newer, Callable),
             Asked(Newer, [form |-> "unparsable"]),
             Asked(Single(P(1)), Exactly(3)),
             Asked(Single(P(1)), Deciding)})}

Interchangeable == Permutations(Callers)

=============================================================================
