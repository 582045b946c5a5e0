------------------------------ MODULE Planning ------------------------------
(***************************************************************************)
(* From a payload to a path plan: ExecutionCoordinator.plan, called by     *)
(* several threads on one runner.  The graph is an immutable snapshot; what *)
(* the calls share is the plan cache (a lock around every operation, none  *)
(* around a call) and the unlocked path cache of the finder.               *)
(*                                                                         *)
(* A node is <<kind, version>>.  A document is the sequence of its         *)
(* positions in the order they are walked, each with its path and the      *)
(* identity its kind and version fields spell, or NoNode.                  *)
(***************************************************************************)
EXTENDS Integers, Sequences, FiniteSets, SequencesExt

CONSTANTS
    Callers,    \* threads that plan
    Setups      \* runners: graph, policy, cache size, requests that are made of them

NoNode == <<"none", 0>>

Wildcard == "*"

VARIABLES
    setup,   \* the runner at hand, fixed
    cache,   \* PlanCache: [key, plan] records, least recently used first
    paths,   \* PathFinder._cache: pairs of nodes to edges
    calls,   \* what each caller is doing
    uses     \* history: every key ever used, in the order of its last use

vars == <<setup, cache, paths, calls, uses>>

Plan(entries) == [status |-> "plan", entries |-> entries]

Raised(error) == [status |-> error, entries |-> << >>]

\* The elements of s at the positions in K, in the order of s.
Subsequence(s, K) ==
    LET upTo[n \in 0..Len(s)] ==
            IF n = 0 THEN << >>
            ELSE IF n \in K THEN Append(upTo[n - 1], s[n]) ELSE upTo[n - 1]
    IN  upTo[Len(s)]

-----------------------------------------------------------------------------
(* The walk over the payload. *)

Matches(g, position) == position.node \in g.models

\* The versioned mappings around a path.
Around(g, doc, path) ==
    {i \in DOMAIN doc : Matches(g, doc[i]) /\ IsStrictPrefix(doc[i].path, path)}

\* Mutant: the walk stops at a versioned mapping.
WalkOutermost(g, doc, maxDepth) ==
    Plan(Subsequence(doc, {i \in DOMAIN doc :
                              Matches(g, doc[i]) /\ Around(g, doc, doc[i].path) = {}}))

\* Every dict is checked; the depth that is limited counts versioned mappings.
WalkContainerless(g, doc, maxDepth) ==
    LET found == {i \in DOMAIN doc : Matches(g, doc[i])}
    IN  IF maxDepth >= 0 /\ \E i \in found :
              Cardinality(Around(g, doc, doc[i].path)) > maxDepth
        THEN Raised("MaxDepthExceededError")
        ELSE Plan(Subsequence(doc, found))

\* Under a source model the walk stops at a versioned mapping, and the depth
\* that is limited counts positions of any kind.
WalkGuided(g, doc, maxDepth) ==
    LET reached == {i \in DOMAIN doc : Around(g, doc, doc[i].path) = {}}
    IN  IF maxDepth >= 0 /\ \E i \in reached : Len(doc[i].path) > maxDepth
        THEN Raised("MaxDepthExceededError")
        ELSE Plan(Subsequence(doc, {i \in reached : Matches(g, doc[i])}))

\* With a source model the document walked is the validated one, unless
\* validation is off.
Extract(g, r) ==
    CASE r.source = "none" -> WalkContainerless(g, r.payload, r.maxDepth)
      [] r.source = "unknown" -> Raised("PayloadValidationError")
      [] r.source = "model" /\ g.validation = "none" ->
            WalkGuided(g, r.payload, r.maxDepth)
      [] r.source = "model" /\ g.validation # "none" /\ r.valid ->
            WalkGuided(g, r.validated, r.maxDepth)
      [] OTHER -> Raised("PayloadValidationError")

Entries(g, r) == Extract(g, r).entries

-----------------------------------------------------------------------------
(* Target policies. *)

\* The models of a kind, oldest first.
KindVersions(g, kind) ==
    LET models == {n \in g.models : n[1] = kind}
    IN  CHOOSE s \in [1..Cardinality(models) -> models] :
            \A i, j \in DOMAIN s : i < j => s[i][2] < s[j][2]

\* eq wins over the bounds; a bound of 0 is none.
InRange(spec, version) ==
    IF spec.eq # 0 THEN version = spec.eq
    ELSE /\ spec.gte # 0 => version >= spec.gte
         /\ spec.lt # 0 => version < spec.lt

\* What the resolver of one specification answers for an entry at node n: a
\* node, NoNode to leave the entry alone, or an error.  A resolver of the caller's
\* own answers whatever it decides at that moment.
Goal(g, spec, n, decision) ==
    LET versions == KindVersions(g, n[1])
        matched == {i \in DOMAIN versions : InRange(spec, versions[i][2])}
        Chosen(node) == [error |-> "none", node |-> node]
        Failed(error) == [error |-> error, node |-> NoNode]
    IN  CASE spec.form = "skip" -> Chosen(NoNode)
          [] spec.form = "latest" -> Chosen(Last(versions))
          [] spec.form = "earliest" -> Chosen(Head(versions))
          [] spec.form = "version" ->
                IF <<n[1], spec.version>> \in g.models
                THEN Chosen(<<n[1], spec.version>>) ELSE Failed("ModelNotFoundError")
          [] spec.form = "range" ->
                Chosen(IF matched = {} THEN NoNode ELSE versions[Max(matched)])
          [] spec.form = "node" ->
                IF spec.node[1] = n[1] THEN Chosen(spec.node) ELSE Failed("CatalogError")
          [] spec.form = "callable" -> Chosen(decision)

\* A mapping goes by kind, then by its wildcard; an unlisted kind is skipped.
SpecFor(target, kind) ==
    IF target.form # "dict" THEN target
    ELSE IF kind \in DOMAIN target.by THEN target.by[kind]
    ELSE IF Wildcard \in DOMAIN target.by THEN target.by[Wildcard]
    ELSE [form |-> "skip"]

Specs(target) ==
    IF target.form = "dict" THEN {target.by[k] : k \in DOMAIN target.by} ELSE {target}

\* Model classes and nodes are looked up, and version strings parsed, when the
\* policy is compiled, for listed kinds that the payload does not hold as well.
Compiles(g, target) ==
    \A s \in Specs(target) :
        s.form # "unparsable" /\ (s.form = "node" => s.node \in g.models)

Dynamic(target) == \E s \in Specs(target) : s.form = "callable"

SpecForms ==
    {"skip", "latest", "earliest", "version", "range", "node", "callable", "unparsable"}

Documents == Seq([path : Seq(STRING), node : STRING \X Nat])

\* What a runner is built with and asked.
ASSUME SetupsAssumption ==
    \A g \in Setups :
        /\ IsFiniteSet(g.models) /\ g.models \subseteq (STRING \X Nat) \ {NoNode}
        /\ g.direction \in {"any", "forward", "backward"}
        /\ {g.onDirection, g.onDepth, g.onMissing} \subseteq {"raise", "skip"}
        /\ g.depthLimit \in Int /\ g.cacheSize \in Nat \cup {-1}
        /\ \A r \in g.requests :
              /\ {r.payload, r.validated} \subseteq Documents /\ r.maxDepth \in Int
              /\ \A s \in Specs(r.target) : s.form \in SpecForms

-----------------------------------------------------------------------------
(* Paths and path policy. *)

\* Mutant: one edge is taken where it leads straight to the target.
EdgePathDirect(g, from, to) ==
    LET hop == [source |-> from, target |-> to, disc |-> g.discriminator]
    IN  IF hop \in g.executable THEN Plan(<<hop>>) ELSE Raised("MigrationPathError")

\* The walk along neighbouring versions; every hop needs an executable edge
\* with the runner's discriminator.
EdgePath(g, from, to) ==
    LET versions == KindVersions(g, from[1])
        lo == CHOOSE i \in DOMAIN versions : versions[i] = from
        hi == CHOOSE i \in DOMAIN versions : versions[i] = to
        step == IF lo < hi THEN 1 ELSE -1
        hops == [i \in 1..((hi - lo) * step) |->
                    [source |-> versions[lo + step * (i - 1)],
                     target |-> versions[lo + step * i],
                     disc |-> g.discriminator]]
    IN  IF from[1] # to[1] THEN Raised("CatalogError")
        ELSE IF {from, to} \subseteq g.models /\ Range(hops) \subseteq g.executable
        THEN Plan(hops)
        ELSE Raised("MigrationPathError")

Allows(direction, from, to) ==
    CASE direction = "any" -> TRUE
      [] direction = "forward" -> from[2] < to[2]
      [] direction = "backward" -> from[2] > to[2]

\* The strategy PolicyEngine applies to a resolved entry: "keep" when nothing is
\* wrong with it.
Verdict(g, e) ==
    IF ~Allows(g.direction, e.source, e.target) THEN g.onDirection
    ELSE IF g.depthLimit >= 0 /\ Len(e.edges) > g.depthLimit THEN g.onDepth
    ELSE IF \/ e.source # e.target /\ e.edges = << >>
            \/ ~(Range(e.edges) \subseteq g.executable)
    THEN g.onMissing
    ELSE "keep"

ApplyPolicy(g, entries) ==
    IF \E i \in DOMAIN entries : Verdict(g, entries[i]) = "raise"
    THEN Raised("CatalogError")
    ELSE Plan(Subsequence(entries, {i \in DOMAIN entries : Verdict(g, entries[i]) = "keep"}))

-----------------------------------------------------------------------------
(* The plan cache. *)

NoKey == [target |-> "none"]

\* Mutant: the entries' paths are left out of the key.
KeyOfNodes(g, r) ==
    IF r.target.form = "callable" THEN NoKey
    ELSE [target |-> r.target, source |-> r.source,
          entries |-> [i \in DOMAIN Entries(g, r) |-> Entries(g, r)[i].node]]

\* A callable opts out of caching; one inside a mapping is keyed by its repr.
KeyOf(g, r) ==
    IF r.target.form = "callable" THEN NoKey
    ELSE [target |-> r.target, source |-> r.source, entries |-> Entries(g, r)]

Slots(c, key) == {i \in DOMAIN c : c[i].key = key}

Slot(c, key) == CHOOSE i \in Slots(c, key) : TRUE

CacheGet(c, key) ==
    IF Slots(c, key) = {} THEN c
    ELSE Append(RemoveAt(c, Slot(c, key)), c[Slot(c, key)])

\* Mutant: no move_to_end, and so the place of an earlier put is kept.
CachePutInPlace(c, key, plan, size) ==
    LET entry == [key |-> key, plan |-> plan]
        stored == IF Slots(c, key) = {} THEN Append(c, entry)
                  ELSE [i \in DOMAIN c |-> IF c[i].key = key THEN entry ELSE c[i]]
    IN  IF size = 0 THEN c
        ELSE IF size > 0 /\ Len(stored) > size
        THEN SubSeq(stored, Len(stored) - size + 1, Len(stored))
        ELSE stored

\* An assignment to an existing key keeps its place, move_to_end does not.
CachePut(c, key, plan, size) ==
    LET others == IF Slots(c, key) = {} THEN c ELSE RemoveAt(c, Slot(c, key))
        stored == Append(others, [key |-> key, plan |-> plan])
    IN  IF size = 0 THEN c
        ELSE IF size > 0 /\ Len(stored) > size
        THEN SubSeq(stored, Len(stored) - size + 1, Len(stored))
        ELSE stored

-----------------------------------------------------------------------------
(* One call of plan. *)

Idle == [at |-> "idle"]

Init ==
    /\ setup \in Setups
    /\ cache = << >>
    /\ paths = << >>
    /\ calls = [c \in Callers |-> Idle]
    /\ uses = << >>

At(c, place) == calls[c].at = place

Answer(c, outcome) ==
    calls' = [calls EXCEPT ![c] = [at |-> "answered", request |-> @.request,
                                   outcome |-> outcome]]

\* A key moves to the end of the history; it is there at most once.
Used(key) ==
    LET at == {i \in DOMAIN uses : uses[i] = key}
        others == IF at = {} THEN uses ELSE RemoveAt(uses, CHOOSE i \in at : TRUE)
    IN  uses' = Append(others, key)

\* The walk is over before anything shared is touched.
Ask(c, r) ==
    /\ At(c, "idle")
    /\ LET walk == Extract(setup, r)
           call == [at |-> IF KeyOf(setup, r) = NoKey THEN "compile" ELSE "lookup",
                    request |-> r, entries |-> walk.entries, resolved |-> << >>]
       IN  calls' = [calls EXCEPT ![c] =
                        IF walk.status = "plan" THEN call
                        ELSE [at |-> "answered", request |-> r, outcome |-> walk]]
    /\ UNCHANGED <<setup, cache, paths, uses>>

LookupHit(c) ==
    /\ At(c, "lookup")
    /\ LET key == KeyOf(setup, calls[c].request) IN
          /\ \E i \in Slots(cache, key) : Answer(c, cache[i].plan)
          /\ cache' = CacheGet(cache, key)
          /\ Used(key)
    /\ UNCHANGED <<setup, paths>>

LookupMiss(c) ==
    /\ At(c, "lookup")
    /\ Slots(cache, KeyOf(setup, calls[c].request)) = {}
    /\ calls' = [calls EXCEPT ![c].at = "compile"]
    /\ UNCHANGED <<setup, cache, paths, uses>>

Compile(c) ==
    /\ At(c, "compile")
    /\ IF Compiles(setup, calls[c].request.target)
       THEN calls' = [calls EXCEPT ![c].at = "find"]
       ELSE Answer(c, Raised("CatalogError"))
    /\ UNCHANGED <<setup, cache, paths, uses>>

Resolved(entry, goal, edges) ==
    [path |-> entry.path, source |-> entry.node, target |-> goal, edges |-> edges]

\* The next entry: its target, and its path from the finder's cache or, when
\* that has none, from the graph.  An entry to be left alone stays in the list
\* until the policy is applied, so that the list shows how far the loop is.
Resolve(c, decision) ==
    /\ At(c, "find") /\ Len(calls[c].resolved) < Len(calls[c].entries)
    /\ LET entry == calls[c].entries[Len(calls[c].resolved) + 1]
           goal == Goal(setup, SpecFor(calls[c].request.target, entry.node[1]),
                        entry.node, decision)
           known == <<entry.node, goal.node>> \in DOMAIN paths
           found == IF goal.node = NoNode THEN Plan(<< >>)
                    ELSE IF known THEN Plan(paths[<<entry.node, goal.node>>])
                    ELSE EdgePath(setup, entry.node, goal.node)
       IN  IF goal.error # "none" THEN Answer(c, Raised(goal.error))
           ELSE IF found.status # "plan" THEN Answer(c, found)
           ELSE calls' = [calls EXCEPT
                   ![c].resolved = Append(@, Resolved(entry, goal.node, found.entries)),
                   ![c].at = IF known \/ goal.node = NoNode THEN "find" ELSE "record"]
    /\ UNCHANGED <<setup, cache, paths, uses>>

\* The path is stored after other threads may have run.
Record(c) ==
    /\ At(c, "record")
    /\ LET e == Last(calls[c].resolved)
           pair == <<e.source, e.target>>
       IN  paths' = [p \in DOMAIN paths \cup {pair} |->
                        IF p = pair THEN e.edges ELSE paths[p]]
    /\ calls' = [calls EXCEPT ![c].at = "find"]
    /\ UNCHANGED <<setup, cache, uses>>

Targeted(entries) ==
    Subsequence(entries, {i \in DOMAIN entries : entries[i].target # NoNode})

Apply(c) ==
    /\ At(c, "find") /\ Len(calls[c].resolved) = Len(calls[c].entries)
    /\ LET outcome == ApplyPolicy(setup, Targeted(calls[c].resolved))
       IN  IF outcome.status = "plan" /\ KeyOf(setup, calls[c].request) # NoKey
           THEN calls' = [calls EXCEPT ![c] = [at |-> "put", request |-> @.request,
                                               outcome |-> outcome]]
           ELSE Answer(c, outcome)
    /\ UNCHANGED <<setup, cache, paths, uses>>

Put(c) ==
    /\ At(c, "put")
    /\ LET key == KeyOf(setup, calls[c].request) IN
          /\ cache' = CachePut(cache, key, calls[c].outcome, setup.cacheSize)
          /\ IF setup.cacheSize = 0 THEN UNCHANGED uses ELSE Used(key)
    /\ Answer(c, calls[c].outcome)
    /\ UNCHANGED <<setup, paths>>

Return(c) ==
    /\ At(c, "answered")
    /\ calls' = [calls EXCEPT ![c] = Idle]
    /\ UNCHANGED <<setup, cache, paths, uses>>

Clear ==
    /\ cache' = << >>
    /\ uses' = << >>
    /\ UNCHANGED <<setup, paths, calls>>

Next ==
    \/ \E c \in Callers : \/ \E r \in setup.requests : Ask(c, r)
                          \/ LookupHit(c) \/ LookupMiss(c) \/ Compile(c)
                          \/ \E d \in setup.models \cup {NoNode} : Resolve(c, d)
                          \/ Record(c) \/ Apply(c) \/ Put(c) \/ Return(c)
    \/ Clear

Spec == Init /\ [][Next]_vars

-----------------------------------------------------------------------------
(* Properties. *)

\* The cache holds exactly the most recently used plans, as many as it is allowed
\* ("evicting the least recently used entry when bounded"), in the order of their
\* last use, even when two threads miss on one key and both store it.
CacheIsLeastRecentlyUsed ==
    LET kept == IF setup.cacheSize < 0 \/ Len(uses) < setup.cacheSize
                THEN Len(uses) ELSE setup.cacheSize
    IN  [i \in DOMAIN cache |-> cache[i].key]
            = SubSeq(uses, Len(uses) - kept + 1, Len(uses))

\* What planning a request gives with no cache at all.
Afresh(g, r) ==
    LET entries == Entries(g, r)
        goals == [i \in DOMAIN entries |->
                    Goal(g, SpecFor(r.target, entries[i].node[1]), entries[i].node, NoNode)]
        found == [i \in DOMAIN entries |->
                    IF goals[i].error # "none" THEN Raised(goals[i].error)
                    ELSE IF goals[i].node = NoNode THEN Plan(<< >>)
                    ELSE EdgePath(g, entries[i].node, goals[i].node)]
        failed == {i \in DOMAIN entries : found[i].status # "plan"}
    IN  IF Extract(g, r).status # "plan" THEN Extract(g, r)
        ELSE IF ~Compiles(g, r.target) THEN Raised("CatalogError")
        ELSE IF failed # {} THEN found[CHOOSE i \in failed : \A j \in failed : i <= j]
        ELSE ApplyPolicy(g, Targeted([i \in DOMAIN entries |->
                Resolved(entries[i], goals[i].node, found[i].entries)]))

\* Neither the plan cache nor the path cache changes the answer to a call, an
\* error included: "caches payload-independent graph plans".  A target policy that
\* holds a resolver of the caller's own has no fixed answer.
PlansAreCurrent ==
    \A c \in Callers :
        At(c, "answered") /\ ~Dynamic(calls[c].request.target)
            => calls[c].outcome = Afresh(setup, calls[c].request)

\* The models of n's kind strictly between two versions of it.
Between(g, m, n) ==
    {x \in g.models : /\ x[1] = m[1]
                      /\ \/ m[2] < x[2] /\ x[2] < n[2]
                         \/ n[2] < x[2] /\ x[2] < m[2]}

\* An entry of a plan that was answered starts at a mapping of that version in the
\* walked document, and its edges are executable, join up, end at the target and
\* pass every model in between once; direction and depth are as the policy wants
\* them.  Plans are cached across payloads, so this is about another document
\* than the plan was found for.
PlansFit ==
    \A c \in Callers : At(c, "answered") =>
        \A i \in DOMAIN calls[c].outcome.entries :
            LET e == calls[c].outcome.entries[i]
                stops == [k \in 1..(Len(e.edges) + 1) |->
                            IF k = 1 THEN e.source ELSE e.edges[k - 1].target]
            IN  /\ \E j \in DOMAIN Entries(setup, calls[c].request) :
                      LET x == Entries(setup, calls[c].request)[j]
                      IN  x.path = e.path /\ x.node = e.source
                /\ \A k \in DOMAIN e.edges : /\ e.edges[k] \in setup.executable
                                             /\ e.edges[k].source = stops[k]
                /\ Last(stops) = e.target
                /\ Len(stops) = Cardinality({e.source, e.target}
                                              \cup Between(setup, e.source, e.target))
                /\ Between(setup, e.source, e.target) \subseteq Range(stops)
                /\ setup.depthLimit >= 0 => Len(e.edges) <= setup.depthLimit
                /\ setup.direction = "forward" => e.source[2] < e.target[2]
                /\ setup.direction = "backward" => e.source[2] > e.target[2]

\* Without a source model nothing versioned is left behind, however deep it is
\* nested ("Discover every versioned entry in the payload"): a call that answers
\* with a plan has an entry for every registered mapping of the payload that its
\* target policy does not leave alone, unless the runner is told to skip violations.
NothingLeftBehind ==
    \A c \in Callers :
        LET r == calls[c].request
            planned == {calls[c].outcome.entries[i].path :
                            i \in DOMAIN calls[c].outcome.entries}
        IN  (/\ At(c, "answered") /\ calls[c].outcome.status = "plan"
             /\ r.source = "none" /\ ~Dynamic(r.target)
             /\ setup.onDirection = "raise" /\ setup.onDepth = "raise")
            => \A i \in DOMAIN r.payload :
                  LET n == r.payload[i].node
                  IN  n \in setup.models => \/ r.payload[i].path \in planned
                                            \/ Goal(setup, SpecFor(r.target, n[1]), n, NoNode).node = NoNode
=============================================================================
