------------------------------ MODULE Provider ------------------------------
(***************************************************************************)
(* The FastMCP provider (adapters/fastmcp): host components are indexed as *)
(* entrances of the graph, and every graph version of an indexed kind that *)
(* has no component of its own gets a virtual one, which converges its     *)
(* arguments to the kind's target and calls the handler found there.       *)
(*                                                                         *)
(* The phases sync and enrich are run by the provider's lifespan and may   *)
(* be run by the host's as well.  sync awaits the listing of each family   *)
(* of components, so other tasks add components while it runs; enrich does *)
(* not await.                                                              *)
(*                                                                         *)
(* A component has a family, a kind (its name), a version (0: none) and    *)
(* the policy its metadata declares.  Its schema is its version.           *)
(***************************************************************************)
EXTENDS Integers, Sequences, FiniteSets

CONSTANTS
    Families,    \* component families, in the order they are synced
    Sites        \* applications: components, models, fallback policies

ASSUME SitesAssumption ==
    \A s \in Sites :
        /\ IsFiniteSet(s.models)
        /\ \A m \in s.models \cup s.late : m = <<m[1], m[2]>> /\ m[2] \in Nat
        /\ \A c \in s.components \cup s.own : c.version \in Nat

VARIABLES
    site,       \* the application at hand, fixed
    registry,   \* the models of the registry: pairs <<kind, version>>
    server,     \* components on the server, in the order they were added
    entrances,  \* _entrances, in the order of the dict
    projected,  \* _projected
    lost,       \* keys that were projected while their component was refused
    snapshot,   \* the models of the bound runner's graph; {}: none is bound
    phase,      \* the phase under way: who runs it and the families left to sync
    life,       \* the provider's lifespan: down, entered, up or failed
    hooked      \* times hooks and server transforms were attached

providerVars == <<site, registry, server, entrances, projected, lost, snapshot, phase, life, hooked>>

NoPhase == [by |-> "nobody", left |-> << >>]

ProviderInit ==
    /\ site \in Sites
    /\ registry = site.models
    /\ server = << >> /\ entrances = << >>
    /\ projected = {} /\ lost = {} /\ snapshot = {}
    /\ phase = NoPhase /\ life = "down" /\ hooked = 0

-----------------------------------------------------------------------------
(* Policies: [form, version]; form none, latest, earliest, version or below. *)

KeyOf(c) == <<c.kind, c.version>>

VersionsFor(kind) == {m[2] : m \in {n \in registry : n[1] = kind}}

\* _resolve_target, or 0 where it raises.  A version is taken as it is written.
ResolveTarget(kind, policy) ==
    LET matched == {v \in VersionsFor(kind) :
                      policy.form = "below" => v < policy.version}
    IN  CASE policy.form = "version" -> policy.version
          [] policy.form # "version" /\ matched = {} -> 0
          [] policy.form = "earliest" -> CHOOSE v \in matched : \A w \in matched : v <= w
          [] OTHER -> CHOOSE v \in matched : \A w \in matched : w <= v

Keys == {KeyOf(entrances[i]) : i \in DOMAIN entrances}

\* The versions of a kind that have a component of their own.
HandlersOf(kind) ==
    {entrances[i].version : i \in {j \in DOMAIN entrances : entrances[j].kind = kind}}

\* The policy of an entrance: the component's, the fallback of its kind or of
\* "*", and "latest" for a component of the provider's own.
PolicyOf(c, explicit) ==
    IF c.policy.form # "none" THEN c.policy
    ELSE IF site.fallback[c.kind].form # "none" THEN site.fallback[c.kind]
    ELSE IF explicit THEN [form |-> "latest", version |-> 0]
    ELSE c.policy

\* entrance and _store: a versioned component needs a policy, the one its kind
\* already has.
Admitted(es, c, explicit) ==
    LET policy == PolicyOf(c, explicit)
    IN  /\ policy.form # "none"
        /\ \A i \in DOMAIN es : es[i].kind = c.kind => es[i].policy = policy

\* An entry of the dict is replaced where it stands.
Stored(es, c, explicit) ==
    LET e == [ kind |-> c.kind, version |-> c.version, source |-> c.family,
               policy |-> PolicyOf(c, explicit), explicit |-> explicit ]
        at == {i \in DOMAIN es : KeyOf(es[i]) = KeyOf(c)}
    IN  IF at = {} THEN Append(es, e) ELSE [i \in DOMAIN es |-> IF i \in at THEN e ELSE es[i]]

-----------------------------------------------------------------------------
(* Components. *)

Physical(c, owner) ==
    [ owner |-> owner, family |-> c.family, kind |-> c.kind, version |-> c.version,
      policy |-> c.policy, virtual |-> FALSE, target |-> 0, handler |-> c.version,
      anchored |-> FALSE ]

\* on_duplicate="error": the host's server and the provider each refuse a second
\* component of a family, kind and version, and do not know of the other's.
Free(c, owner) ==
    \A i \in DOMAIN server :
        ~(/\ server[i].owner = owner /\ server[i].family = c.family
          /\ KeyOf(server[i]) = KeyOf(c))

\* The host adds a component to the server; nothing is indexed.
HostAdd ==
    /\ \E c \in site.components :
         Free(c, "host") /\ server' = Append(server, Physical(c, "host"))
    /\ UNCHANGED <<site, registry, entrances, projected, lost, snapshot, phase, life, hooked>>

\* provider.add_tool and its siblings: the component is there before it is
\* indexed, and stays when indexing raises.
OwnAdd ==
    /\ \E c \in site.own :
         /\ Free(c, "provider")
         /\ server' = Append(server, Physical(c, "provider"))
         /\ LET indexed == c.version # 0 /\ Admitted(entrances, c, TRUE)
            IN  /\ entrances' = IF indexed THEN Stored(entrances, c, TRUE) ELSE entrances
                /\ registry' = IF indexed THEN registry \cup {KeyOf(c)} ELSE registry
    /\ UNCHANGED <<site, projected, lost, snapshot, phase, life, hooked>>

\* The application declares a model later.
Declare ==
    /\ registry' \in {registry \cup {m} : m \in site.late \ registry}
    /\ UNCHANGED <<site, server, entrances, projected, lost, snapshot, phase, life, hooked>>

-----------------------------------------------------------------------------
(* sync. *)

\* The elements of a finite set in the order of a relation on it.
InOrder(S, before) ==
    [i \in 1..Cardinality(S) |->
        CHOOSE x \in S : Cardinality({y \in S : <<y, x>> \in before}) = i - 1]

\* The entrances a component declared itself, in the order of the dict.
Explicit ==
    LET kept == {i \in DOMAIN entrances : entrances[i].explicit}
        order == InOrder(kept, {p \in kept \X kept : p[1] < p[2]})
    IN  [i \in DOMAIN order |-> entrances[order[i]]]

\* Implicit entrances are forgotten and indexed again.
StartSync(by) ==
    /\ phase = NoPhase
    /\ (by = "lifespan") <=> (life = "entered")
    /\ entrances' = Explicit
    /\ phase' = [by |-> by, left |-> Families]
    /\ UNCHANGED <<site, registry, server, projected, lost, snapshot, life, hooked>>

\* A server transform that filters the listings hides what it drops from sync.
Listed(family, c) == c.family = family /\ ~(hooked > 0 /\ KeyOf(c) \in site.hidden)

\* Mutant: components that enrich projected are indexed too.
SkippedUnlessIndexed(es, c) ==
    c.version = 0 \/ \E k \in DOMAIN es : KeyOf(es[k]) = KeyOf(c)

Skipped(es, c) ==
    \/ c.version = 0
    \/ \E k \in DOMAIN es : KeyOf(es[k]) = KeyOf(c)
    \/ KeyOf(c) \in projected

\* One turn of the loop over a listing, which goes no further once it raised.
Indexed(family, before, c) ==
    IF before.raised \/ ~Listed(family, c) \/ Skipped(before.entrances, c) THEN before
    ELSE IF Admitted(before.entrances, c, FALSE)
    THEN [ entrances |-> Stored(before.entrances, c, FALSE),
           models |-> before.models \cup {KeyOf(c)},
           raised |-> FALSE ]
    ELSE [before EXCEPT !.raised = TRUE]

\* The entrances and models after the first n components of the server.
Index(family) ==
    LET upTo[n \in 0..Len(server)] ==
            IF n = 0 THEN [entrances |-> entrances, models |-> registry, raised |-> FALSE]
            ELSE Indexed(family, upTo[n - 1], server[n])
    IN  upTo[Len(server)]

Abort == life' = IF phase.by = "lifespan" THEN "failed" ELSE life

\* One listing and its components.  What was indexed before an error stays.
SyncFamily ==
    /\ phase.left # << >>
    /\ LET indexed == Index(Head(phase.left))
       IN  /\ entrances' = indexed.entrances
           /\ registry' = indexed.models
           /\ IF indexed.raised THEN Abort /\ phase' = NoPhase
              ELSE /\ UNCHANGED life
                   /\ phase' = IF phase.by = "host" /\ Len(phase.left) = 1 THEN NoPhase
                               ELSE [phase EXCEPT !.left = Tail(@)]
    /\ UNCHANGED <<site, server, projected, lost, snapshot, hooked>>

-----------------------------------------------------------------------------
(* enrich. *)

Rank(kind) ==
    CHOOSE i \in DOMAIN entrances :
        entrances[i].kind = kind /\ \A k \in DOMAIN entrances :
            entrances[k].kind = kind => i <= k

Kinds == {entrances[i].kind : i \in DOMAIN entrances}

KindPolicy(kind) == entrances[Rank(kind)].policy

Target(kind) == ResolveTarget(kind, KindPolicy(kind))

\* Mutant: always the newest physical version.
AnchorNewest(kind, target) ==
    CHOOSE v \in HandlersOf(kind) : \A w \in HandlersOf(kind) : w <= v

\* _anchor_handler: the target's handler, or the newest there is.
Anchor(kind, target) ==
    IF target \in HandlersOf(kind) THEN target
    ELSE CHOOSE v \in HandlersOf(kind) : \A w \in HandlersOf(kind) : w <= v

\* The component of a missing version; anchored records whether its target had
\* a handler of its own.
Virtual(key) ==
    LET kind == key[1]
        target == Target(kind)
    IN  [ owner |-> "host", family |-> entrances[Rank(kind)].source,
          kind |-> kind, version |-> key[2],
          policy |-> [form |-> "none", version |-> 0],
          virtual |-> TRUE, target |-> target, handler |-> Anchor(kind, target),
          anchored |-> <<kind, target>> \in Keys ]

\* The versions virtuals yields, kind by kind and oldest first.
Missing == {m \in registry : m[1] \in Kinds /\ m \notin Keys /\ m \notin projected}

Yielded(a, b) ==
    Rank(a[1]) < Rank(b[1]) \/ (a[1] = b[1] /\ a[2] < b[2])

Materialized(keys) ==
    LET ordered == InOrder(keys, {p \in keys \X keys : Yielded(p[1], p[2])})
    IN  server \o [i \in DOMAIN ordered |-> Virtual(ordered[i])]

ToMake == IF site.virtuals THEN Missing ELSE {}

Unresolved == IF site.virtuals THEN {k \in Kinds : Target(k) = 0} ELSE {}

\* The kinds before one whose policy matches no version.
Reached(kind) == \A k \in Unresolved : Rank(kind) < Rank(k)

\* The host runs enrich when it likes, the lifespan after its sync.
MayEnrich(by) ==
    IF by = "lifespan" THEN phase = [NoPhase EXCEPT !.by = "lifespan"]
    ELSE phase = NoPhase /\ life # "entered"

\* Hooks and transforms are attached by the first enrich that gets there.
Enrich(by) ==
    /\ MayEnrich(by)
    /\ Unresolved = {} /\ \A m \in ToMake : Free(Virtual(m), "host")
    /\ server' = Materialized(ToMake)
    /\ projected' = projected \cup ToMake
    /\ hooked' = IF hooked = 0 THEN 1 ELSE hooked
    /\ phase' = NoPhase
    /\ life' = IF by = "lifespan" THEN (IF site.healthy THEN "up" ELSE "failed") ELSE life
    /\ UNCHANGED <<site, registry, entrances, lost, snapshot>>

\* A policy that matches no version, or a component the server or its factory
\* refuses: the latter was projected before, and is not tried again.
EnrichFails(by) ==
    /\ MayEnrich(by)
    /\ \/ /\ Unresolved # {}
          /\ LET made == {m \in ToMake : Reached(m[1])}
             IN  server' = Materialized(made) /\ projected' = projected \cup made
          /\ UNCHANGED lost
       \/ \E m \in ToMake :
            /\ Reached(m[1])
            /\ ~Free(Virtual(m), "host") \/ site.fragile
            /\ LET made == {w \in ToMake : Yielded(w, m)}
               IN  server' = Materialized(made) /\ projected' = projected \cup made \cup {m}
            /\ lost' = lost \cup {m}
    /\ phase' = NoPhase
    /\ life' = IF by = "lifespan" THEN "failed" ELSE life
    /\ UNCHANGED <<site, registry, entrances, snapshot, hooked>>

\* lifespan: the runner is built and bound before sync registers anything.  It
\* is entered once; a second runner is refused.
Enter ==
    /\ life = "down" /\ phase = NoPhase
    /\ life' = "entered"
    /\ snapshot' = registry
    /\ UNCHANGED <<site, registry, server, entrances, projected, lost, phase, hooked>>

ProviderNext ==
    \/ HostAdd \/ OwnAdd \/ Declare \/ SyncFamily \/ Enter
    \/ \E by \in {"host", "lifespan"} : StartSync(by) \/ Enrich(by) \/ EnrichFails(by)

ProviderSpec == ProviderInit /\ [][ProviderNext]_providerVars

\* delegate: the version the handler of a virtual component gets its arguments
\* in, or 0 where convergence raises.  A version the runner's graph does not have
\* is not converged.
Delegate(c) ==
    IF KeyOf(c) \notin snapshot THEN c.version
    ELSE IF <<c.kind, c.target>> \notin snapshot THEN 0
    ELSE c.target

-----------------------------------------------------------------------------
(* Properties. *)

Virtuals == {i \in DOMAIN server : server[i].virtual}

\* The phases are "idempotent, so a user lifespan and the provider lifespan can
\* both run": however often and in whatever order they run, whatever is added or
\* declared in between, hidden from sync by a server transform, and whichever of
\* them fails, an enrich that goes through leaves every graph version of an
\* indexed kind with a component of its own or exactly one virtual one (of a
\* version whose component was once refused none is made), never both unless the
\* component was added to the provider later; hooks and transforms are attached
\* once.
ServedOnce ==
    /\ hooked <= 1
    /\ \A i, k \in Virtuals : i # k => KeyOf(server[i]) # KeyOf(server[k])
    /\ \A i \in Virtuals : KeyOf(server[i]) \in Keys =>
          \E k \in DOMAIN server :
              /\ k > i /\ server[k].owner = "provider"
              /\ KeyOf(server[k]) = KeyOf(server[i])

AllServed ==
    \A m \in registry : m[1] \in Kinds =>
        m \in Keys \cup lost \cup {KeyOf(server[i]) : i \in Virtuals}

VersionsServedOnce ==
    [][ /\ ServedOnce'
        /\ site.virtuals /\ (Enrich("host") \/ Enrich("lifespan")) => AllServed' ]_providerVars

\* "A kind converges to one target", and "the handler always receives the target
\* shape": the entrances of a kind agree on its policy, and a virtual component
\* hands its handler the version that handler is of, provided its version and
\* target are in the bound runner's graph and the target had a handler when it
\* was made.  (Its target need no longer be the kind's: a version registered
\* later, or a policy that another component brought in while sync was indexing
\* again, does not reach it.)
HandlersGetTheirVersion ==
    /\ \A i, k \in DOMAIN entrances :
          entrances[i].kind = entrances[k].kind => entrances[i].policy = entrances[k].policy
    /\ \A i \in Virtuals :
          LET c == server[i]
          IN  /\ {KeyOf(c), <<c.kind, c.target>>} \subseteq snapshot
              /\ c.anchored
              => Delegate(c) = c.handler
=============================================================================
