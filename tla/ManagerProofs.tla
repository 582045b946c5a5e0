---------------------------- MODULE ManagerProofs ----------------------------
(***************************************************************************)
(* A manager class and any number of instances.  Every registry is driven  *)
(* by an engine (Driven), whoever copies it when.  What a runner runs is   *)
(* not inductive by itself: the graph of a runner is old, the bindings are *)
(* live, and they agree only because the class holds every executable edge *)
(* its instances and their graphs hold, and holds it for good.             *)
(***************************************************************************)
EXTENDS Manager, RegistryOpsProofs

TypeInv ==
    /\ regs \in [Owners -> Registries]
    /\ live \in SUBSET Instances
    /\ bound \in [EdgeIds -> Callables \cup {"unbound"}]
    /\ graphs \in [Instances -> [EdgeIds -> EdgeObjects \cup {NoEdge}]]

AllDriven == \A o \in Owners : Driven(regs[o])

\* The bindings know the class's edges, and no instance or graph has others.
ClassLeads ==
    \A e \in EdgeIds :
        /\ IsExecutable(regs[Class].edges[e]) => Resolves(e) = regs[Class].edges[e].func
        /\ \A i \in live : IsExecutable(regs[i].edges[e]) => regs[i].edges[e] = regs[Class].edges[e]
        /\ \A i \in Instances : IsExecutable(graphs[i][e]) => graphs[i][e] = regs[Class].edges[e]

Inv ==
    /\ TypeInv /\ AllDriven
    /\ BindingsJustified
    /\ ~InstanceCalls /\ ~Removals => ClassLeads

\* A registration that leaves the edges of the caller's registry as they are.
LEMMA EdgesStay ==
    ASSUME Inv, NEW o \in Owners, NEW T, Driven(T), T.edges = regs[o].edges,
           regs' = [regs EXCEPT ![o] = T], UNCHANGED <<usage, live, bound, graphs>>
    PROVE  Inv'
  <1>1. T \in Registries
    BY DrivenFacts
  <1>2. /\ regs' \in [Owners -> Registries] /\ regs \in [Owners -> Registries]
        /\ regs'[o] = T /\ \A p \in Owners \ {o} : regs'[p] = regs[p]
    BY <1>1 DEF Inv, TypeInv
  <1>3. \A p \in Owners : regs'[p].edges = regs[p].edges
    BY <1>2
  <1>4. TypeInv' /\ AllDriven'
    BY <1>2 DEF Inv, TypeInv, AllDriven
  <1>5. Class \in Owners /\ live \subseteq Owners
    BY DEF Inv, TypeInv, Owners
  <1>6. BindingsJustified'
    BY <1>3, <1>5 DEF Inv, BindingsJustified
  <1>7. ClassLeads => ClassLeads'
    BY <1>3, <1>5 DEF ClassLeads, Resolves
  <1> QED BY <1>4, <1>6, <1>7 DEF Inv, InstanceCalls, Removals

\* An edge is stored, or found there as it is, and its callable bound.
LEMMA EdgeBound ==
    ASSUME Inv, NEW o \in Callers, NEW T, Driven(T), NEW e \in EdgeIds, NEW c \in Callables,
           T.edges[e].func = IdentityOf[c],
           \A f \in EdgeIds \ {e} : T.edges[f] = regs[o].edges[f],
           IsExecutable(regs[o].edges[e]) => T.edges[e] = regs[o].edges[e],
           regs' = [regs EXCEPT ![o] = T], bound' = [bound EXCEPT ![e] = c],
           UNCHANGED <<usage, live, graphs>>
    PROVE  Inv'
  <1>1. T \in Registries
    BY DrivenFacts
  <1>2. Callers \subseteq {Class} \cup live /\ {Class} \cup live \subseteq Owners
    BY DEF Inv, TypeInv, Owners, Callers
  <1>3. /\ regs' \in [Owners -> Registries] /\ regs \in [Owners -> Registries]
        /\ regs'[o] = T /\ \A p \in Owners \ {o} : regs'[p] = regs[p]
        /\ bound \in [EdgeIds -> Callables \cup {"unbound"}]
    BY <1>1, <1>2 DEF Inv, TypeInv
  <1>4. TypeInv' /\ AllDriven'
    BY <1>3 DEF Inv, TypeInv, AllDriven
  <1>5. \A p \in Owners, f \in EdgeIds \ {e} : regs'[p].edges[f] = regs[p].edges[f]
    BY <1>3
  <1>6. bound'[e] = c /\ \A f \in EdgeIds \ {e} : bound'[f] = bound[f]
    BY <1>3
  <1>7. BindingsJustified'
    <2>1. ASSUME NEW f \in EdgeIds \ {e}, bound'[f] \in Callables
          PROVE  \E p \in {Class} \cup live : regs'[p].edges[f].func = IdentityOf[bound'[f]]
      BY <1>2, <1>5, <1>6, <2>1 DEF Inv, BindingsJustified
    <2>2. regs'[o].edges[e].func = IdentityOf[bound'[e]] /\ o \in {Class} \cup live
      BY <1>2, <1>3, <1>6
    <2> QED BY <2>1, <2>2 DEF BindingsJustified
  <1>8. ASSUME ~InstanceCalls, ~Removals
        PROVE  ClassLeads'
    <2>1. o = Class /\ ClassLeads
      BY <1>8 DEF Inv, Callers
    <2>2. Class \notin live /\ live \subseteq Instances /\ Instances \subseteq Owners
      BY ManagerAssumption DEF Inv, TypeInv, Owners
    <2>3. \A i \in live : regs'[i] = regs[i]
      BY <1>2, <1>3, <2>1, <2>2
    <2>4. ASSUME NEW f \in EdgeIds
          PROVE  IsExecutable(regs'[Class].edges[f]) => Resolves(f)' = regs'[Class].edges[f].func
      <3>1. CASE f = e
        BY <1>3, <1>6, <2>1, <3>1 DEF Resolves
      <3>2. CASE f # e
        BY <1>2, <1>5, <1>6, <2>1, <3>2 DEF Resolves, ClassLeads
      <3> QED BY <3>1, <3>2
    <2>5. \A f \in EdgeIds : IsExecutable(regs[Class].edges[f]) =>
                                regs'[Class].edges[f] = regs[Class].edges[f]
      BY <1>2, <1>3, <1>5, <2>1
    <2>6. ASSUME NEW f \in EdgeIds, NEW i \in live, IsExecutable(regs'[i].edges[f])
          PROVE  regs'[i].edges[f] = regs'[Class].edges[f]
      BY <2>1, <2>3, <2>5, <2>6 DEF ClassLeads
    <2>7. ASSUME NEW f \in EdgeIds, NEW i \in Instances, IsExecutable(graphs[i][f])
          PROVE  graphs[i][f] = regs'[Class].edges[f]
      BY <2>1, <2>5, <2>7 DEF ClassLeads
    <2> QED BY <2>4, <2>6, <2>7 DEF ClassLeads
  <1> QED BY <1>4, <1>7, <1>8 DEF Inv, InstanceCalls, Removals

\* What a caller registers.
LEMMA RegistrationStep ==
    ASSUME Inv, NEW o \in Callers, Registration(o), UNCHANGED usage
    PROVE  Inv'
  <1> DEFINE S == regs[o]
  <1>1. /\ o \in Owners /\ Driven(S) /\ S \in Registries
        /\ regs \in [Owners -> Registries]
    BY DEF Inv, TypeInv, AllDriven, Owners, Callers
  <1>2. \A c \in Callables : IdentityOf[c] \in Funcs
    BY ManagerAssumption
  <1>3. ASSUME NEW m \in Models, StoreModel(o, m)
        PROVE  Inv'
    <2>1. Driven(Hydrate(S, m)) /\ Hydrate(S, m).edges = S.edges
      BY <1>1, HydrateDriven, HydrateSound DEF Driven
    <2>2. regs' = [regs EXCEPT ![o] = Hydrate(S, m)] /\ UNCHANGED <<usage, live, bound, graphs>>
      BY <1>3 DEF StoreModel
    <2> QED BY <1>1, <2>1, <2>2, EdgesStay
  <1>4. ASSUME NEW m \in Models, ReconcileModel(o, m)
        PROVE  Inv'
    <2>1. Driven(Reconcile(S, m)) /\ Reconcile(S, m).edges = S.edges
      BY <1>1, ReconcileDriven, ReconcileSound DEF Driven
    <2>2. regs' = [regs EXCEPT ![o] = Reconcile(S, m)] /\ UNCHANGED <<usage, live, bound, graphs>>
      BY <1>4 DEF ReconcileModel
    <2> QED BY <1>1, <2>1, <2>2, EdgesStay
  <1>5. ASSUME NEW n \in Nodes, StoreKey(o, n)
        PROVE  Inv'
    <2>1. Driven(StoreEntry(S, n, "key")) /\ StoreEntry(S, n, "key").edges = S.edges
      BY <1>1, <1>5, StoreEntryDriven, StoreEntrySound DEF Driven, StoreKey
    <2>2. /\ regs' = [regs EXCEPT ![o] = StoreEntry(S, n, "key")]
          /\ UNCHANGED <<usage, live, bound, graphs>>
      BY <1>5 DEF StoreKey
    <2> QED BY <1>1, <2>1, <2>2, EdgesStay
  <1>6. ASSUME NEW R, Driven(R), R.edges = S.edges, NEW e \in EdgeIds, NEW c \in Callables,
               CanStoreSpec(R, e, IdentityOf[c]),
               regs' = [regs EXCEPT ![o] = StoreEdge(R, BuildEdge(R, e, IdentityOf[c]))],
               bound' = [bound EXCEPT ![e] = c], UNCHANGED <<usage, live, graphs>>
        PROVE  Inv'
    <2> DEFINE b == BuildEdge(R, e, IdentityOf[c])
               T == StoreEdge(R, b)
    <2>1. /\ Driven(T) /\ T.edges[e] = b
          /\ T = R \/ (R.edges[e] = NoEdge /\ T.edges = [R.edges EXCEPT ![e] = b])
      BY <1>2, <1>6, StoreSpecDriven
    <2>2. b.func = IdentityOf[c]
      BY DEF BuildEdge
    <2>3. regs' = [regs EXCEPT ![o] = T]
      BY <1>6
    <2> HIDE DEF b, T
    <2>4. ~IsExecutable(NoEdge)
      BY EdgesAssumption DEF NoEdge, IsExecutable
    <2>5. /\ \A f \in EdgeIds \ {e} : T.edges[f] = S.edges[f]
          /\ IsExecutable(S.edges[e]) => T.edges[e] = S.edges[e]
      BY <1>6, <2>1, <2>4, DrivenFacts
    <2>6. T.edges[e].func = IdentityOf[c]
      BY <2>1, <2>2
    <2> QED BY <1>6, <2>1, <2>3, <2>5, <2>6, EdgeBound
  <1>7. ASSUME NEW e \in EdgeIds, NEW c \in Callables, StoreMigration(o, e, c)
        PROVE  Inv'
    BY <1>1, <1>6, <1>7 DEF StoreMigration
  <1>8. ASSUME NEW e \in EdgeIds, NEW c \in Callables, NEW m \in Models,
               StoreMigrationReflecting(o, e, c, m)
        PROVE  Inv'
    <2> DEFINE n == NodeOf[m]
               R == StoreEntry(S, n, m)
    <2>1. /\ n \in Nodes /\ CanStore(S, n)
          /\ m \in {"key"} \cup {l \in Models : NodeOf[l] = n}
      BY <1>8, ModelsAssumption DEF StoreMigrationReflecting, CanReflect
    <2>2. \/ /\ CanStoreSpec(R, e, IdentityOf[c])
             /\ regs' = [regs EXCEPT ![o] = StoreEdge(R, BuildEdge(R, e, IdentityOf[c]))]
             /\ bound' = [bound EXCEPT ![e] = c]
          \/ regs' = [regs EXCEPT ![o] = R] /\ UNCHANGED bound
      BY <1>8 DEF StoreMigrationReflecting
    <2>3. UNCHANGED <<usage, live, graphs>>
      BY <1>8 DEF StoreMigrationReflecting
    <2> HIDE DEF n
    <2>4. Driven(R) /\ R.edges = S.edges
      BY <1>1, <2>1, StoreEntryDriven, StoreEntrySound DEF Driven
    <2> HIDE DEF R
    <2>5. CASE /\ CanStoreSpec(R, e, IdentityOf[c])
               /\ regs' = [regs EXCEPT ![o] = StoreEdge(R, BuildEdge(R, e, IdentityOf[c]))]
               /\ bound' = [bound EXCEPT ![e] = c]
      BY <1>6, <2>3, <2>4, <2>5
    <2>6. CASE regs' = [regs EXCEPT ![o] = R] /\ UNCHANGED bound
      BY <1>1, <2>3, <2>4, <2>6, EdgesStay
    <2> QED BY <2>2, <2>5, <2>6
  <1>9. ASSUME NEW e \in EdgeIds, RemoveMigration(o, e)
        PROVE  Inv'
    <2> DEFINE T == IF Removable(S, e) THEN RemoveEdges(S, {e}) ELSE S
    <2>1. /\ regs' = [regs EXCEPT ![o] = T] /\ bound' = [bound EXCEPT ![e] = "unbound"]
          /\ Removals /\ UNCHANGED <<usage, live, graphs>>
      BY <1>9 DEF RemoveMigration
    <2>2. Driven(T) /\ \A f \in EdgeIds \ {e} : T.edges[f] = S.edges[f]
      <3>1. CASE ~Removable(S, e)
        BY <1>1, <3>1
      <3>2. CASE Removable(S, e)
        <4>1. /\ {e} \in SUBSET EdgeIds
              /\ \A f \in {e} : IsExecutable(S.edges[f]) /\ f \notin S.hookKeys
          BY <3>2 DEF Removable, HasExecutable, CanRemoveMigration
        <4>2. \A f \in {e} : IsStored(S.edges[f])
          BY <1>1, <4>1, DrivenFacts
        <4>3. RemoveEdges(S, {e}).edges =
                 [f \in EdgeIds |-> IF f \in {e} THEN NoEdge ELSE S.edges[f]]
          BY <1>1, <4>1, <4>2, RemoveEdgesSound DEF Driven
        <4> QED BY <1>1, <3>2, <4>1, <4>3, RemoveEdgesDriven
      <3> QED BY <3>1, <3>2
    <2> HIDE DEF T
    <2>3. T \in Registries
      BY <2>2, DrivenFacts
    <2>4. /\ regs' \in [Owners -> Registries]
          /\ regs'[o] = T /\ \A p \in Owners \ {o} : regs'[p] = regs[p]
      BY <1>1, <2>1, <2>3
    <2>5. TypeInv' /\ AllDriven'
      BY <2>1, <2>2, <2>4 DEF Inv, TypeInv, AllDriven
    <2>6. /\ bound'[e] \notin Callables
          /\ \A f \in EdgeIds \ {e} : bound'[f] = bound[f]
      BY <2>1, ManagerAssumption DEF Inv, TypeInv
    <2>7. \A p \in Owners, f \in EdgeIds \ {e} : regs'[p].edges[f] = regs[p].edges[f]
      BY <2>2, <2>4
    <2>8. {Class} \cup live \subseteq Owners
      BY DEF Inv, TypeInv, Owners
    <2>9. BindingsJustified'
      BY <2>1, <2>6, <2>7, <2>8 DEF Inv, BindingsJustified
    <2> QED BY <2>1, <2>5, <2>9 DEF Inv, Removals
  <1>10. ASSUME NEW e \in EdgeIds, NEW h \in Hooks, AddHookTo(o, e, h)
         PROVE  Inv'
    <2> DEFINE T == IF HasExecutable(S, e) THEN AddHook(S, e, h, "key") ELSE S
    <2>1. regs' = [regs EXCEPT ![o] = T] /\ UNCHANGED <<usage, live, bound, graphs>>
      BY <1>10 DEF AddHookTo
    <2>2. Driven(T) /\ T.edges = S.edges
      <3>1. CASE HasExecutable(S, e)
        <4>1. IsExecutable(S.edges[e]) /\ Sound(S)
          BY <1>1, <3>1 DEF HasExecutable, Driven
        <4> HIDE DEF S
        <4>2. AddHook(S, e, h, "key").edges = S.edges
          BY <4>1, AddHookSound DEF HooksMove
        <4> QED BY <1>1, <3>1, <4>1, <4>2, AddHookDriven
      <3> QED BY <1>1, <3>1
    <2> HIDE DEF T
    <2> QED BY <1>1, <2>1, <2>2, EdgesStay
  <1>11. ASSUME NEW h \in Hooks, AttachHook(o, h)
         PROVE  Inv'
    <2> DEFINE K == {e \in EdgeIds : HasExecutable(S, e) /\ Kind(e.source) \in S.buckets}
               T == AddHooks(S, K, h)
    <2>1. regs' = [regs EXCEPT ![o] = T] /\ UNCHANGED <<usage, live, bound, graphs>>
      BY <1>11 DEF AttachHook
    <2>2. K \in SUBSET EdgeIds /\ \A e \in K : IsExecutable(S.edges[e])
      BY DEF HasExecutable
    <2> HIDE DEF K
    <2>3. Driven(T)
      BY <1>1, <2>2, AddHooksDriven
    <2>4. HooksAdded(S, T, K, h)
      BY <1>1, <2>2, AddHooksSound DEF Driven
    <2>5. T.edges = S.edges
      BY <2>4 DEF HooksAdded
    <2> HIDE DEF T
    <2> QED BY <1>1, <2>1, <2>3, <2>5, EdgesStay
  <1> QED
    BY <1>3, <1>4, <1>5, <1>7, <1>8, <1>9, <1>10, <1>11 DEF Registration

\* Manager() copies the default engine.
LEMMA NewStep ==
    ASSUME Inv, NEW i \in Instances, New(i), UNCHANGED usage
    PROVE  Inv'
  <1>1. /\ i \notin live /\ live' = live \cup {i}
        /\ regs' = [regs EXCEPT ![i] = regs[Class]] /\ UNCHANGED <<bound, graphs>>
    BY DEF New, CopyRegistry
  <1>2. /\ regs \in [Owners -> Registries] /\ live \subseteq Instances
        /\ Class \in Owners /\ Instances \subseteq Owners /\ Class \notin Instances
    BY ManagerAssumption DEF Inv, TypeInv, Owners
  <1>3. /\ regs' \in [Owners -> Registries]
        /\ regs'[i] = regs[Class] /\ \A p \in Owners \ {i} : regs'[p] = regs[p]
    BY <1>1, <1>2
  <1>4. TypeInv' /\ AllDriven'
    BY <1>1, <1>2, <1>3 DEF Inv, TypeInv, AllDriven
  <1>5. BindingsJustified'
    BY <1>1, <1>2, <1>3 DEF Inv, BindingsJustified
  <1>6. ClassLeads => ClassLeads'
    BY <1>1, <1>2, <1>3 DEF ClassLeads, Resolves
  <1> QED BY <1>4, <1>5, <1>6 DEF Inv, InstanceCalls, Removals

\* runtime() takes a snapshot of the instance's executable edges.
LEMMA RuntimeStep ==
    ASSUME Inv, NEW i \in Instances, Runtime(i), UNCHANGED usage
    PROVE  Inv'
  <1> DEFINE G == [e \in EdgeIds |-> IF HasExecutable(regs[i], e)
                                     THEN regs[i].edges[e] ELSE NoEdge]
  <1>1. i \in live /\ graphs' = [graphs EXCEPT ![i] = G] /\ UNCHANGED <<regs, live, bound>>
    BY DEF Runtime
  <1>2. regs[i] \in Registries
    BY DEF Inv, TypeInv, Owners
  <1>3. regs[i].edges \in [EdgeIds -> EdgeObjects \cup {NoEdge}]
    BY <1>2 DEF Registries
  <1>4. G \in [EdgeIds -> EdgeObjects \cup {NoEdge}]
    BY <1>3
  <1>5. \A e \in EdgeIds : IsExecutable(G[e]) => G[e] = regs[i].edges[e] /\ IsExecutable(regs[i].edges[e])
    BY EdgesAssumption DEF HasExecutable, NoEdge, IsExecutable
  <1> HIDE DEF G
  <1>6. /\ graphs \in [Instances -> [EdgeIds -> EdgeObjects \cup {NoEdge}]]
        /\ graphs'[i] = G /\ \A j \in Instances \ {i} : graphs'[j] = graphs[j]
    BY <1>1 DEF Inv, TypeInv
  <1>7. TypeInv' /\ AllDriven' /\ BindingsJustified'
    BY <1>1, <1>4, <1>6 DEF Inv, TypeInv, AllDriven, BindingsJustified
  <1>8. ClassLeads => ClassLeads'
    BY <1>1, <1>5, <1>6 DEF ClassLeads, Resolves
  <1> QED BY <1>7, <1>8 DEF Inv, InstanceCalls, Removals

\* The inductive invariant holds from the empty registries on.
LEMMA InvHolds == Spec => []Inv
  <1>1. ASSUME Init
        PROVE  Inv
    <2>1. EmptyRegistry \in Registries /\ Driven(EmptyRegistry)
      BY EmptyDriven, DrivenFacts
    <2>2. ~IsExecutable(NoEdge)
      BY EdgesAssumption DEF NoEdge, IsExecutable
    <2>3. TypeInv /\ AllDriven
      BY <1>1, <2>1 DEF Init, TypeInv, AllDriven, NoGraph
    <2>4. BindingsJustified
      BY <1>1, ManagerAssumption DEF Init, BindingsJustified
    <2>5. ClassLeads
      <3>1. Class \in Owners
        BY DEF Owners
      <3>2. \A e \in EdgeIds : regs[Class].edges[e] = NoEdge
        BY <1>1, <3>1 DEF Init, EmptyRegistry
      <3>3. \A i \in Instances, e \in EdgeIds : graphs[i][e] = NoEdge
        BY <1>1 DEF Init, NoGraph
      <3> QED BY <1>1, <2>2, <3>2, <3>3 DEF Init, ClassLeads
    <2> QED BY <2>3, <2>4, <2>5 DEF Inv
  <1>2. ASSUME Inv, [Next]_vars
        PROVE  Inv'
    <2>1. CASE UNCHANGED vars
      BY <1>2, <2>1
      DEF vars, Inv, TypeInv, AllDriven, BindingsJustified, ClassLeads, Resolves,
          InstanceCalls, Removals
    <2>2. CASE Next
      BY <1>2, <2>2, NewStep, RuntimeStep, RegistrationStep DEF Next
    <2> QED BY <1>2, <2>1, <2>2
  <1> QED BY <1>1, <1>2, PTL DEF Spec

\* Every registry of the class and of its instances keeps its indexes exact, its
\* edges on the models it holds and its hooks on executable edges, however copies
\* and calls interleave.
THEOREM RegistriesStaySound == Spec => []RegistriesSound
  <1>1. Inv => RegistriesSound
    BY DEF Inv, AllDriven, Driven, Sound, RegistriesSound
  <1> QED BY <1>1, InvHolds, PTL

\* A callable stays bound only while some engine holds the edge with its identity.
THEOREM BindingsStayJustified == Spec => []BindingsJustified
  <1>1. Inv => BindingsJustified
    BY DEF Inv
  <1> QED BY <1>1, InvHolds, PTL

\* Where all registration happens on the class and nothing is removed, every runner
\* runs what its graph describes, however old the graph.
THEOREM ClassRunsDescribed == Spec => []ClassRunsDescribedMigration
  <1>1. ASSUME Inv
        PROVE  ClassRunsDescribedMigration
    BY <1>1 DEF Inv, ClassLeads, ClassRunsDescribedMigration, RunsDescribedMigration
  <1> QED BY <1>1, InvHolds, PTL
=============================================================================
