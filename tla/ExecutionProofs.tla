--------------------------- MODULE ExecutionProofs ---------------------------
(***************************************************************************)
(* Runs of execution plans, for all plans, backends, numbers of workers,   *)
(* scopes and attempts.  Everything rests on where the entries can be      *)
(* (LifeInv): only one level is at work, it is the remaining entries       *)
(* without a remaining descendant, and its results do not overlap.  On it  *)
(* stand what a run reports (ErrorInv) and how far each value is           *)
(* (ValueInv).                                                             *)
(***************************************************************************)
EXTENDS Execution, FiniteSetTheorems, WellFoundedInduction, TLAPS

Phases == {"idle", "queued", "done", "failed", "dropped"} \cup Active

TypeInv ==
    /\ config \in Configs
    /\ attempt \in Nat \ {0}
    /\ left \in SUBSET Entries
    /\ phase \in [Entries -> Phases]
    /\ step \in [Entries -> Nat]
    /\ scopes \in [Entries -> Nat]
    /\ DOMAIN outcome = Entries
    /\ current \in [Entries -> [Entries -> Value]]
    /\ data \in [Entries -> Value]
    /\ payload \in [Entries -> Value]

\* Where the entries of a run are: those of applied levels are done, those of
\* later levels have not begun, and only the level that is gathered or joined is
\* at work; scopes are open inside a step only.
LifeInv ==
    /\ \A e \in Entries \ left : phase[e] = "done"
    /\ \A e \in left : e \notin Level => phase[e] = "idle"
    /\ driver = "next" => \A e \in left : phase[e] = "idle"
    /\ driver \in {"gather", "joining"} => left # {}
    /\ driver = "ok" => left = {}
    /\ \A e \in Entries : phase[e] = "queued" => driver = "gather"
    /\ \A e \in Entries : phase[e] \in Active => driver \in {"gather", "joining"}
    /\ \A e \in Entries : scopes[e] # 0 => phase[e] \in Active

\* The failure a run is going to report: no entry of the level before it can fail
\* any more.
ErrorInv ==
    /\ driver \in {"joining", "failed"} /\ error \notin {"group", "cancelled"} =>
          \E e \in Failed :
             /\ error = outcome[e]
             /\ \A f \in Level : Position(f) < Position(e) => phase[f] = "done"
    /\ driver = "failed" => error # "cancelled"

\* The functions of the first n steps, in their order.
Counting(n) == [i \in 1..n |-> i]

\* A function that changes the mapping it is handed, in the process of the caller,
\* changes the payload a retry would start from.
Shared == InPlace /\ Mode # "process"

NoRetryInPlace == \A c \in Configs : c.inPlace /\ c.mode # "process" => c.attempts = 1

\* Only a thread refuses a coroutine, and only a scope that suppresses exceptions
\* lets the step of such an entry go on.
HoldInv ==
    \A e \in Entries :
        /\ phase[e] = "raised" /\ outcome[e] = "unsupported" => Mode = "threads"
        /\ phase[e] = "holding" => Mode = "threads" /\ (outcome[e] = "none" => Suppress)

\* How far the value of an entry is, and that everything inside it is migrated,
\* where no scope has given it up.
Progress(e) ==
    /\ phase[e] \in Active => step[e] \in 1..Steps[e]
    /\ phase[e] \in {"ready", "entering", "invoking"} =>
          \/ current[e][e] = [applied |-> Counting(step[e] - 1), version |-> step[e] - 1]
          \/ Excused(current[e][e])
    /\ phase[e] \in {"returned", "leaving"} =>
          \/ current[e][e] = [applied |-> Counting(step[e]), version |-> step[e] - 1]
          \/ Excused(current[e][e])
    /\ phase[e] = "done" => current[e][e] = Migrated(e) \/ Excused(current[e][e])
    /\ phase[e] \in Active \cup {"done"} =>
          \A d \in Entries :
             IsDescendantOf(d, e) => current[e][d] = Migrated(d) \/ Excused(current[e][d])

\* Applied levels are migrated, entries that have not begun are as they were given.
ValueInv ==
    /\ ~Shared => \A e \in Entries : payload[e] = Fresh
    /\ \A e \in Entries \ left : data[e] = Migrated(e) \/ Excused(data[e])
    /\ \A e \in left : phase[e] \in {"idle", "queued"} => data[e] = Fresh /\ step[e] = 1
    /\ \A e \in Entries : Progress(e)

-----------------------------------------------------------------------------
(* Paths and levels. *)

\* The entries are finitely many paths, each at one position of the plan.
LEMMA EntriesAreFinite ==
    /\ Entries \subseteq Seq(STRING)
    /\ IsFiniteSet(Entries)
    /\ \A e \in Entries : Position(e) \in Nat
  <1>1. Order \in Seq(Seq(STRING)) /\ Len(Order) \in Nat /\ DOMAIN Order = 1..Len(Order)
    BY ExecutionAssumption
  <1>2. Entries \subseteq Seq(STRING)
    BY <1>1 DEF Entries
  <1>3. Order \in Surjection(1..Len(Order), Entries)
    BY <1>1 DEF Entries, Surjection
  <1>4. IsFiniteSet(Entries)
    BY <1>1, <1>3, FS_NatSurjection DEF ExistsSurjection
  <1>5. ASSUME NEW e \in Entries
        PROVE  Position(e) \in Nat
    <2>1. \E i \in DOMAIN Order : Order[i] = e
      BY DEF Entries
    <2>2. Position(e) \in DOMAIN Order
      BY <2>1 DEF Position
    <2> QED BY <1>1, <2>2
  <1> QED BY <1>2, <1>4, <1>5

\* A descendant's path goes on where the other ends.
LEMMA DescendantPaths ==
    ASSUME NEW p \in Seq(STRING), NEW q \in Seq(STRING)
    PROVE  IsDescendantOf(p, q) <=>
              /\ Len(p) > Len(q)
              /\ \A i \in 1..Len(q) : p[i] = q[i]
  <1>1. Len(p) \in Nat /\ Len(q) \in Nat
    OBVIOUS
  <1>2. ASSUME Len(p) > Len(q)
        PROVE  SubSeq(p, 1, Len(q)) = q <=> \A i \in 1..Len(q) : p[i] = q[i]
    <2>1. SubSeq(p, 1, Len(q)) = [i \in 1..Len(q) |-> p[i]]
      BY <1>1, <1>2
    <2>2. q = [i \in 1..Len(q) |-> q[i]]
      OBVIOUS
    <2> QED BY <2>1, <2>2
  <1> QED BY <1>1, <1>2 DEF IsDescendantOf

\* Descent is a strict order, and the ancestors of a path form a chain.
LEMMA DescentOrder ==
    ASSUME NEW p \in Seq(STRING), NEW q \in Seq(STRING), NEW r \in Seq(STRING)
    PROVE  /\ ~IsDescendantOf(p, p)
           /\ IsDescendantOf(p, q) /\ IsDescendantOf(q, r) => IsDescendantOf(p, r)
           /\ IsDescendantOf(p, q) /\ IsDescendantOf(p, r) =>
                 q = r \/ IsDescendantOf(q, r) \/ IsDescendantOf(r, q)
  <1>1. Len(p) \in Nat /\ Len(q) \in Nat /\ Len(r) \in Nat
    OBVIOUS
  <1>2. ~IsDescendantOf(p, p)
    BY <1>1 DEF IsDescendantOf
  <1>3. ASSUME IsDescendantOf(p, q), IsDescendantOf(q, r)
        PROVE  IsDescendantOf(p, r)
    <2>1. /\ Len(p) > Len(q) /\ Len(q) > Len(r)
          /\ \A i \in 1..Len(q) : p[i] = q[i]
          /\ \A i \in 1..Len(r) : q[i] = r[i]
      BY <1>3, DescendantPaths
    <2>2. Len(p) > Len(r) /\ \A i \in 1..Len(r) : p[i] = r[i]
      BY <1>1, <2>1
    <2> QED BY <2>2, DescendantPaths
  <1>4. ASSUME IsDescendantOf(p, q), IsDescendantOf(p, r), q # r
        PROVE  IsDescendantOf(q, r) \/ IsDescendantOf(r, q)
    <2>1. /\ \A i \in 1..Len(q) : p[i] = q[i]
          /\ \A i \in 1..Len(r) : p[i] = r[i]
      BY <1>4, DescendantPaths
    <2>2. CASE Len(q) > Len(r)
      <3>1. \A i \in 1..Len(r) : q[i] = r[i]
        BY <1>1, <2>1, <2>2
      <3> QED BY <2>2, <3>1, DescendantPaths
    <2>3. CASE Len(r) > Len(q)
      <3>1. \A i \in 1..Len(q) : r[i] = q[i]
        BY <1>1, <2>1, <2>3
      <3> QED BY <2>3, <3>1, DescendantPaths
    <2>4. CASE Len(q) = Len(r)
      <3>1. \A i \in 1..Len(q) : q[i] = r[i]
        BY <2>1, <2>4
      <3>2. q = [i \in 1..Len(q) |-> q[i]] /\ r = [i \in 1..Len(r) |-> r[i]]
        OBVIOUS
      <3>3. q = r
        BY <2>4, <3>1, <3>2
      <3> QED BY <1>4, <3>3
    <2> QED BY <1>1, <2>2, <2>3, <2>4
  <1> QED BY <1>2, <1>3, <1>4

\* Some remaining entry has no remaining descendant: one with the fewest.
LEMMA LeafExists ==
    ASSUME NEW S \in SUBSET Entries, S # {}
    PROVE  \E e \in S : \A f \in S : ~IsDescendantOf(f, e)
  <1> DEFINE D(e) == {f \in S : IsDescendantOf(f, e)}
             sizes == {Cardinality(D(e)) : e \in S}
  <1>1. ASSUME NEW e \in S
        PROVE  IsFiniteSet(D(e)) /\ Cardinality(D(e)) \in Nat
    <2>1. D(e) \in SUBSET Entries
      OBVIOUS
    <2> HIDE DEF D
    <2>2. IsFiniteSet(D(e))
      BY <2>1, EntriesAreFinite, FS_Subset
    <2> QED BY <2>2, FS_CardinalityType
  <1>2. sizes \subseteq Nat /\ sizes # {}
    BY <1>1
  <1>3. PICK n \in sizes : \A m \in sizes : ~(<<m, n>> \in OpToRel(<, Nat))
    <2> HIDE DEF sizes
    <2> QED BY <1>2, NatLessThanWellFounded, WFMin
  <1>4. PICK e \in S : n = Cardinality(D(e))
    OBVIOUS
  <1>5. \A f \in S : ~(Cardinality(D(f)) < Cardinality(D(e)))
    BY <1>1, <1>3, <1>4 DEF OpToRel
  <1>6. ASSUME NEW f \in S, IsDescendantOf(f, e)
        PROVE  FALSE
    <2>1. S \subseteq Seq(STRING)
      BY EntriesAreFinite
    <2>2. D(f) \subseteq D(e)
      BY <1>6, <2>1, DescentOrder
    <2>3. f \in D(e) /\ f \notin D(f)
      BY <1>6, <2>1, DescentOrder
    <2>4. IsFiniteSet(D(e)) /\ Cardinality(D(e)) \in Nat /\ Cardinality(D(f)) \in Nat
      BY <1>1
    <2>5. ~(Cardinality(D(f)) < Cardinality(D(e)))
      BY <1>5
    <2> HIDE DEF D
    <2>6. Cardinality(D(f)) <= Cardinality(D(e)) /\ (Cardinality(D(e)) = Cardinality(D(f)) => D(e) = D(f))
      BY <2>2, <2>4, FS_Subset
    <2> QED BY <2>3, <2>4, <2>5, <2>6
  <1> QED BY <1>6

\* The level of a plan with entries left are the remaining entries without a
\* remaining descendant; the fallback to the first entry is never taken.
LEMMA LevelIs ==
    ASSUME NEW S \in SUBSET Entries, S # {}
    PROVE  Ready(S) = {e \in S : \A f \in S : ~IsDescendantOf(f, e)}
  <1>1. \A e \in S : ~IsDescendantOf(e, e)
    BY EntriesAreFinite, DescentOrder
  <1>2. {e \in S : \A f \in S \ {e} : ~IsDescendantOf(f, e)}
          = {e \in S : \A f \in S : ~IsDescendantOf(f, e)}
    BY <1>1
  <1>3. {e \in S : \A f \in S : ~IsDescendantOf(f, e)} # {}
    BY LeafExists
  <1> QED BY <1>2, <1>3 DEF Ready

-----------------------------------------------------------------------------
(* Steps of entries. *)

\* The value of an entry is worked on in its own places only.
LEMMA WorkFrame ==
    ASSUME TypeInv, NEW e \in Entries, NEW v \in Value, Work(e, v)
    PROVE  /\ current' \in [Entries -> [Entries -> Value]]
           /\ data' \in [Entries -> Value] /\ payload' \in [Entries -> Value]
           /\ current'[e][e] = v
           /\ \A f \in Entries \ {e} : current'[f] = current[f] /\ current'[e][f] = current[e][f]
           /\ \A f \in Entries \ {e} : data'[f] = data[f]
           /\ ~Shared => payload' = payload
  <1>1. current' = [current EXCEPT ![e][e] = v]
    BY DEF Work
  <1>2. data' = data \/ data' = [data EXCEPT ![e] = v]
    BY DEF Work
  <1>3. payload' = payload \/ payload' = [payload EXCEPT ![e] = v]
    BY DEF Work
  <1>4. ~Shared => payload' = payload
    BY DEF Work, Aliased, Shared
  <1>5. /\ current' \in [Entries -> [Entries -> Value]]
        /\ current'[e][e] = v
        /\ \A f \in Entries \ {e} : current'[f] = current[f] /\ current'[e][f] = current[e][f]
    BY <1>1 DEF TypeInv
  <1>6. data' \in [Entries -> Value] /\ \A f \in Entries \ {e} : data'[f] = data[f]
    BY <1>2 DEF TypeInv
  <1>7. payload' \in [Entries -> Value]
    BY <1>3 DEF TypeInv
  <1> QED BY <1>4, <1>5, <1>6, <1>7

\* What functions and stamps make of a value.
LEMMA WorkedValues ==
    ASSUME NEW v \in Value, NEW n \in Nat
    PROVE  /\ [v EXCEPT !.applied = Append(@, n)] = [applied |-> Append(v.applied, n), version |-> v.version]
           /\ [v EXCEPT !.version = n] = [applied |-> v.applied, version |-> n]
           /\ [v EXCEPT !.applied = Append(@, n)] \in Value
           /\ [v EXCEPT !.version = n] \in Value
  <1>1. v = [applied |-> v.applied, version |-> v.version] /\ v.applied \in Seq(Nat) /\ v.version \in Nat
    BY DEF Value
  <1>2. Append(v.applied, n) \in Seq(Nat)
    BY <1>1
  <1>3. [v EXCEPT !.applied = Append(@, n)] = [applied |-> Append(v.applied, n), version |-> v.version]
    <2>1. \A w : [v EXCEPT !.applied = w] = [applied |-> w, version |-> v.version]
      BY <1>1
    <2> QED BY <2>1
  <1>4. [v EXCEPT !.version = n] = [applied |-> v.applied, version |-> n]
    BY <1>1
  <1>5. [applied |-> Append(v.applied, n), version |-> v.version] \in Value
    BY <1>1, <1>2 DEF Value
  <1>6. [applied |-> v.applied, version |-> n] \in Value
    BY <1>1 DEF Value
  <1> QED BY <1>3, <1>4, <1>5, <1>6

\* What is lost of a value stays lost, and a coroutine in its place loses it.
LEMMA LostForGood ==
    ASSUME NEW v \in Value, NEW n \in Nat
    PROVE  /\ Replaced(v) \in Value /\ Lost(Replaced(v))
           /\ Lost(v) => /\ Lost([v EXCEPT !.applied = Append(@, n)])
                         /\ Lost([v EXCEPT !.version = n])
  <1>1. v.applied \in Seq(Nat) /\ 0 \in Nat
    BY DEF Value
  <1>2. ASSUME NEW m \in Nat
        PROVE  /\ [v EXCEPT !.applied = Append(@, m)].applied = Append(v.applied, m)
               /\ [v EXCEPT !.version = m].applied = v.applied
    BY WorkedValues
  <1>3. ASSUME NEW m \in Nat
        PROVE  /\ Len(v.applied) + 1 \in DOMAIN Append(v.applied, m)
               /\ Append(v.applied, m)[Len(v.applied) + 1] = m
               /\ \A i \in DOMAIN v.applied :
                     i \in DOMAIN Append(v.applied, m) /\ Append(v.applied, m)[i] = v.applied[i]
    BY <1>1
  <1>4. Replaced(v) \in Value
    BY <1>1, WorkedValues DEF Replaced
  <1>5. Replaced(v).applied = Append(v.applied, 0)
    BY <1>1, <1>2 DEF Replaced
  <1>6. Lost(Replaced(v))
    BY <1>1, <1>3, <1>5 DEF Lost
  <1>7. ASSUME Lost(v)
        PROVE  /\ Lost([v EXCEPT !.applied = Append(@, n)])
               /\ Lost([v EXCEPT !.version = n])
    <2>1. PICK i \in DOMAIN v.applied : v.applied[i] = 0
      BY <1>7 DEF Lost
    <2>2. i \in DOMAIN Append(v.applied, n) /\ Append(v.applied, n)[i] = 0
      BY <1>3, <2>1
    <2> QED BY <1>2, <2>1, <2>2 DEF Lost
  <1> QED BY <1>4, <1>6, <1>7

\* A coroutine handed on takes the place of an entry's value and of all inside it.
LEMMA HandOnFrame ==
    ASSUME TypeInv, NEW e \in Entries, HandOn(e)
    PROVE  /\ current' \in [Entries -> [Entries -> Value]]
           /\ \A f \in Entries \ {e} : current'[f] = current[f]
           /\ \A d \in Entries : d = e \/ IsDescendantOf(d, e) => Lost(current'[e][d])
  <1> DEFINE w == [d \in Entries |-> IF d = e \/ IsDescendantOf(d, e)
                                     THEN Replaced(current[e][d]) ELSE current[e][d]]
  <1>1. current' = [current EXCEPT ![e] = w]
    BY DEF HandOn
  <1>2. ASSUME NEW d \in Entries
        PROVE  /\ Replaced(current[e][d]) \in Value
               /\ Lost(Replaced(current[e][d]))
    <2>1. current[e][d] \in Value /\ 0 \in Nat
      BY DEF TypeInv
    <2> QED BY <2>1, LostForGood
  <1>3. w \in [Entries -> Value]
    BY <1>2 DEF TypeInv
  <1>4. \A d \in Entries : d = e \/ IsDescendantOf(d, e) => Lost(w[d])
    BY <1>2
  <1> HIDE DEF w
  <1>5. current'[e] = w
    BY <1>1 DEF TypeInv
  <1> QED BY <1>1, <1>3, <1>4, <1>5 DEF TypeInv

\* A step of one entry leaves the run and the other entries alone, and the entry
\* is queued or at work.
EntryMoves(e) ==
    /\ UNCHANGED <<config, driver, attempt, left, error>>
    /\ \A f \in Entries \ {e} :
          /\ phase'[f] = phase[f] /\ step'[f] = step[f] /\ scopes'[f] = scopes[f]
          /\ outcome'[f] = outcome[f] /\ current'[f] = current[f]
          /\ data'[f] = data[f]
    /\ phase[e] \in Active \cup {"queued"}
    /\ phase'[e] \in Active \cup {"done", "failed", "dropped"}
    /\ (scopes[e] # 0 => phase[e] \in Active) => (scopes'[e] # 0 => phase'[e] \in Active)
    /\ ~Shared => payload' = payload

\* What an entry does is its own affair, and keeps the types.
LEMMA EntryStepMoves ==
    ASSUME TypeInv, NEW e \in Entries, EntryStep(e)
    PROVE  TypeInv' /\ EntryMoves(e)
  <1> DEFINE Same(f) ==
          /\ phase'[f] = phase[f] /\ step'[f] = step[f] /\ scopes'[f] = scopes[f]
          /\ outcome'[f] = outcome[f] /\ current'[f] = current[f]
          /\ data'[f] = data[f]
  <1>0. config' = config
    BY DEF EntryStep
  <1>1. CASE Take(e)
    <2>1. PICK q \in {"done", "ready"} : phase' = [phase EXCEPT ![e] = q]
      BY <1>1 DEF Take, Goto
    <2>2. /\ current' = [current EXCEPT ![e] = data] /\ phase[e] = "queued"
          /\ UNCHANGED <<driver, attempt, left, step, scopes, outcome, data, payload, error>>
      BY <1>1 DEF Take
    <2>3. TypeInv'
      BY <1>0, <2>1, <2>2 DEF TypeInv, Phases, Active
    <2>4. phase'[e] = q /\ \A f \in Entries \ {e} : Same(f)
      BY <2>1, <2>2 DEF TypeInv
    <2> QED BY <1>0, <2>2, <2>3, <2>4 DEF EntryMoves, Active, Closing
  <1>2. CASE Before(e) \/ OnError(e) \/ After(e)
    <2>1. PICK q \in {"entering", "closing", "holding", "leaving"} : phase' = [phase EXCEPT ![e] = q]
      <3>1. CASE Before(e)
        BY <3>1 DEF Before, Goto
      <3>2. CASE OnError(e)
        BY <3>2 DEF OnError, Goto
      <3>3. CASE After(e)
        BY <3>3 DEF After, Goto
      <3> QED BY <1>2, <3>1, <3>2, <3>3
    <2>2. PICK x : outcome' = outcome \/ outcome' = [outcome EXCEPT ![e] = x]
      BY <1>2 DEF Before, OnError, After
    <2>3. /\ phase[e] \in {"ready", "raised", "returned"}
          /\ UNCHANGED <<driver, attempt, left, step, scopes, current, data, payload, error>>
      BY <1>2 DEF Before, OnError, After
    <2>4. TypeInv'
      BY <1>0, <2>1, <2>2, <2>3 DEF TypeInv, Phases, Active, Closing
    <2>5. phase'[e] = q /\ \A f \in Entries \ {e} : Same(f)
      BY <2>1, <2>2, <2>3 DEF TypeInv
    <2> QED BY <1>0, <2>3, <2>4, <2>5 DEF EntryMoves, Active, Closing
  <1>3. CASE Enter(e)
    <2>1. PICK q \in {"entering", "invoking", "closing"} : phase' = [phase EXCEPT ![e] = q]
      <3>1. phase' = phase \/ Goto(e, "invoking") \/ Goto(e, "closing")
        BY <1>3 DEF Enter
      <3>2. phase[e] = "entering"
        BY <1>3 DEF Enter
      <3>3. CASE phase' = phase
        BY <3>2, <3>3 DEF TypeInv
      <3> QED BY <3>1, <3>3 DEF Goto
    <2>2. scopes' = scopes \/ scopes' = [scopes EXCEPT ![e] = @ + 1]
      BY <1>3 DEF Enter
    <2>3. PICK x : outcome' = outcome \/ outcome' = [outcome EXCEPT ![e] = x]
      BY <1>3 DEF Enter
    <2>4. /\ phase[e] = "entering"
          /\ UNCHANGED <<driver, attempt, left, step, current, data, payload, error>>
      BY <1>3 DEF Enter
    <2>5. TypeInv'
      BY <1>0, <2>1, <2>2, <2>3, <2>4 DEF TypeInv, Phases, Active, Closing
    <2>6. phase'[e] = q /\ \A f \in Entries \ {e} : Same(f)
      BY <2>1, <2>2, <2>3, <2>4 DEF TypeInv
    <2> QED BY <1>0, <2>4, <2>5, <2>6 DEF EntryMoves, Active, Closing
  <1>4. CASE Invoke(e)
    <2>1. PICK q \in {"returned", "raised"} : phase' = [phase EXCEPT ![e] = q]
      BY <1>4 DEF Invoke, Goto
    <2>2. PICK x : outcome' = outcome \/ outcome' = [outcome EXCEPT ![e] = x]
      BY <1>4 DEF Invoke
    <2>3. /\ phase[e] = "invoking"
          /\ UNCHANGED <<driver, attempt, left, step, scopes, error>>
      BY <1>4 DEF Invoke
    <2>4. /\ current' \in [Entries -> [Entries -> Value]]
          /\ data' \in [Entries -> Value] /\ payload' \in [Entries -> Value]
          /\ \A f \in Entries \ {e} : current'[f] = current[f] /\ data'[f] = data[f]
          /\ ~Shared => payload' = payload
      <3> DEFINE v == [current[e][e] EXCEPT !.applied = Append(@, step[e])]
      <3>1. v \in Value
        <4>1. current[e][e] \in Value /\ step[e] \in Nat
          BY DEF TypeInv
        <4> QED BY <4>1, WorkedValues
      <3>2. Work(e, v) \/ UNCHANGED <<current, data, payload>>
        BY <1>4 DEF Invoke
      <3> HIDE DEF v
      <3>3. CASE Work(e, v)
        BY <3>1, <3>3, WorkFrame
      <3>4. CASE UNCHANGED <<current, data, payload>>
        BY <3>4 DEF TypeInv
      <3> QED BY <3>2, <3>3, <3>4
    <2>5. TypeInv'
      BY <1>0, <2>1, <2>2, <2>3, <2>4 DEF TypeInv, Phases, Active, Closing
    <2>6. phase'[e] = q /\ \A f \in Entries \ {e} : Same(f)
      BY <2>1, <2>2, <2>3, <2>4 DEF TypeInv
    <2> QED BY <1>0, <2>3, <2>4, <2>5, <2>6 DEF EntryMoves, Active, Closing
  <1>5. CASE Exit(e)
    <2>1. PICK x : outcome' = [outcome EXCEPT ![e] = x]
      BY <1>5 DEF Exit
    <2>2. /\ phase[e] \in Closing /\ scopes[e] > 0 /\ scopes' = [scopes EXCEPT ![e] = @ - 1]
          /\ UNCHANGED <<driver, attempt, left, phase, step, current, data, payload, error>>
      BY <1>5 DEF Exit
    <2>3. TypeInv'
      BY <1>0, <2>1, <2>2 DEF TypeInv
    <2>4. \A f \in Entries \ {e} : Same(f)
      BY <2>1, <2>2 DEF TypeInv
    <2> QED BY <1>0, <2>2, <2>3, <2>4 DEF EntryMoves, Active
  <1>6. CASE EndStep(e)
    <2>1. PICK q \in {"ready", "done"} : phase' = [phase EXCEPT ![e] = q]
      BY <1>6 DEF EndStep, Advance, Goto
    <2>2. step' = step \/ step' = [step EXCEPT ![e] = @ + 1]
      BY <1>6 DEF EndStep, Advance
    <2>3. /\ phase[e] = "leaving" /\ scopes[e] = 0
          /\ UNCHANGED <<driver, attempt, left, scopes, outcome, error>>
      BY <1>6 DEF EndStep
    <2>4. /\ current' \in [Entries -> [Entries -> Value]]
          /\ data' \in [Entries -> Value] /\ payload' \in [Entries -> Value]
          /\ \A f \in Entries \ {e} : current'[f] = current[f] /\ data'[f] = data[f]
          /\ ~Shared => payload' = payload
      <3> DEFINE v == [current[e][e] EXCEPT !.version = step[e]]
      <3>1. v \in Value
        <4>1. current[e][e] \in Value /\ step[e] \in Nat
          BY DEF TypeInv
        <4> QED BY <4>1, WorkedValues
      <3>2. Work(e, v)
        BY <1>6 DEF EndStep
      <3> HIDE DEF v
      <3> QED BY <3>1, <3>2, WorkFrame
    <2>5. TypeInv'
      <3>1. step' \in [Entries -> Nat]
        BY <2>2 DEF TypeInv
      <3>2. phase' \in [Entries -> Phases]
        BY <2>1 DEF TypeInv, Phases, Active, Closing
      <3> QED BY <1>0, <2>3, <2>4, <3>1, <3>2 DEF TypeInv
    <2>6. phase'[e] = q /\ \A f \in Entries \ {e} : Same(f)
      BY <2>1, <2>2, <2>3, <2>4 DEF TypeInv
    <2> QED BY <1>0, <2>3, <2>4, <2>5, <2>6 DEF EntryMoves, Active, Closing
  <1>7. CASE Raise(e)
    <2>1. phase' = [phase EXCEPT ![e] = "failed"]
      BY <1>7 DEF Raise, Goto
    <2>2. PICK x : outcome' = [outcome EXCEPT ![e] = x]
      BY <1>7 DEF Raise
    <2>3. /\ phase[e] \in Closing /\ scopes[e] = 0
          /\ UNCHANGED <<driver, attempt, left, step, scopes, current, data, payload, error>>
      BY <1>7 DEF Raise
    <2>4. TypeInv'
      BY <1>0, <2>1, <2>2, <2>3 DEF TypeInv, Phases
    <2>5. phase'[e] = "failed" /\ \A f \in Entries \ {e} : Same(f)
      BY <2>1, <2>2, <2>3 DEF TypeInv
    <2> QED BY <1>0, <2>3, <2>4, <2>5 DEF EntryMoves, Active
  <1>8. CASE Interrupt(e)
    <2>1. UNCHANGED <<driver, attempt, left, step, current, data, payload, error>>
      BY <1>8 DEF Interrupt
    <2>2. CASE /\ phase[e] = "queued" /\ Goto(e, "dropped")
               /\ UNCHANGED <<scopes, outcome>>
      <3>1. phase'[e] = "dropped" /\ \A f \in Entries \ {e} : Same(f)
        BY <2>1, <2>2 DEF TypeInv, Goto
      <3>2. TypeInv'
        BY <1>0, <2>1, <2>2 DEF TypeInv, Phases, Goto
      <3> QED BY <1>0, <2>1, <2>2, <3>1, <3>2 DEF EntryMoves, Active, Closing
    <2>3. CASE /\ phase[e] \in {"entering", "invoking", "raised", "returned"}
               /\ Goto(e, IF phase[e] = "returned" THEN "leaving" ELSE "closing")
               /\ outcome' = [outcome EXCEPT ![e] = "cancelled"]
               /\ UNCHANGED scopes
      <3>0. PICK q \in {"leaving", "closing"} : phase' = [phase EXCEPT ![e] = q]
        BY <2>3 DEF Goto
      <3>1. phase'[e] = q /\ \A f \in Entries \ {e} : Same(f)
        BY <2>1, <2>3, <3>0 DEF TypeInv
      <3>2. TypeInv'
        BY <1>0, <2>1, <2>3, <3>0 DEF TypeInv, Phases, Active, Closing
      <3> QED BY <1>0, <2>1, <2>3, <3>1, <3>2 DEF EntryMoves, Active, Closing
    <2>4. CASE /\ phase[e] \in Closing /\ scopes[e] > 0
               /\ scopes' = [scopes EXCEPT ![e] = @ - 1]
               /\ outcome' = [outcome EXCEPT ![e] = "cancelled"]
               /\ UNCHANGED phase
      <3>1. \A f \in Entries \ {e} : Same(f)
        BY <2>1, <2>4 DEF TypeInv
      <3>2. TypeInv'
        BY <1>0, <2>1, <2>4 DEF TypeInv
      <3> QED BY <1>0, <2>1, <2>4, <3>1, <3>2 DEF EntryMoves, Active
    <2> QED BY <1>8, <2>2, <2>3, <2>4 DEF Interrupt
  <1>9. CASE HandOn(e)
    <2>1. PICK q \in {"ready", "done"} : phase' = [phase EXCEPT ![e] = q]
      BY <1>9 DEF HandOn, Advance, Goto
    <2>2. step' = step \/ step' = [step EXCEPT ![e] = @ + 1]
      BY <1>9 DEF HandOn, Advance
    <2>3. /\ phase[e] = "holding" /\ scopes[e] = 0
          /\ UNCHANGED <<driver, attempt, left, scopes, outcome, data, payload, error>>
      BY <1>9 DEF HandOn
    <2>4. /\ current' \in [Entries -> [Entries -> Value]]
          /\ \A f \in Entries \ {e} : current'[f] = current[f]
      BY <1>9, HandOnFrame
    <2>5. TypeInv'
      <3>1. step' \in [Entries -> Nat]
        BY <2>2 DEF TypeInv
      <3>2. phase' \in [Entries -> Phases]
        BY <2>1 DEF TypeInv, Phases, Active, Closing
      <3> QED BY <1>0, <2>3, <2>4, <3>1, <3>2 DEF TypeInv
    <2>6. phase'[e] = q /\ \A f \in Entries \ {e} : Same(f)
      BY <2>1, <2>2, <2>3, <2>4 DEF TypeInv
    <2> QED BY <1>0, <2>3, <2>4, <2>5, <2>6 DEF EntryMoves, Active, Closing
  <1> QED
    BY <1>1, <1>2, <1>3, <1>4, <1>5, <1>6, <1>7, <1>8, <1>9 DEF EntryStep

-----------------------------------------------------------------------------
(* The loop over the levels. *)

\* The results of a level do not overlap: an entry is in one of them at most.
LEMMA OneHolder ==
    ASSUME left \in SUBSET Entries, left # {}, NEW d \in Entries
    PROVE  /\ Level \subseteq left
           /\ \A e \in Level : \A f \in left : ~IsDescendantOf(f, e)
           /\ \A e \in Holders(d) : e \in Level /\ Holders(d) = {e} /\ Last(Holders(d)) = e
           /\ d \in Level => d \in Holders(d)
           /\ d \in left /\ d \notin Level => Holders(d) = {}
           /\ d \notin left => \A e \in Holders(d) : IsDescendantOf(d, e)
  <1>1. Level = {e \in left : \A f \in left : ~IsDescendantOf(f, e)}
    BY LevelIs DEF Level
  <1>2. Level \subseteq Entries /\ Entries \subseteq Seq(STRING)
    BY <1>1, EntriesAreFinite
  <1>3. ASSUME NEW e \in Holders(d)
        PROVE  e \in Level /\ Holders(d) = {e} /\ Last(Holders(d)) = e
    <2>1. e \in Level /\ (e = d \/ IsDescendantOf(d, e))
      BY DEF Holders
    <2>2. ASSUME NEW f \in Holders(d)
          PROVE  f = e
      <3>1. f \in Level /\ (f = d \/ IsDescendantOf(d, f))
        BY DEF Holders
      <3>2. ~IsDescendantOf(e, f) /\ ~IsDescendantOf(f, e)
        BY <1>1, <2>1, <3>1
      <3>3. CASE IsDescendantOf(d, e) /\ IsDescendantOf(d, f)
        BY <1>2, <2>1, <3>1, <3>2, <3>3, DescentOrder
      <3> QED BY <2>1, <3>1, <3>2, <3>3
    <2>3. Holders(d) = {e}
      BY <2>2
    <2>4. Position(e) \in Nat
      BY <1>2, <2>1, EntriesAreFinite
    <2>5. Last({e}) = e
      BY <2>4 DEF Last
    <2> QED BY <2>1, <2>3, <2>5
  <1>4. d \in left /\ d \notin Level => Holders(d) = {}
    BY <1>1 DEF Holders
  <1>5. d \notin left => \A e \in Holders(d) : IsDescendantOf(d, e)
    BY <1>1 DEF Holders
  <1>6. d \in Level => d \in Holders(d)
    BY DEF Holders
  <1> QED BY <1>1, <1>3, <1>4, <1>5, <1>6

\* Entries change their phase together when a level is submitted, abandoned or
\* a new attempt begins.
LEMMA LoopType ==
    ASSUME TypeInv, LifeInv, Loop
    PROVE  TypeInv'
  <1>0. config' = config
    BY DEF Loop
  <1>1. CASE Submit
    <2>1. phase' \in [Entries -> Phases]
      BY <1>1 DEF Submit, TypeInv, Phases
    <2> QED BY <1>0, <1>1, <2>1 DEF Submit, TypeInv
  <1>2. CASE Apply
    <2>1. left' \in SUBSET Entries
      BY <1>2 DEF Apply, TypeInv
    <2>2. left \in SUBSET Entries /\ left # {}
      BY <1>2 DEF Apply, TypeInv, LifeInv
    <2>3. ASSUME NEW d \in Entries
          PROVE  (IF Holders(d) = {} THEN data[d] ELSE current[Last(Holders(d))][d]) \in Value
      <3>1. CASE Holders(d) = {}
        BY <3>1 DEF TypeInv
      <3>2. CASE Holders(d) # {}
        <4>1. PICK e \in Holders(d) : TRUE
          BY <3>2
        <4>2. Last(Holders(d)) = e /\ e \in Entries
          BY <2>2, OneHolder
        <4> QED BY <3>2, <4>2 DEF TypeInv
      <3> QED BY <3>1, <3>2
    <2>4. data' \in [Entries -> Value]
      BY <1>2, <2>3 DEF Apply
    <2> QED BY <1>0, <1>2, <2>1, <2>4 DEF Apply, TypeInv
  <1>3. CASE Notice
    <2>1. phase' \in [Entries -> Phases]
      BY <1>3 DEF Notice, Drop, TypeInv, Phases
    <2> QED BY <1>0, <1>3, <2>1 DEF Notice, TypeInv
  <1>4. CASE NoticeGroup
    BY <1>0, <1>4 DEF NoticeGroup, TypeInv
  <1>5. CASE Join
    <2>1. UNCHANGED <<scopes, current, payload>>
      BY <1>5 DEF Join
    <2>2. CASE UNCHANGED <<attempt, left, phase, step, outcome, data>>
      BY <1>0, <2>1, <2>2 DEF TypeInv
    <2>3. CASE /\ attempt' = attempt + 1 /\ left' = Entries
               /\ phase' = [e \in Entries |-> "idle"] /\ step' = [e \in Entries |-> 1]
               /\ outcome' = [e \in Entries |-> "none"] /\ data' = payload
      BY <1>0, <2>1, <2>3 DEF TypeInv, Phases
    <2> QED BY <1>5, <2>2, <2>3 DEF Join
  <1>6. CASE Finish
    BY <1>0, <1>6 DEF Finish, TypeInv
  <1> QED BY <1>1, <1>2, <1>3, <1>4, <1>5, <1>6 DEF Loop

\* Types are kept by every step.
LEMMA TypeStep ==
    ASSUME TypeInv, LifeInv, [Next]_vars
    PROVE  TypeInv'
  <1>1. CASE UNCHANGED vars
    BY <1>1 DEF vars, TypeInv
  <1>2. CASE CancelRun
    BY <1>2 DEF CancelRun, TypeInv
  <1> QED BY <1>1, <1>2, LoopType, EntryStepMoves DEF Next, Done

\* Only the level at work moves, and it is left behind when it has ended.
LEMMA LifeStep ==
    ASSUME TypeInv, LifeInv, [Next]_vars
    PROVE  LifeInv'
  <1>1. CASE UNCHANGED <<driver, left, phase, scopes>>
    BY <1>1 DEF LifeInv, Level
  <1>2. ASSUME NEW e \in Entries, EntryStep(e)
        PROVE  LifeInv'
    <2>1. EntryMoves(e)
      BY <1>2, EntryStepMoves
    <2>2. /\ driver' = driver /\ left' = left
          /\ \A f \in Entries \ {e} : phase'[f] = phase[f] /\ scopes'[f] = scopes[f]
          /\ phase[e] \in Active \cup {"queued"}
          /\ phase'[e] \in Active \cup {"done", "failed", "dropped"}
          /\ scopes'[e] # 0 => phase'[e] \in Active
      BY <2>1 DEF EntryMoves, LifeInv
    <2>3. Level' = Level
      BY <2>2 DEF Level
    <2>4. e \in left /\ e \in Level /\ driver \in {"gather", "joining"}
      BY <2>2 DEF LifeInv, Active, Closing, TypeInv
    <2>5. left \subseteq Entries
      BY DEF TypeInv
    <2>6. "queued" \notin Active
      BY DEF Active, Closing
    <2> QED BY <2>2, <2>3, <2>4, <2>5, <2>6 DEF LifeInv
  <1>3. CASE Submit
    <2>1. /\ driver = "next" /\ left # {} /\ left' = left /\ driver' = "gather" /\ scopes' = scopes
          /\ phase' = [e \in Entries |-> IF e \in Level THEN "queued" ELSE phase[e]]
      BY <1>3 DEF Submit
    <2>2. left \in SUBSET Entries
      BY DEF TypeInv
    <2>3. Level \subseteq left
      BY <2>1, <2>2, OneHolder
    <2>4. Level' = Level
      BY <2>1 DEF Level
    <2>5. \A e \in Entries : phase[e] \notin Active /\ scopes[e] = 0
      BY <2>1 DEF LifeInv, TypeInv
    <2>6. "queued" \notin Active
      BY DEF Active, Closing
    <2> QED BY <2>1, <2>2, <2>3, <2>4, <2>5, <2>6 DEF LifeInv
  <1>4. CASE Apply
    <2>1. /\ driver = "gather" /\ driver' = "next" /\ left' = left \ Level
          /\ \A e \in Level : phase[e] = "done"
          /\ UNCHANGED <<phase, scopes>>
      BY <1>4 DEF Apply
    <2>2. left \in SUBSET Entries
      BY DEF TypeInv
    <2>3. /\ \A e \in Entries \ left' : phase[e] = "done"
          /\ \A e \in left' : phase[e] = "idle"
      BY <2>1, <2>2 DEF LifeInv
    <2>4. \A e \in Entries : phase[e] \in {"idle", "done"}
      BY <2>3
    <2>5. {"idle", "done"} \cap (Active \cup {"queued"}) = {}
      BY DEF Active, Closing
    <2>6. left' \subseteq Entries
      BY <2>1, <2>2
    <2> QED BY <2>1, <2>3, <2>4, <2>5, <2>6 DEF LifeInv
  <1>5. CASE Notice
    <2>1. /\ driver = "gather" /\ driver' = "joining" /\ left' = left /\ scopes' = scopes
          /\ phase' = [e \in Entries |-> IF phase[e] = "queued" THEN "dropped" ELSE phase[e]]
      BY <1>5 DEF Notice, Drop
    <2>2. Level' = Level /\ left \subseteq Entries
      BY <2>1 DEF Level, TypeInv
    <2>3. {"queued", "dropped"} \cap Active = {}
      BY DEF Active, Closing
    <2> QED BY <2>1, <2>2, <2>3 DEF LifeInv
  <1>6. CASE NoticeGroup
    <2>1. /\ driver = "gather" /\ driver' = "joining" /\ UNCHANGED <<left, scopes, phase>>
          /\ \A e \in Level : phase[e] \in {"done", "failed", "dropped"}
      BY <1>6 DEF NoticeGroup, Settled
    <2>2. Level' = Level
      BY <2>1 DEF Level
    <2>3. \A e \in Entries : phase[e] # "queued"
      BY <2>1 DEF LifeInv
    <2> QED BY <2>1, <2>2, <2>3 DEF LifeInv
  <1>7. CASE Join
    <2>1. driver = "joining" /\ (\A e \in Entries : phase[e] \notin Active) /\ scopes' = scopes
      BY <1>7 DEF Join, Running
    <2>2. \A e \in Entries : scopes[e] = 0 /\ phase[e] # "queued"
      BY <2>1 DEF LifeInv, TypeInv
    <2>3. CASE driver' = "next" /\ left' = Entries /\ phase' = [e \in Entries |-> "idle"]
      <3>1. "idle" \notin Active
        BY DEF Active, Closing
      <3> QED BY <2>1, <2>2, <2>3, <3>1 DEF LifeInv
    <2>4. CASE driver' \in {"cancelled", "failed"} /\ UNCHANGED <<left, phase>>
      <3>1. Level' = Level
        BY <2>4 DEF Level
      <3> QED BY <2>1, <2>2, <2>4, <3>1 DEF LifeInv
    <2> QED BY <1>7, <2>3, <2>4 DEF Join
  <1>8. CASE Finish
    <2>1. driver = "next" /\ left = {} /\ driver' = "ok" /\ UNCHANGED <<left, phase, scopes>>
      BY <1>8 DEF Finish
    <2>2. Level' = Level
      BY <2>1 DEF Level
    <2> QED BY <2>1, <2>2 DEF LifeInv
  <1> QED
    BY <1>1, <1>2, <1>3, <1>4, <1>5, <1>6, <1>7, <1>8
    DEF Next, Loop, CancelRun, Done, vars

\* The levels are worked on one after the other from the start of the run.
LEMMA LifeHolds == Spec => [](TypeInv /\ LifeInv)
  <1>1. Init => TypeInv /\ LifeInv
    <2> SUFFICES ASSUME Init
                 PROVE  TypeInv /\ LifeInv
      OBVIOUS
    <2>1. Fresh \in Value
      BY DEF Fresh, Value
    <2>2. TypeInv
      BY <2>1 DEF Init, TypeInv, Phases
    <2>3. "idle" \notin Active
      BY DEF Active, Closing
    <2> QED BY <2>2, <2>3 DEF Init, LifeInv
  <1>2. TypeInv /\ LifeInv /\ [Next]_vars => (TypeInv /\ LifeInv)'
    BY TypeStep, LifeStep
  <1> QED BY <1>1, <1>2, PTL DEF Spec

\* When execute has returned or raised, nothing of it runs or waits to run, and
\* every scope a hook entered has been left, whatever failed or was cancelled at
\* whatever moment: for all plans, backends and numbers of workers.
THEOREM RunsEndClean == Spec => []NothingOutlivesRun
  <1>1. TypeInv /\ LifeInv => NothingOutlivesRun
    BY DEF LifeInv, NothingOutlivesRun, Ended, Running, Queued
  <1> QED BY <1>1, LifeHolds, PTL

-----------------------------------------------------------------------------
(* The error of a run. *)

\* Once the loop has met a failure, the entries before it are done for good.
LEMMA ErrorStep ==
    ASSUME TypeInv, LifeInv, ErrorInv, [Next]_vars
    PROVE  ErrorInv'
  <1>1. CASE UNCHANGED <<driver, error, left, phase, outcome>>
    BY <1>1 DEF ErrorInv, Level, Failed
  <1>2. ASSUME NEW e \in Entries, EntryStep(e)
        PROVE  ErrorInv'
    <2>1. EntryMoves(e)
      BY <1>2, EntryStepMoves
    <2>2. /\ driver' = driver /\ left' = left /\ error' = error
          /\ \A f \in Entries \ {e} : phase'[f] = phase[f] /\ outcome'[f] = outcome[f]
          /\ phase[e] \in Active \cup {"queued"}
      BY <2>1 DEF EntryMoves
    <2>3. driver \in {"gather", "joining"} /\ phase[e] \notin {"done", "failed"}
      BY <2>2 DEF LifeInv, Active, Closing
    <2>4. Level' = Level
      BY <2>2 DEF Level
    <2>5. CASE driver = "joining" /\ error \notin {"group", "cancelled"}
      <3>1. left \in SUBSET Entries /\ left # {}
        BY <2>5 DEF TypeInv, LifeInv
      <3>2. Level \subseteq Entries
        BY <3>1, OneHolder
      <3>3. PICK g \in Failed :
               /\ error = outcome[g]
               /\ \A f \in Level : Position(f) < Position(g) => phase[f] = "done"
        BY <2>5 DEF ErrorInv
      <3>4. g \in Entries /\ g # e
        BY <2>3, <3>3 DEF Failed
      <3>5. g \in Failed' /\ error' = outcome'[g]
        BY <2>2, <3>3, <3>4 DEF Failed
      <3>6. \A f \in Level : Position(f) < Position(g) => phase'[f] = "done"
        BY <2>2, <2>3, <3>2, <3>3
      <3> QED BY <2>2, <2>3, <2>4, <2>5, <3>5, <3>6 DEF ErrorInv
    <2> QED BY <2>2, <2>3, <2>5 DEF ErrorInv
  <1>3. CASE Notice
    <2>1. PICK e \in Failed :
             /\ \A f \in Level : Position(f) < Position(e) => phase[f] = "done"
             /\ error' = outcome[e]
      BY <1>3 DEF Notice
    <2>2. /\ driver = "gather" /\ driver' = "joining" /\ left' = left /\ outcome' = outcome
          /\ phase' = [f \in Entries |-> IF phase[f] = "queued" THEN "dropped" ELSE phase[f]]
      BY <1>3 DEF Notice, Drop
    <2>3. left \in SUBSET Entries /\ left # {}
      BY <2>2 DEF TypeInv, LifeInv
    <2>4. Level \subseteq Entries /\ Level' = Level
      BY <2>2, <2>3, OneHolder DEF Level
    <2>5. e \in Failed'
      BY <2>2 DEF Failed
    <2>6. \A f \in Level : Position(f) < Position(e) => phase'[f] = "done"
      BY <2>1, <2>2, <2>4
    <2> QED BY <2>1, <2>2, <2>4, <2>5, <2>6 DEF ErrorInv
  <1>4. CASE NoticeGroup
    BY <1>4 DEF NoticeGroup, ErrorInv
  <1>5. CASE Join
    <2>1. driver = "joining"
      BY <1>5 DEF Join
    <2>2. CASE driver' = "next"
      BY <2>2 DEF ErrorInv
    <2>3. CASE /\ driver' = IF error = "cancelled" THEN "cancelled" ELSE "failed"
               /\ UNCHANGED <<left, phase, outcome, error>>
      <3>1. Level' = Level /\ Failed' = Failed
        BY <2>3 DEF Level, Failed
      <3>2. CASE error = "cancelled"
        BY <2>3, <3>2 DEF ErrorInv
      <3>3. CASE error # "cancelled"
        BY <2>1, <2>3, <3>1, <3>3 DEF ErrorInv
      <3> QED BY <3>2, <3>3
    <2> QED BY <1>5, <2>2, <2>3 DEF Join
  <1>6. CASE Submit \/ Apply \/ Finish
    <2>1. driver' \in {"gather", "next", "ok"}
      BY <1>6 DEF Submit, Apply, Finish
    <2> QED BY <2>1 DEF ErrorInv
  <1> QED
    BY <1>1, <1>2, <1>3, <1>4, <1>5, <1>6
    DEF Next, Loop, CancelRun, Done, vars

\* The error a run ends with is one an entry raised itself, and of the entries
\* that failed the first in the plan: it does not depend on the schedule.
THEOREM FirstFailureIsReported == Spec => []FirstFailureReported
  <1>1. Init => ErrorInv
    BY DEF Init, ErrorInv
  <1>2. TypeInv /\ LifeInv /\ ErrorInv /\ [Next]_vars => ErrorInv'
    BY ErrorStep
  <1>3. TypeInv /\ LifeInv /\ ErrorInv => FirstFailureReported
    <2> SUFFICES ASSUME TypeInv, LifeInv, ErrorInv, driver = "failed", error # "group"
                 PROVE  \E e \in Failed :
                           /\ error = outcome[e]
                           /\ \A f \in Failed : Position(e) <= Position(f)
      BY DEF FirstFailureReported
    <2>1. PICK e \in Failed :
             /\ error = outcome[e]
             /\ \A f \in Level : Position(f) < Position(e) => phase[f] = "done"
      BY DEF ErrorInv
    <2>2. ASSUME NEW f \in Failed
          PROVE  Position(e) <= Position(f)
      <3>1. e \in Entries /\ f \in Entries /\ phase[f] = "failed"
        BY DEF Failed
      <3>2. f \in Level
        BY <3>1 DEF LifeInv
      <3>3. Position(e) \in Nat /\ Position(f) \in Nat
        BY <3>1, EntriesAreFinite
      <3> QED BY <2>1, <3>1, <3>2, <3>3
    <2> QED BY <2>1, <2>2
  <1> QED BY <1>1, <1>2, <1>3, LifeHolds, PTL DEF Spec

-----------------------------------------------------------------------------
(* Values. *)

\* The values of an entry on its way, and once it has been through all its steps.
LEMMA ValueSteps ==
    ASSUME NEW n \in Nat
    PROVE  /\ Counting(0) = << >>
           /\ Append(Counting(n), n + 1) = Counting(n + 1)
           /\ Fresh = [applied |-> Counting(0), version |-> 0]
           /\ \A e \in Entries : Migrated(e) = [applied |-> Counting(Steps[e]), version |-> Steps[e]]
  <1>1. Counting(0) = << >>
    BY DEF Counting
  <1>2. Append(Counting(n), n + 1) = Counting(n + 1)
    <2>1. Counting(n) \in Seq(Nat) /\ Len(Counting(n)) = n
      BY DEF Counting
    <2>2. Counting(n + 1) \in Seq(Nat) /\ Len(Counting(n + 1)) = n + 1
      BY DEF Counting
    <2>3. Append(Counting(n), n + 1) \in Seq(Nat) /\ Len(Append(Counting(n), n + 1)) = n + 1
      BY <2>1
    <2>4. \A i \in 1..(n + 1) : Append(Counting(n), n + 1)[i] = i
      BY <2>1 DEF Counting
    <2>5. \A i \in 1..(n + 1) : Counting(n + 1)[i] = i
      BY DEF Counting
    <2> QED BY <2>2, <2>3, <2>4, <2>5
  <1> QED BY <1>1, <1>2 DEF Fresh, Migrated, Counting

\* Where a retry follows a failure, the payload is still as it was given.
LEMMA RetryUnshared ==
    ASSUME NoRetryInPlace, TypeInv, Retries
    PROVE  ~Shared
  <1>1. config \in Configs /\ config.attempts \in Nat /\ attempt \in Nat \ {0}
    BY ExecutionAssumption DEF TypeInv
  <1>2. config.attempts # 1
    BY <1>1 DEF Retries, Attempts
  <1> QED BY <1>1, <1>2 DEF NoRetryInPlace, Shared, InPlace, Mode

\* An entry that goes on in its step, or out of it, without touching its value.
LEMMA ProgressKept ==
    ASSUME NEW e \in Entries, Progress(e), config' = config, step'[e] = step[e], current'[e] = current[e],
           \/ phase'[e] = phase[e]
           \/ phase[e] = "ready" /\ phase'[e] \in {"entering", "closing"}
           \/ phase[e] = "entering" /\ phase'[e] \in {"invoking", "closing"}
           \/ phase[e] = "invoking" /\ phase'[e] \in {"raised", "closing"}
           \/ phase[e] = "raised" /\ phase'[e] \in {"closing", "holding"}
           \/ phase[e] = "returned" /\ phase'[e] = "leaving"
           \/ phase'[e] \in {"failed", "dropped"}
    PROVE  Progress(e)'
  <1>1. CASE phase'[e] \in {"failed", "dropped"}
    BY <1>1 DEF Progress, Active, Closing, Excused, Suppress, Mode
  <1>2. CASE phase[e] \in {"ready", "entering", "invoking"} /\ phase'[e] \in {"entering", "invoking"}
    BY <1>2 DEF Progress, Active, Closing, Excused, Suppress, Mode
  <1>3. CASE phase'[e] = phase[e]
    BY <1>3 DEF Progress, Excused, Suppress, Mode
  <1>4. CASE phase[e] = "returned" /\ phase'[e] = "leaving"
    BY <1>4 DEF Progress, Active, Closing, Excused, Suppress, Mode
  <1>5. CASE phase[e] \in Active /\ phase'[e] \in {"closing", "holding", "raised"}
    BY <1>5 DEF Progress, Active, Closing, Excused, Suppress, Mode
  <1>6. {"ready", "entering", "invoking", "raised"} \subseteq Active
    BY DEF Active
  <1> QED BY <1>1, <1>2, <1>3, <1>4, <1>5, <1>6

\* An entry takes up its value when everything inside it has been put in place.
LEMMA TakeProgress ==
    ASSUME TypeInv, LifeInv, ValueInv, NEW e \in Entries, Take(e), config' = config
    PROVE  Progress(e)'
  <1>1. /\ phase[e] = "queued" /\ driver = "gather" /\ step' = step
        /\ current' = [current EXCEPT ![e] = data]
        /\ phase' = [phase EXCEPT ![e] = IF Steps[e] = 0 THEN "done" ELSE "ready"]
    BY DEF Take, Goto
  <1>2. left \in SUBSET Entries /\ left # {} /\ e \in left /\ e \in Level
    BY <1>1 DEF TypeInv, LifeInv
  <1>3. data[e] = Fresh /\ step[e] = 1
    BY <1>1, <1>2 DEF ValueInv
  <1>4. ASSUME NEW d \in Entries, IsDescendantOf(d, e)
        PROVE  data[d] = Migrated(d) \/ Excused(data[d])
    <2>1. d \notin left
      BY <1>2, <1>4, OneHolder
    <2> QED BY <2>1 DEF ValueInv
  <1>5. current'[e] = data /\ step'[e] = 1
    BY <1>1, <1>3 DEF TypeInv
  <1>6. Steps[e] \in Nat
    BY ExecutionAssumption
  <1>7. Fresh = [applied |-> Counting(0), version |-> 0]
    BY ValueSteps
  <1>8. CASE Steps[e] = 0
    <2>1. phase'[e] = "done"
      BY <1>1, <1>8 DEF TypeInv
    <2>2. Migrated(e) = [applied |-> Counting(0), version |-> 0]
      BY <1>8, ValueSteps
    <2> QED BY <1>3, <1>4, <1>5, <1>7, <2>1, <2>2 DEF Progress, Active, Closing, Excused, Suppress, Mode
  <1>9. CASE Steps[e] # 0
    <2>1. phase'[e] = "ready"
      BY <1>1, <1>9 DEF TypeInv
    <2>2. 1 \in 1..Steps[e] /\ 1 - 1 = 0
      BY <1>6, <1>9
    <2> QED BY <1>3, <1>4, <1>5, <1>7, <2>1, <2>2 DEF Progress, Active, Closing, Excused, Suppress, Mode
  <1> QED BY <1>8, <1>9

\* A function is applied once in its turn.
LEMMA InvokeProgress ==
    ASSUME TypeInv, ValueInv, NEW e \in Entries, Invoke(e), config' = config
    PROVE  Progress(e)'
  <1> DEFINE n == step[e]
             v == [current[e][e] EXCEPT !.applied = Append(@, n)]
  <1>1. phase[e] = "invoking" /\ step' = step
    BY DEF Invoke
  <1>2. /\ n \in 1..Steps[e] /\ Steps[e] \in Nat
        /\ \/ current[e][e] = [applied |-> Counting(n - 1), version |-> n - 1]
           \/ Excused(current[e][e])
        /\ current[e][e] \in Value
        /\ \A d \in Entries :
              IsDescendantOf(d, e) => current[e][d] = Migrated(d) \/ Excused(current[e][d])
    <2>1. Progress(e) /\ phase[e] \in Active
      BY <1>1 DEF ValueInv, Active
    <2>2. Steps[e] \in Nat /\ current[e][e] \in Value
      BY ExecutionAssumption DEF TypeInv
    <2> QED BY ZenonT(40), <1>1, <2>1, <2>2 DEF Progress
  <1>3. CASE phase' = [phase EXCEPT ![e] = "raised"] /\ UNCHANGED current
    <2>1. phase'[e] = "raised"
      BY <1>3 DEF TypeInv
    <2>2. Progress(e)
      BY DEF ValueInv
    <2> QED BY <1>1, <1>3, <2>1, <2>2, ProgressKept
  <1>4. CASE phase' = [phase EXCEPT ![e] = "returned"] /\ Work(e, v)
    <2>1. phase'[e] = "returned"
      BY <1>4 DEF TypeInv
    <2>2. n \in Nat /\ n - 1 \in Nat /\ (n - 1) + 1 = n
      BY <1>2
    <2>3. Append(Counting(n - 1), n) = Counting(n)
      BY <2>2, ValueSteps
    <2>4. v \in Value /\ v = [applied |-> Append(current[e][e].applied, n), version |-> current[e][e].version]
      BY <1>2, <2>2, WorkedValues
    <2>5. v = [applied |-> Counting(n), version |-> n - 1] \/ Excused(v)
      <3>1. CASE current[e][e] = [applied |-> Counting(n - 1), version |-> n - 1]
        BY SMTT(30), <2>3, <2>4, <3>1
      <3>2. CASE Excused(current[e][e])
        BY <1>2, <2>2, <3>2, LostForGood DEF Excused
      <3> QED BY <1>2, <3>1, <3>2
    <2> HIDE DEF v
    <2>6. current'[e][e] = v /\ \A d \in Entries \ {e} : current'[e][d] = current[e][d]
      BY <1>4, <2>4, WorkFrame
    <2>7. ~IsDescendantOf(e, e)
      BY EntriesAreFinite, DescentOrder
    <2>8. \A d \in Entries :
             IsDescendantOf(d, e) => current'[e][d] = Migrated(d) \/ Excused(current'[e][d])
      BY <1>2, <2>6, <2>7
    <2> QED BY <1>1, <1>2, <2>1, <2>5, <2>6, <2>8
            DEF Progress, Active, Closing, Excused, Suppress, Mode
  <1> QED BY <1>3, <1>4 DEF Invoke, Goto

\* A step that ends is stamped, and the next begins or the entry is migrated.
LEMMA EndStepProgress ==
    ASSUME TypeInv, ValueInv, NEW e \in Entries, EndStep(e), config' = config
    PROVE  Progress(e)'
  <1> DEFINE n == step[e]
             v == [current[e][e] EXCEPT !.version = n]
  <1>1. phase[e] = "leaving" /\ Work(e, v)
    BY DEF EndStep
  <1>2. /\ n \in 1..Steps[e] /\ Steps[e] \in Nat
        /\ \/ current[e][e] = [applied |-> Counting(n), version |-> n - 1]
           \/ Excused(current[e][e])
        /\ current[e][e] \in Value
        /\ \A d \in Entries :
              IsDescendantOf(d, e) => current[e][d] = Migrated(d) \/ Excused(current[e][d])
    <2>1. Progress(e) /\ phase[e] \in Active
      BY <1>1 DEF ValueInv, Active, Closing
    <2>2. Steps[e] \in Nat /\ current[e][e] \in Value
      BY ExecutionAssumption DEF TypeInv
    <2> QED BY ZenonT(40), <1>1, <2>1, <2>2 DEF Progress
  <1>3. n \in Nat
    BY <1>2
  <1>4. v \in Value /\ v = [applied |-> current[e][e].applied, version |-> n]
    <2> HIDE DEF n
    <2> QED BY <1>2, <1>3, WorkedValues
  <1>5. v = [applied |-> Counting(n), version |-> n] \/ Excused(v)
    <2>1. CASE current[e][e] = [applied |-> Counting(n), version |-> n - 1]
      BY <1>4, <2>1
    <2>2. CASE Excused(current[e][e])
      BY <1>2, <1>3, <2>2, LostForGood DEF Excused
    <2> QED BY <1>2, <2>1, <2>2
  <1> HIDE DEF v
  <1>6. current'[e][e] = v /\ \A d \in Entries \ {e} : current'[e][d] = current[e][d]
    BY <1>1, <1>4, WorkFrame
  <1>7. ~IsDescendantOf(e, e)
    BY EntriesAreFinite, DescentOrder
  <1>8. \A d \in Entries :
           IsDescendantOf(d, e) => current'[e][d] = Migrated(d) \/ Excused(current'[e][d])
    BY <1>2, <1>6, <1>7
  <1>9. CASE n < Steps[e]
    <2>1. phase'[e] = "ready" /\ step'[e] = n + 1
      BY <1>9 DEF EndStep, Advance, Goto, TypeInv
    <2>2. n + 1 \in 1..Steps[e] /\ (n + 1) - 1 = n
      BY <1>2, <1>9
    <2>3. \/ current'[e][e] = [applied |-> Counting(step'[e] - 1), version |-> step'[e] - 1]
          \/ Excused(current'[e][e])
      BY <1>5, <1>6, <2>1, <2>2
    <2> QED BY <1>8, <2>1, <2>2, <2>3 DEF Progress, Excused, Suppress, Mode
  <1>10. CASE ~(n < Steps[e])
    <2>1. phase'[e] = "done"
      BY <1>10 DEF EndStep, Advance, Goto, TypeInv
    <2>2. n = Steps[e]
      BY <1>2, <1>10
    <2>3. v = Migrated(e) \/ Excused(v)
      BY <1>2, <1>5, <2>2, ValueSteps
    <2> QED BY <1>6, <1>8, <2>1, <2>3
            DEF Progress, Active, Closing, Excused, Suppress, Mode
  <1> QED BY <1>9, <1>10

\* A coroutine handed on is a value a scope has given up.
LEMMA HandOnProgress ==
    ASSUME TypeInv, ValueInv, HoldInv, NEW e \in Entries, HandOn(e), config' = config
    PROVE  Progress(e)'
  <1>1. phase[e] = "holding" /\ outcome[e] = "none"
    BY DEF HandOn
  <1>2. Mode = "threads" /\ Suppress
    BY <1>1 DEF HoldInv
  <1>3. step[e] \in 1..Steps[e] /\ Steps[e] \in Nat
    BY <1>1, ExecutionAssumption DEF ValueInv, Progress, Active, Closing
  <1>4. \A d \in Entries : d = e \/ IsDescendantOf(d, e) => Excused(current'[e][d])
    BY <1>2, HandOnFrame DEF Excused
  <1>5. CASE step[e] < Steps[e]
    <2>1. phase'[e] = "ready" /\ step'[e] = step[e] + 1
      BY <1>5 DEF HandOn, Advance, Goto, TypeInv
    <2>2. step[e] + 1 \in 1..Steps[e]
      BY <1>3, <1>5
    <2> QED BY <1>4, <2>1, <2>2 DEF Progress, Excused, Suppress, Mode
  <1>6. CASE ~(step[e] < Steps[e])
    <2>1. phase'[e] = "done"
      BY <1>6 DEF HandOn, Advance, Goto, TypeInv
    <2> QED BY <1>4, <2>1 DEF Progress, Active, Closing, Excused, Suppress, Mode
  <1> QED BY <1>5, <1>6

\* Every step of an entry takes its value as far as it says.
LEMMA EntryProgress ==
    ASSUME TypeInv, LifeInv, ValueInv, HoldInv, NEW e \in Entries, EntryStep(e)
    PROVE  Progress(e)'
  <1>0. /\ Progress(e) /\ config' = config
        /\ \A q : [phase EXCEPT ![e] = q][e] = q
    BY DEF ValueInv, TypeInv, EntryStep
  <1>1. CASE Before(e)
    <2>1. phase[e] = "ready" /\ UNCHANGED <<step, current>> /\ phase'[e] \in {"entering", "closing"}
      BY <1>0, <1>1 DEF Before, Goto
    <2> QED BY <1>0, <2>1, ProgressKept
  <1>2. CASE Enter(e)
    <2>1. /\ phase[e] = "entering" /\ UNCHANGED <<step, current>>
          /\ phase' = phase \/ phase'[e] \in {"invoking", "closing"}
      BY <1>0, <1>2 DEF Enter, Goto
    <2> QED BY <1>0, <2>1, ProgressKept
  <1>3. CASE OnError(e)
    <2>1. phase[e] = "raised" /\ UNCHANGED <<step, current>> /\ phase'[e] \in {"closing", "holding"}
      BY <1>0, <1>3 DEF OnError, Goto
    <2> QED BY <1>0, <2>1, ProgressKept
  <1>4. CASE After(e)
    <2>1. phase[e] = "returned" /\ UNCHANGED <<step, current>> /\ phase'[e] = "leaving"
      BY <1>0, <1>4 DEF After, Goto
    <2> QED BY <1>0, <2>1, ProgressKept
  <1>5. CASE Exit(e)
    <2>1. UNCHANGED <<step, current, phase>>
      BY <1>5 DEF Exit
    <2> QED BY <1>0, <2>1, ProgressKept
  <1>6. CASE Raise(e)
    <2>1. UNCHANGED <<step, current>> /\ phase'[e] = "failed"
      BY <1>0, <1>6 DEF Raise, Goto
    <2> QED BY <1>0, <2>1, ProgressKept
  <1>7. CASE Interrupt(e)
    <2>1. UNCHANGED <<step, current>>
      BY <1>7 DEF Interrupt
    <2>2. \/ phase'[e] = "dropped"
          \/ phase' = phase
          \/ phase[e] = "returned" /\ phase'[e] = "leaving"
          \/ phase[e] \in {"entering", "invoking", "raised"} /\ phase'[e] = "closing"
      BY <1>0, <1>7 DEF Interrupt, Goto
    <2> QED BY <1>0, <2>1, <2>2, ProgressKept
  <1>8. CASE Take(e)
    BY <1>0, <1>8, TakeProgress
  <1>9. CASE Invoke(e)
    BY <1>0, <1>9, InvokeProgress
  <1>10. CASE EndStep(e)
    BY <1>0, <1>10, EndStepProgress
  <1>11. CASE HandOn(e)
    BY <1>0, <1>11, HandOnProgress
  <1> QED
    BY <1>1, <1>2, <1>3, <1>4, <1>5, <1>6, <1>7, <1>8, <1>9, <1>10, <1>11
    DEF EntryStep

\* The results of a level are put into place, and what was there already stays
\* migrated: a result that replaces it holds the same.
LEMMA ApplyValues ==
    ASSUME TypeInv, LifeInv, ValueInv, Apply, config' = config
    PROVE  ValueInv'
  <1>1. /\ driver = "gather" /\ left' = left \ Level
        /\ \A e \in Level : phase[e] = "done"
        /\ data' = [d \in Entries |->
                      IF Holders(d) = {} THEN data[d] ELSE current[Last(Holders(d))][d]]
        /\ UNCHANGED <<phase, step, current, payload>>
    BY DEF Apply
  <1>2. left \in SUBSET Entries /\ left # {}
    BY <1>1 DEF TypeInv, LifeInv
  <1>3. Level \subseteq left
    BY <1>2, OneHolder
  <1>4. ASSUME NEW d \in Entries \ left'
        PROVE  data'[d] = Migrated(d) \/ Excused(data'[d])
    <2>1. CASE Holders(d) = {}
      <3>1. d \notin Level
        BY <1>2, <2>1, OneHolder
      <3>2. d \notin left
        BY <1>1, <1>4, <3>1
      <3> QED BY <1>1, <1>4, <2>1, <3>2 DEF ValueInv
    <2>2. CASE Holders(d) # {}
      <3>1. PICK e \in Holders(d) : TRUE
        BY <2>2
      <3>2. e \in Level /\ Holders(d) = {e} /\ Last(Holders(d)) = e
        BY <1>2, OneHolder
      <3>3. data'[d] = current[e][d]
        BY <1>1, <2>2, <3>2
      <3>4. e \in Entries /\ phase[e] = "done" /\ Progress(e)
        BY <1>1, <1>2, <1>3, <3>2 DEF ValueInv
      <3>5. CASE d \in Level
        <4>1. e = d
          BY <1>2, <3>2, <3>5, OneHolder
        <4> QED BY <3>3, <3>4, <4>1 DEF Progress
      <3>6. CASE d \notin Level
        <4>1. d \notin left
          BY <1>1, <1>4, <3>6
        <4>2. IsDescendantOf(d, e)
          BY <1>2, <4>1, OneHolder
        <4> QED BY <3>3, <3>4, <4>2 DEF Progress
      <3> QED BY <3>5, <3>6
    <2> QED BY <2>1, <2>2
  <1>5. ASSUME NEW d \in left', phase'[d] \in {"idle", "queued"}
        PROVE  data'[d] = Fresh /\ step'[d] = 1
    <2>1. d \in left /\ d \notin Level /\ d \in Entries
      BY <1>1, <1>2, <1>5
    <2>2. Holders(d) = {}
      BY <1>2, <2>1, OneHolder
    <2>3. data'[d] = data[d]
      BY <1>1, <2>1, <2>2
    <2> QED BY <1>1, <1>5, <2>1, <2>3 DEF ValueInv
  <1>6. \A e \in Entries : Progress(e)'
    BY <1>1 DEF ValueInv, Progress, Excused, Suppress, Mode
  <1>7. ~Shared' => \A e \in Entries : payload'[e] = Fresh
    BY <1>1 DEF ValueInv, Shared, InPlace, Mode
  <1> QED BY <1>4, <1>5, <1>6, <1>7 DEF ValueInv, Excused, Suppress, Mode

\* A refusal stays one of a thread, and is forgotten in a suppressing scope only.
LEMMA HoldStep ==
    ASSUME TypeInv, HoldInv, [Next]_vars
    PROVE  HoldInv'
  <1> DEFINE Held(e) ==
          /\ phase[e] = "raised" /\ outcome[e] = "unsupported" => Mode = "threads"
          /\ phase[e] = "holding" => Mode = "threads" /\ (outcome[e] = "none" => Suppress)
  <1>0. config' = config /\ Mode' = Mode /\ Suppress' = Suppress
    BY DEF Next, Loop, EntryStep, CancelRun, Done, vars, Suppress, Mode
  <1>1. CASE UNCHANGED <<phase, outcome>>
    BY <1>0, <1>1 DEF HoldInv
  <1>2. ASSUME NEW e \in Entries, EntryStep(e)
        PROVE  HoldInv'
    <2>1. \A f \in Entries \ {e} : phase'[f] = phase[f] /\ outcome'[f] = outcome[f]
      BY <1>2, EntryStepMoves DEF EntryMoves
    <2>2. Held(e)'
      <3>0. /\ Held(e)
            /\ \A q : [phase EXCEPT ![e] = q][e] = q
            /\ \A x : [outcome EXCEPT ![e] = x][e] = x
        BY DEF HoldInv, TypeInv
      <3>1. CASE Invoke(e)
        <4>1. \/ phase'[e] = "returned"
              \/ phase'[e] = "raised" /\ outcome'[e] \in Failures
          BY <3>0, <3>1 DEF Invoke, Goto
        <4> QED BY <1>0, <4>1 DEF Failures
      <3>2. CASE OnError(e)
        <4>1. /\ phase[e] = "raised"
              /\ \/ phase'[e] = "closing"
                 \/ /\ phase'[e] = "holding" /\ outcome[e] = "unsupported"
                    /\ outcome'[e] \in {"unsupported", "hook"}
          BY <3>0, <3>2 DEF OnError, Goto
        <4> QED BY <1>0, <3>0, <4>1
      <3>3. CASE Exit(e)
        <4>1. /\ phase' = phase /\ phase[e] \in Closing
              /\ outcome'[e] \in {outcome[e], "hook"} \/ Suppress
          BY <3>0, <3>3 DEF Exit
        <4> QED BY <1>0, <3>0, <4>1 DEF Closing
      <3>4. CASE Interrupt(e)
        <4>1. \/ phase'[e] \in {"dropped", "leaving", "closing"}
              \/ phase' = phase /\ phase[e] \in Closing /\ outcome'[e] = "cancelled"
          BY <3>0, <3>4 DEF Interrupt, Goto
        <4> QED BY <1>0, <3>0, <4>1 DEF Closing
      <3>5. CASE Take(e) \/ Before(e) \/ Enter(e) \/ After(e) \/ EndStep(e) \/ HandOn(e) \/ Raise(e)
        <4>1. phase'[e] \in {"done", "ready", "entering", "closing", "invoking", "leaving", "failed"}
          BY <3>0, <3>5 DEF Take, Before, Enter, After, EndStep, HandOn, Advance, Raise, Goto
        <4> QED BY <4>1
      <3> QED BY <1>2, <3>1, <3>2, <3>3, <3>4, <3>5 DEF EntryStep
    <2> QED BY <1>0, <2>1, <2>2 DEF HoldInv
  <1>3. CASE Submit \/ Notice
    <2>1. outcome' = outcome
      BY <1>3 DEF Submit, Notice
    <2>2. \A e \in Entries : phase'[e] \in {phase[e], "queued", "dropped"}
      BY <1>3 DEF Submit, Notice, Drop
    <2> QED BY <1>0, <2>1, <2>2 DEF HoldInv
  <1>4. CASE Join
    <2>1. UNCHANGED <<phase, outcome>> \/ \A e \in Entries : phase'[e] = "idle"
      BY <1>4 DEF Join
    <2> QED BY <1>1, <2>1 DEF HoldInv
  <1> QED
    BY <1>1, <1>2, <1>3, <1>4
    DEF Next, Loop, Apply, NoticeGroup, Finish, CancelRun, Done, vars

\* Every step keeps the values of all entries as far as they say.
LEMMA ValueStep ==
    ASSUME NoRetryInPlace, TypeInv, LifeInv, ValueInv, HoldInv, [Next]_vars
    PROVE  ValueInv'
  <1>0. config' = config /\ (Shared' <=> Shared)
    BY DEF Next, Loop, EntryStep, CancelRun, Done, vars, Shared, InPlace, Mode
  <1>1. CASE UNCHANGED <<left, phase, step, current, data, payload>>
    BY <1>0, <1>1 DEF ValueInv, Progress, Excused, Suppress, Mode
  <1>2. ASSUME NEW e \in Entries, EntryStep(e)
        PROVE  ValueInv'
    <2>1. EntryMoves(e)
      BY <1>2, EntryStepMoves
    <2>2. Progress(e)'
      BY <1>2, EntryProgress
    <2>3. /\ left' = left /\ (~Shared => payload' = payload)
          /\ \A f \in Entries \ {e} : /\ phase'[f] = phase[f] /\ step'[f] = step[f]
                                      /\ current'[f] = current[f] /\ data'[f] = data[f]
          /\ phase[e] \in Active \cup {"queued"}
          /\ phase'[e] \in Active \cup {"done", "failed", "dropped"}
      BY <2>1 DEF EntryMoves
    <2>4. e \in left /\ phase'[e] \notin {"idle", "queued"} /\ left \subseteq Entries
      BY <2>3 DEF LifeInv, TypeInv, Active, Closing
    <2>5. ASSUME NEW f \in Entries
          PROVE  Progress(f)'
      <3>1. CASE f # e
        BY <1>0, <2>3, <3>1 DEF ValueInv, Progress, Excused, Suppress, Mode
      <3> QED BY <2>2, <3>1
    <2>6. \A f \in Entries \ left' : data'[f] = Migrated(f) \/ Excused(data'[f])
      BY <2>3, <2>4 DEF ValueInv
    <2>7. \A f \in left' : phase'[f] \in {"idle", "queued"} => data'[f] = Fresh /\ step'[f] = 1
      BY <2>3, <2>4 DEF ValueInv
    <2>8. ~Shared' => \A f \in Entries : payload'[f] = Fresh
      BY <1>0, <2>3 DEF ValueInv
    <2> QED BY <1>0, <2>5, <2>6, <2>7, <2>8 DEF ValueInv, Excused, Suppress, Mode
  <1>3. CASE Submit
    <2>1. /\ driver = "next" /\ left # {} /\ UNCHANGED <<left, step, current, data, payload>>
          /\ phase' = [e \in Entries |-> IF e \in Level THEN "queued" ELSE phase[e]]
      BY <1>3 DEF Submit
    <2>2. left \in SUBSET Entries /\ \A e \in left : phase[e] = "idle"
      BY <2>1 DEF TypeInv, LifeInv
    <2>3. \A e \in left : data[e] = Fresh /\ step[e] = 1
      BY <2>2 DEF ValueInv
    <2>4. ASSUME NEW e \in Entries
          PROVE  Progress(e)'
      <3>1. CASE e \in Level
        <4>1. phase'[e] = "queued"
          BY <2>1, <3>1
        <4> QED BY <4>1 DEF Progress, Active, Closing
      <3>2. CASE e \notin Level
        <4>1. phase'[e] = phase[e]
          BY <2>1, <3>2
        <4> QED BY <1>0, <2>1, <4>1 DEF ValueInv, Progress, Excused, Suppress, Mode
      <3> QED BY <3>1, <3>2
    <2> QED BY <1>0, <2>1, <2>3, <2>4 DEF ValueInv, Excused, Suppress, Mode
  <1>4. CASE Apply
    BY <1>0, <1>4, ApplyValues
  <1>5. CASE Notice
    <2>1. /\ UNCHANGED <<left, step, current, data, payload>>
          /\ phase' = [e \in Entries |-> IF phase[e] = "queued" THEN "dropped" ELSE phase[e]]
      BY <1>5 DEF Notice, Drop
    <2>2. ASSUME NEW e \in Entries
          PROVE  Progress(e)'
      <3>1. CASE phase[e] = "queued"
        <4>1. phase'[e] = "dropped"
          BY <2>1, <3>1
        <4> QED BY <4>1 DEF Progress, Active, Closing
      <3>2. CASE phase[e] # "queued"
        <4>1. phase'[e] = phase[e]
          BY <2>1, <3>2
        <4> QED BY <1>0, <2>1, <4>1 DEF ValueInv, Progress, Excused, Suppress, Mode
      <3> QED BY <3>1, <3>2
    <2>3. left \subseteq Entries
      BY DEF TypeInv
    <2> QED BY <1>0, <2>1, <2>2, <2>3 DEF ValueInv, Excused, Suppress, Mode
  <1>6. CASE Join
    <2>1. UNCHANGED <<current, payload>>
      BY <1>6 DEF Join
    <2>2. CASE ~Retries
      <3>1. UNCHANGED <<left, phase, step, data>>
        BY <1>6, <2>2 DEF Join
      <3> QED BY <1>1, <2>1, <3>1
    <2>3. CASE Retries
      <3>1. /\ left' = Entries /\ phase' = [e \in Entries |-> "idle"]
            /\ step' = [e \in Entries |-> 1] /\ data' = payload
        BY <1>6, <2>3 DEF Join
      <3>2. \A e \in Entries : payload[e] = Fresh
        BY <2>3, RetryUnshared DEF ValueInv
      <3>3. ASSUME NEW e \in Entries
            PROVE  Progress(e)'
        <4>1. phase'[e] = "idle"
          BY <3>1
        <4> QED BY <4>1 DEF Progress, Active, Closing
      <3> QED BY <2>1, <3>1, <3>2, <3>3 DEF ValueInv
    <2> QED BY <2>2, <2>3
  <1> QED
    BY <1>1, <1>2, <1>3, <1>4, <1>5, <1>6
    DEF Next, Loop, NoticeGroup, Finish, CancelRun, Done, vars

\* The values are as far as they say from the first attempt on.
LEMMA ValuesHold ==
    ASSUME NoRetryInPlace
    PROVE  Spec => [](TypeInv /\ LifeInv /\ ValueInv)
  <1>0. Init => HoldInv
    BY DEF Init, HoldInv
  <1>1. Init => ValueInv
    <2> SUFFICES ASSUME Init
                 PROVE  ValueInv
      OBVIOUS
    <2>1. \A e \in Entries : Progress(e)
      BY DEF Init, Progress, Active, Closing
    <2> QED BY <2>1 DEF Init, ValueInv
  <1>2. TypeInv /\ LifeInv /\ HoldInv /\ ValueInv /\ [Next]_vars => HoldInv' /\ ValueInv'
    BY HoldStep, ValueStep
  <1> QED BY <1>0, <1>1, <1>2, LifeHolds, PTL DEF Spec

\* The functions of an entry see every planned entry inside it fully migrated,
\* across workers, levels and attempts, provided no run that works in place on
\* the caller's payload is retried; except for an entry that a thread's scope has
\* given up, by suppressing the refusal of a coroutine.
THEOREM ChildrenComeFirst ==
    ASSUME NoRetryInPlace
    PROVE  Spec => []ChildrenFirst
  <1>1. TypeInv /\ LifeInv /\ ValueInv => ChildrenFirst
    BY DEF ValueInv, Progress, ChildrenFirst, Running
  <1> QED BY <1>1, ValuesHold, PTL

\* A run that returns has applied every step of every entry exactly once, in
\* order, whatever ran in parallel and however many attempts failed before it,
\* provided no run that works in place on the caller's payload is retried; except
\* for what a thread's scope has given up, by suppressing the refusal of a coroutine.
THEOREM RunsConverge ==
    ASSUME NoRetryInPlace
    PROVE  Spec => []Converged
  <1>1. TypeInv /\ LifeInv /\ ValueInv => Converged
    BY DEF LifeInv, ValueInv, Converged
  <1> QED BY <1>1, ValuesHold, PTL
=============================================================================
