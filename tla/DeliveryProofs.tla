--------------------------- MODULE DeliveryProofs ---------------------------
(***************************************************************************)
(* Proofs about Delivery, for every set of applications the bindings'      *)
(* constructors accept and every number of jobs, versions and runs.  The   *)
(* inductive invariant says of a job at each point of its life where its   *)
(* convergence comes from, where it is going and how far it is (WayInv),   *)
(* what the handler was given (ServedInv), which routes are served and     *)
(* which are left (OutInv) and which of its runs is active (RunsInv); and  *)
(* of an application what is bound when (LifeInv).  The telemetry adapters *)
(* have an invariant of their own on top of it (TeleInv).                  *)
(***************************************************************************)
EXTENDS Delivery, Provider, FiniteSetTheorems, WellFoundedInduction, TLAPS

Pcs == {"idle", "call", "running", "step", "raising", "cancelled", "handle",
        "publish", "done", "refused", "failed"}

\* A convergence is under way.
Converging == {"running", "step", "raising", "cancelled"}

\* The placeholder of an idle job, or a message of some application.
Msgs == {[version |-> 0]} \cup UNION {app.messages : app \in Settings}

JobRecords ==
    [ pc : Pcs, msg : Msgs, target : Int, stage : {"in", "out"}, trail : Seq(Int),
      goal : Int, ran : Seq({"active", "ok", "error", "abandoned"}), served : Int,
      result : Int, body : Int, todo : Seq(Int),
      sent : Seq([policy : Int, trail : Seq(Int)]) ]

\* Type invariant.
TypeInv ==
    /\ cfg \in Settings
    /\ models \in 0..MaxVersion
    /\ bound \in 0..MaxVersion
    /\ worker \in {"new", "decorated", "up", "failed", "exited"}
    /\ jobs \in [Jobs -> JobRecords]

\* The application's life: nothing is bound before startup, unless the runtime was
\* constructed with a runner, and nothing received before the decorators ran, which
\* bound the handler to the registry they saw.
LifeInv ==
    /\ worker \in {"new", "decorated"} /\ ~cfg.early => bound = 0
    /\ worker = "new" => \A j \in Jobs : jobs[j] = Idle
    /\ worker \notin {"new", "exited"} /\ cfg.transport = "faststream" =>
          /\ annotation.accepts = Accepts(annotation.known)
          /\ annotation.returns = PublisherReturns(annotation.known)

\* An unhealthy Celery worker that the signal receiver starts is never up.
HealthInv ==
    cfg.transport = "celery" /\ cfg.receiver /\ ~cfg.early /\ Unhealthy =>
        /\ worker \in {"new", "decorated", "exited"}
        /\ \A j \in Jobs : jobs[j].ran = << >>

\* The version the convergence of job has arrived at.
Last(trail) == trail[Len(trail)]

\* Where a convergence from version v for a policy ends.
Goal(v, policy) == IF Known(v) THEN Resolve(policy, bound) ELSE v

\* A convergence walks straight to its goal.
Straight(trail, goal) ==
    IF trail[1] <= goal
    THEN Last(trail) = trail[1] + (Len(trail) - 1) /\ Last(trail) <= goal
    ELSE Last(trail) = trail[1] - (Len(trail) - 1) /\ Last(trail) >= goal

\* The version a convergence starts from and the policy it is for.
Source(job) == IF job.stage = "in" THEN job.msg.version ELSE job.body

Policy(job) == IF job.stage = "in" THEN job.target ELSE Head(job.todo)

\* A convergence of the job has a goal its policy resolves to in the runner's graph.
Aimed(job) ==
    /\ bound # 0
    /\ job.goal = Goal(job.trail[1], Policy(job))
    /\ Known(job.trail[1]) => Known(job.goal)
    /\ Straight(job.trail, job.goal)

\* Where a convergence comes from and where it goes, at each point of a job.
WayInv(job) ==
    /\ job.pc = "idle" => job = Idle
    /\ job.pc \in Converging \cup {"call", "handle", "publish"} =>
          /\ job.trail # << >> /\ job.trail[1] = Source(job)
          /\ job.target = Select(job.msg) /\ job.msg \in cfg.messages
    /\ job.pc = "call" => Len(job.trail) = 1
    /\ job.pc \in Converging \cup {"publish"} => Aimed(job)
    /\ job.pc = "step" => Last(job.trail) # job.goal
    /\ job.pc = "handle" => job.stage = "in"
    /\ job.pc = "handle" /\ (cfg.transport = "faststream" \/ job.msg.located) =>
          Aimed(job) /\ Last(job.trail) = job.goal
    /\ job.pc = "publish" => job.stage = "out" /\ Last(job.trail) = job.goal

\* What the handler was given, once it was called.
ServedInv(job) ==
    /\ job.stage = "in" => job.result = -1 /\ job.sent = << >>
    /\ job.stage = "in" /\ job.pc # "failed" => job.served = -1
    /\ job.served # -1 /\ job.msg.located =>
          bound # 0 /\ (Known(job.msg.version) => job.served = Resolve(job.target, bound))

\* What is left to be sent, and what was.
OutInv(job) ==
    /\ job.stage = "out" /\ job.pc \in Converging \cup {"call", "publish"} =>
          /\ job.todo # << >>
          /\ job.body = job.result \/ Known(job.body)
          /\ cfg.copy = "deep" => job.body = job.result
          /\ job.sent = << >> => job.body = job.result
          /\ IF cfg.outputs = << >>
             THEN job.sent = << >> /\ job.todo = <<job.target>>
             ELSE /\ Len(job.sent) + Len(job.todo) = Len(cfg.outputs)
                  /\ \A i \in DOMAIN job.todo : job.todo[i] = cfg.outputs[Len(job.sent) + i]
    /\ cfg.outputs = << >> => Len(job.sent) <= 1
    /\ Len(job.sent) <= Len(cfg.outputs) \/ cfg.outputs = << >>
    /\ job.pc = "done" /\ job.result # -1 => Len(job.sent) >= Len(cfg.outputs)
    /\ \A i \in DOMAIN job.sent :
          LET trail == job.sent[i].trail
              policy == IF cfg.outputs = << >> THEN job.target ELSE cfg.outputs[i]
          IN  /\ bound # 0 /\ trail # << >>
              /\ Known(job.result) => Last(trail) = Resolve(policy, bound)
              /\ Straight(trail, Last(trail))
              /\ cfg.copy = "deep" => trail[1] = job.result

\* Only the last run is ever active, while a convergence is under way; there is one
\* run for what came in and one for each target served or being served.
RunsInv(job) ==
    /\ \A i \in DOMAIN job.ran :
          job.ran[i] = "active" <=> i = Len(job.ran) /\ job.pc \in Converging
    /\ job.pc \in Converging => job.ran # << >>
    /\ job.stage = "in" => IF job.pc \in {"idle", "call"} THEN job.ran = << >> ELSE Len(job.ran) <= 1
    /\ job.stage = "out" => Len(job.ran) <= Len(job.sent) + 2
    /\ job.stage = "out" /\ job.pc = "call" => Len(job.ran) <= Len(job.sent) + 1

JobOK(job) == job \in JobRecords /\ WayInv(job) /\ ServedInv(job) /\ OutInv(job) /\ RunsInv(job)

JobInv == \A j \in Jobs : JobOK(jobs[j])

-----------------------------------------------------------------------------
\* The application at hand is one the bindings' constructors accept.
LEMMA CfgFacts == ASSUME TypeInv PROVE Application(cfg)
  BY DeliveryAssumption DEF TypeInv

\* The chain of selectors always has an answer, and a FastStream topic's own target
\* is it where no header is negotiated.
LEMMA SelectFacts ==
    ASSUME Application(cfg), NEW msg \in cfg.messages
    PROVE  /\ Select(msg) \in Int
           /\ cfg.transport = "faststream" /\ ~cfg.header /\ Channel(msg) # NoPolicy
                => Select(msg) = Channel(msg)
  <1> DEFINE chain == <<Header(msg), cfg.task, Channel(msg), cfg.default>>
             given == {i \in DOMAIN chain : chain[i] # NoPolicy}
             least == CHOOSE i \in given : \A k \in given : i <= k
  <1>1. /\ Header(msg) \in Int /\ cfg.task \in Int /\ Channel(msg) \in Int
        /\ cfg.default \in Int /\ cfg.default # NoPolicy
    BY DEF Application, Header, Channel, NoPolicy
  <1>2. /\ DOMAIN chain = 1..4 /\ chain[1] = Header(msg) /\ chain[2] = cfg.task
        /\ chain[3] = Channel(msg) /\ chain[4] = cfg.default
    OBVIOUS
  <1>3. \E i \in given : \A k \in given : i <= k
    <2>1. CASE chain[1] # NoPolicy BY <2>1, <1>2
    <2>2. CASE chain[1] = NoPolicy /\ chain[2] # NoPolicy BY <2>2, <1>2
    <2>3. CASE chain[1] = NoPolicy /\ chain[2] = NoPolicy /\ chain[3] # NoPolicy BY <2>3, <1>2
    <2>4. CASE chain[1] = NoPolicy /\ chain[2] = NoPolicy /\ chain[3] = NoPolicy
      BY <2>4, <1>1, <1>2
    <2> QED BY <2>1, <2>2, <2>3, <2>4
  <1>4. least \in given /\ \A k \in given : least <= k
    BY <1>3
  <1>5. Select(msg) = chain[least]
    BY DEF Select
  <1>6. least \in 1..4 /\ chain[least] # NoPolicy
    BY <1>4, <1>2
  <1>7. Select(msg) \in Int
    BY <1>1, <1>2, <1>5, <1>6
  <1>8. ASSUME cfg.transport = "faststream", ~cfg.header, Channel(msg) # NoPolicy
        PROVE  Select(msg) = Channel(msg)
    <2>1. chain[1] = NoPolicy /\ chain[2] = NoPolicy
      BY <1>2, <1>8 DEF Application, Header
    <2>2. 3 \in given
      BY <1>2, <1>8
    <2>3. least = 3
      BY <1>2, <1>4, <1>6, <2>1, <2>2
    <2> QED BY <1>2, <1>5, <2>3
  <1> QED BY <1>7, <1>8

\* One step more on the straight way.
LEMMA StraightOn ==
    ASSUME NEW trail \in Seq(Int), trail # << >>, NEW goal \in Int, Straight(trail, goal),
           Last(trail) # goal
    PROVE  LET next == IF Last(trail) < goal THEN Last(trail) + 1 ELSE Last(trail) - 1
               new == Append(trail, next)
           IN  /\ new \in Seq(Int) /\ new # << >> /\ new[1] = trail[1]
               /\ Straight(new, goal)
  <1> DEFINE next == IF Last(trail) < goal THEN Last(trail) + 1 ELSE Last(trail) - 1
             new == Append(trail, next)
  <1>1. Len(trail) \in Nat /\ Len(trail) >= 1 /\ Last(trail) \in Int /\ trail[1] \in Int
    BY DEF Last
  <1>2. new \in Seq(Int) /\ Len(new) = Len(trail) + 1 /\ new[1] = trail[1] /\ new[Len(new)] = next
    BY <1>1
  <1> QED BY <1>1, <1>2, SMTT(30) DEF Straight, Last

\* The fields of a job.
LEMMA Fields ==
    ASSUME NEW job \in JobRecords
    PROVE  /\ job.pc \in Pcs /\ job.msg \in Msgs /\ job.target \in Int
           /\ job.stage \in {"in", "out"} /\ job.trail \in Seq(Int) /\ job.goal \in Int
           /\ job.ran \in Seq({"active", "ok", "error", "abandoned"}) /\ job.served \in Int
           /\ job.result \in Int /\ job.body \in Int /\ job.todo \in Seq(Int)
           /\ job.sent \in Seq([policy : Int, trail : Seq(Int)])
  BY DEF JobRecords

\* What Append keeps and adds.
LEMMA AppendFacts ==
    ASSUME NEW S, NEW q \in Seq(S), NEW x \in S
    PROVE  /\ DOMAIN Append(q, x) = 1..(Len(q) + 1) /\ Len(Append(q, x)) = Len(q) + 1
           /\ Append(q, x)[Len(q) + 1] = x
           /\ \A i \in 1..Len(q) : Append(q, x)[i] = q[i]
           /\ DOMAIN q = 1..Len(q) /\ Append(q, x) # << >>
  OBVIOUS

\* A sequence is empty exactly when its length is zero.
LEMMA EmptyOrNot ==
    ASSUME NEW S, NEW q \in Seq(S) PROVE Len(q) \in Nat /\ (Len(q) = 0 <=> q = << >>)
  OBVIOUS

\* What the resolver answers is a version of the graph, or it raises.
LEMMA ResolveFacts ==
    ASSUME NEW policy, bound \in Nat, Resolve(policy, bound) # NoPolicy
    PROVE  Resolve(policy, bound) \in 0..bound /\ (bound # 0 => Known(Resolve(policy, bound)))
  BY DEF Resolve, NoPolicy, Latest, Known

\* A job that is given up outside a convergence.
LEMMA GivenUp ==
    ASSUME Application(cfg), NEW j \in Jobs, JobOK(jobs[j]), NEW p \in {"failed", "refused"},
           jobs[j].pc \in {"call", "handle", "publish"}
    PROVE  JobOK([jobs[j] EXCEPT !.pc = p])
  <1> DEFINE job == jobs[j]
             new == [job EXCEPT !.pc = p]
  <1>1. /\ job \in JobRecords /\ WayInv(job) /\ ServedInv(job) /\ OutInv(job) /\ RunsInv(job)
        /\ Len(job.ran) \in Nat /\ Len(job.sent) \in Nat /\ DOMAIN job.ran = 1..Len(job.ran)
        /\ job.pc \in {"call", "handle", "publish"}
    BY Fields DEF JobOK
  <1>2. /\ new \in JobRecords
        /\ new.pc = p /\ new.msg = job.msg /\ new.target = job.target /\ new.stage = job.stage
        /\ new.trail = job.trail /\ new.goal = job.goal /\ new.ran = job.ran
        /\ new.served = job.served /\ new.result = job.result /\ new.body = job.body
        /\ new.todo = job.todo /\ new.sent = job.sent
    BY <1>1 DEF JobRecords, Pcs
  <1> HIDE DEF new, job
  <1>3. WayInv(new)
    BY <1>2 DEF WayInv, Converging
  <1>4. ServedInv(new)
    BY <1>1, <1>2 DEF ServedInv, job
  <1>5. OutInv(new)
    BY <1>1, <1>2 DEF OutInv, Converging
  <1>6. RunsInv(new)
    <2>1. new.pc \notin Converging \cup {"idle", "call"}  /\ job.pc \notin Converging \cup {"idle"}
      BY <1>1, <1>2 DEF Converging
    <2>2. \A i \in DOMAIN job.ran : job.ran[i] # "active"
      BY <1>1, <2>1 DEF RunsInv
    <2>3. job.stage = "in" => Len(job.ran) <= 1
      BY <1>1 DEF RunsInv
    <2>4. job.stage = "out" => Len(job.ran) <= Len(job.sent) + 2
      BY <1>1 DEF RunsInv
    <2> QED BY <1>1, <1>2, <2>1, <2>2, <2>3, <2>4 DEF RunsInv
  <1> QED BY <1>2, <1>3, <1>4, <1>5, <1>6 DEF JobOK, new, job

\* HttpReceive, TaskReceive and MessageReceive: a new job is due for convergence to
\* the target selected from its message, or goes to the handler as it is.
LEMMA ReceiveKeeps ==
    ASSUME Application(cfg), cfg \in Settings, NEW j \in Jobs, JobOK(jobs[j]),
           jobs[j].pc = "idle", NEW msg \in cfg.messages, NEW pc \in {"call", "handle", "failed"},
           pc = "handle" => cfg.transport # "faststream" /\ ~msg.located
    PROVE  JobOK(Accepted(j, msg, pc))
  <1> DEFINE new == Accepted(j, msg, pc)
  <1>1. jobs[j] = Idle
    BY DEF JobOK, WayInv
  <1>2. Select(msg) \in Int /\ msg.version \in Nat /\ msg \in Msgs
    BY SelectFacts DEF Application, Msgs
  <1>3. /\ new.pc = pc /\ new.msg = msg /\ new.target = Select(msg) /\ new.stage = "in"
        /\ new.trail = <<msg.version>> /\ new.goal = 0 /\ new.ran = << >> /\ new.served = -1
        /\ new.result = -1 /\ new.body = -1 /\ new.todo = << >> /\ new.sent = << >>
    BY <1>1 DEF Accepted, Idle
  <1>a. new \in JobRecords
    <2>1. <<msg.version>> \in Seq(Int) /\ pc \in Pcs
      BY <1>2 DEF Pcs
    <2>2. Idle \in JobRecords
      BY DEF Idle, JobRecords, Pcs, Msgs, NoPolicy
    <2> QED BY <1>1, <1>2, <2>1, <2>2 DEF Accepted, JobRecords
  <1> HIDE DEF new
  <1>4. WayInv(new)
    <2>1. Len(new.trail) = 1 /\ new.trail # << >> /\ new.trail[1] = msg.version
      BY <1>3
    <2>2. ~ (new.pc = "handle" /\ (cfg.transport = "faststream" \/ new.msg.located))
      BY <1>3
    <2>3. new.pc \notin Converging \cup {"publish", "step", "idle"}
      BY <1>3 DEF Converging
    <2> QED BY <1>3, <2>1, <2>2, <2>3 DEF WayInv, Source, Converging
  <1>5. ServedInv(new)
    BY <1>3 DEF ServedInv
  <1>6. OutInv(new)
    BY <1>3 DEF OutInv, Application
  <1>7. RunsInv(new)
    BY <1>3 DEF RunsInv, Converging
  <1> QED BY <1>a, <1>3, <1>4, <1>5, <1>6, <1>7 DEF JobOK, new

\* StartRun: the goal is what the policy resolves to, and one more run is on record.
LEMMA StartRunKeeps ==
    ASSUME Application(cfg), bound \in Nat, jobs \in [Jobs -> JobRecords],
           NEW j \in Jobs, JobOK(jobs[j]), StartRun(j)
    PROVE  JobOK(jobs'[j])
  <1> DEFINE job == jobs[j]
             new == jobs'[j]
             entry == Known(job.trail[1])
             goal == IF entry THEN Resolve(Policy(job), bound) ELSE job.trail[1]
  <1>1. /\ job \in JobRecords /\ WayInv(job) /\ ServedInv(job) /\ OutInv(job) /\ RunsInv(job)
        /\ job.pc = "call" /\ job.trail \in Seq(Int)
        /\ job.ran \in Seq({"active", "ok", "error", "abandoned"}) /\ Len(job.sent) \in Nat
    BY Fields DEF JobOK, StartRun
  <1>2. PICK dropped \in BOOLEAN :
          new = [job EXCEPT !.goal = goal,
                            !.ran = Append(@, IF dropped THEN "abandoned" ELSE "active"),
                            !.pc = IF dropped THEN "failed" ELSE "running"]
    BY DEF StartRun, Put, Wanted, Policy
  <1>3. /\ Len(job.trail) = 1 /\ job.trail # << >> /\ job.trail[1] = Source(job)
        /\ job.trail[1] \in Int
    BY <1>1 DEF WayInv
  <1>4. bound # 0 /\ (entry => Resolve(Policy(job), bound) # NoPolicy)
    BY DEF StartRun, Plans, Wanted, Policy
  <1>5. goal \in Int /\ (entry => Known(goal))
    BY <1>3, <1>4, ResolveFacts
  <1>6. /\ new.pc = (IF dropped THEN "failed" ELSE "running")
        /\ new.msg = job.msg /\ new.target = job.target /\ new.stage = job.stage
        /\ new.trail = job.trail /\ new.goal = goal
        /\ new.ran = Append(job.ran, IF dropped THEN "abandoned" ELSE "active")
        /\ new.served = job.served /\ new.result = job.result /\ new.body = job.body
        /\ new.todo = job.todo /\ new.sent = job.sent
    BY <1>1, <1>2 DEF JobRecords
  <1>7. /\ new.ran \in Seq({"active", "ok", "error", "abandoned"})
        /\ Len(new.ran) = Len(job.ran) + 1 /\ DOMAIN new.ran = 1..Len(new.ran)
        /\ new.ran[Len(new.ran)] = IF dropped THEN "abandoned" ELSE "active"
        /\ \A i \in 1..Len(job.ran) : new.ran[i] = job.ran[i]
    BY <1>1, <1>6
  <1>8. new \in JobRecords
    BY <1>1, <1>2, <1>5, <1>6, <1>7 DEF JobRecords, Pcs
  <1>9. WayInv(new)
    <2>1. Policy(new) = Policy(job) /\ Source(new) = Source(job)
      BY <1>6 DEF Policy, Source
    <2>2. Straight(new.trail, new.goal)
      BY <1>3, <1>5, <1>6, SMTT(30) DEF Straight, Last
    <2>3. Aimed(new)
      BY <1>3, <1>4, <1>5, <1>6, <2>1, <2>2 DEF Aimed, Goal
    <2>4. job.target = Select(job.msg) /\ job.msg \in cfg.messages
      BY <1>1 DEF WayInv
    <2> QED BY <1>3, <1>6, <2>1, <2>3, <2>4 DEF WayInv, Converging
  <1>10. ServedInv(new)
    BY <1>1, <1>6 DEF ServedInv
  <1>11. OutInv(new)
    BY <1>1, <1>6 DEF OutInv, Converging
  <1>12. RunsInv(new)
    <2>1. new.pc \notin {"idle", "call"} /\ (new.pc \in Converging <=> ~dropped)
      BY <1>6 DEF Converging
    <2>2. \A i \in 1..Len(job.ran) : job.ran[i] # "active"
      BY <1>1 DEF RunsInv, Converging
    <2>3. Len(job.ran) \in Nat /\ new.ran # << >>
      BY <1>1, <1>7
    <2>4. \A i \in DOMAIN new.ran :
             new.ran[i] = "active" <=> i = Len(new.ran) /\ new.pc \in Converging
      BY <1>7, <2>1, <2>2, <2>3
    <2>5. /\ job.stage = "in" => Len(job.ran) = 0
          /\ job.stage = "out" => Len(job.ran) <= Len(job.sent) + 1
      BY <1>1 DEF RunsInv
    <2> QED BY <1>1, <1>6, <1>7, <2>1, <2>3, <2>4, <2>5 DEF RunsInv
  <1> QED BY <1>8, <1>9, <1>10, <1>11, <1>12 DEF JobOK

\* StepStart: a step is under way only where the goal is not reached.
LEMMA StepStartKeeps ==
    ASSUME Application(cfg), bound \in Nat, jobs \in [Jobs -> JobRecords],
           NEW j \in Jobs, JobOK(jobs[j]), NEW p \in {"step", "raising", "cancelled"},
           jobs[j].pc \in Converging,
           p = "step" => At(j) # jobs[j].goal
    PROVE  JobOK([jobs[j] EXCEPT !.pc = p])
  <1> DEFINE job == jobs[j]
             new == [job EXCEPT !.pc = p]
  <1>1. /\ job \in JobRecords /\ WayInv(job) /\ ServedInv(job) /\ OutInv(job) /\ RunsInv(job)
        /\ job.pc \in Converging /\ (p = "step" => Last(job.trail) # job.goal)
    BY DEF JobOK, At, Last
  <1>2. /\ new \in JobRecords
        /\ new.pc = p /\ new.msg = job.msg /\ new.target = job.target /\ new.stage = job.stage
        /\ new.trail = job.trail /\ new.goal = job.goal /\ new.ran = job.ran
        /\ new.served = job.served /\ new.result = job.result /\ new.body = job.body
        /\ new.todo = job.todo /\ new.sent = job.sent
    BY <1>1 DEF JobRecords, Pcs
  <1>a. new.pc \in Converging
    BY <1>2 DEF Converging
  <1>b. new.pc \notin {"idle", "call", "handle", "publish", "done", "failed"}
        /\ job.pc \notin {"idle", "call", "handle", "publish", "done", "failed"}
    BY <1>1, <1>2 DEF Converging
  <1> HIDE DEF new, job
  <1>3. WayInv(new)
    <2>1. Aimed(new)
      BY <1>1, <1>2 DEF WayInv, Aimed, Policy
    <2> QED BY <1>1, <1>2, <1>a, <1>b, <2>1 DEF WayInv, Source
  <1>4. ServedInv(new)
    BY <1>1, <1>2, <1>b DEF ServedInv
  <1>5. OutInv(new)
    BY <1>1, <1>2, <1>a, <1>b DEF OutInv
  <1>6. RunsInv(new)
    BY <1>1, <1>2, <1>a, <1>b DEF RunsInv
  <1> QED BY <1>2, <1>3, <1>4, <1>5, <1>6 DEF JobOK, new, job

\* StepDone: one version closer to the goal, on a straight way.
LEMMA StepDoneKeeps ==
    ASSUME Application(cfg), bound \in Nat, jobs \in [Jobs -> JobRecords],
           NEW j \in Jobs, JobOK(jobs[j]), StepDone(j)
    PROVE  JobOK(jobs'[j])
  <1> DEFINE job == jobs[j]
             new == jobs'[j]
             next == IF Last(job.trail) < job.goal THEN Last(job.trail) + 1 ELSE Last(job.trail) - 1
  <1>1. /\ job \in JobRecords /\ WayInv(job) /\ ServedInv(job) /\ OutInv(job) /\ RunsInv(job)
        /\ job.pc = "step" /\ job.trail \in Seq(Int) /\ job.goal \in Int
    BY Fields DEF JobOK, StepDone
  <1>2. new = [job EXCEPT !.pc = "running", !.trail = Append(@, next)]
    BY DEF StepDone, Put, At, Last
  <1>3. job.trail # << >> /\ Straight(job.trail, job.goal) /\ Last(job.trail) # job.goal
    BY <1>1 DEF WayInv, Converging, Aimed
  <1>4. /\ Append(job.trail, next) \in Seq(Int) /\ Append(job.trail, next) # << >>
        /\ Append(job.trail, next)[1] = job.trail[1] /\ Straight(Append(job.trail, next), job.goal)
    BY <1>1, <1>3, StraightOn
  <1>5. /\ new \in JobRecords
        /\ new.pc = "running" /\ new.msg = job.msg /\ new.target = job.target
        /\ new.stage = job.stage /\ new.trail = Append(job.trail, next) /\ new.goal = job.goal
        /\ new.ran = job.ran /\ new.served = job.served /\ new.result = job.result
        /\ new.body = job.body /\ new.todo = job.todo /\ new.sent = job.sent
    BY <1>1, <1>2, <1>4 DEF JobRecords, Pcs
  <1> HIDE DEF new, job, next
  <1>6. WayInv(new)
    <2>1. Aimed(new)
      BY <1>1, <1>4, <1>5 DEF WayInv, Converging, Aimed, Policy
    <2> QED BY <1>1, <1>4, <1>5, <2>1 DEF WayInv, Converging, Source
  <1>7. ServedInv(new)
    BY <1>1, <1>5 DEF ServedInv
  <1>8. OutInv(new)
    BY <1>1, <1>5 DEF OutInv, Converging
  <1>9. RunsInv(new)
    BY <1>1, <1>5 DEF RunsInv, Converging
  <1> QED BY <1>5, <1>6, <1>7, <1>8, <1>9 DEF JobOK, new

\* A run that ends, well or not, at pc.
LEMMA RunEndKeeps ==
    ASSUME Application(cfg), bound \in Nat, jobs \in [Jobs -> JobRecords],
           NEW j \in Jobs, JobOK(jobs[j]), jobs[j].pc \in Converging,
           NEW outcome \in {"ok", "error"}, NEW p \in {"failed", "handle", "publish"},
           p = "handle" => jobs[j].stage = "in" /\ At(j) = jobs[j].goal,
           p = "publish" => jobs[j].stage = "out" /\ At(j) = jobs[j].goal
    PROVE  JobOK([RunEnds(j, outcome) EXCEPT !.pc = p])
  <1> DEFINE job == jobs[j]
             new == [RunEnds(j, outcome) EXCEPT !.pc = p]
  <1>1. /\ job \in JobRecords /\ WayInv(job) /\ ServedInv(job) /\ OutInv(job) /\ RunsInv(job)
        /\ job.pc \in Converging /\ (p # "failed" => Last(job.trail) = job.goal)
        /\ p = "handle" => job.stage = "in"
        /\ p = "publish" => job.stage = "out"
        /\ job.ran \in Seq({"active", "ok", "error", "abandoned"}) /\ Len(job.sent) \in Nat
        /\ job.stage \in {"in", "out"}
    BY Fields DEF JobOK, At, Last
  <1>2. job.ran # << >> /\ Len(job.ran) \in Nat /\ Len(job.ran) >= 1
    BY <1>1 DEF RunsInv
  <1>3. /\ new.pc = p /\ new.msg = job.msg /\ new.target = job.target
        /\ new.stage = job.stage /\ new.trail = job.trail /\ new.goal = job.goal
        /\ new.ran = [job.ran EXCEPT ![Len(job.ran)] = outcome]
        /\ new.served = job.served /\ new.result = job.result
        /\ new.body = job.body /\ new.todo = job.todo /\ new.sent = job.sent
    BY <1>1 DEF RunEnds, Run, JobRecords
  <1>4. /\ new.ran \in Seq({"active", "ok", "error", "abandoned"}) /\ Len(new.ran) = Len(job.ran)
        /\ DOMAIN new.ran = 1..Len(job.ran) /\ new.ran[Len(job.ran)] = outcome
        /\ \A i \in 1..Len(job.ran) : i # Len(job.ran) => new.ran[i] = job.ran[i]
    BY <1>1, <1>2, <1>3
  <1>5. new \in JobRecords
    <2>1. new = [job EXCEPT !.ran = new.ran, !.pc = p]
      BY <1>1, <1>3 DEF RunEnds, Run, JobRecords
    <2>2. p \in Pcs
      BY DEF Pcs
    <2> QED BY <1>1, <1>4, <2>1, <2>2 DEF JobRecords
  <1>a. new.pc \notin Converging /\ new.pc \notin {"idle", "call", "done", "step"}
        /\ job.pc \notin {"idle", "call", "done", "handle", "publish", "failed"}
    BY <1>1, <1>3 DEF Converging
  <1> HIDE DEF new, job
  <1>6. WayInv(new)
    <2>1. Aimed(new)
      BY <1>1, <1>3 DEF WayInv, Aimed, Policy
    <2> QED BY <1>1, <1>3, <1>a, <2>1 DEF WayInv, Source
  <1>7. ServedInv(new)
    BY <1>1, <1>3, <1>a DEF ServedInv
  <1>8. OutInv(new)
    <2>1. ASSUME new.stage = "out", new.pc \in Converging \cup {"call", "publish"}
          PROVE  job.stage = "out" /\ job.pc \in Converging \cup {"call", "publish"}
      BY <1>1, <1>3, <2>1
    <2>2. new.pc # "done"
      BY <1>a
    <2> QED BY <1>1, <1>3, <2>1, <2>2, ZenonT(40) DEF OutInv
  <1>9. RunsInv(new)
    <2>1. \A i \in DOMAIN new.ran : new.ran[i] # "active"
      BY <1>1, <1>2, <1>4 DEF RunsInv
    <2>2. /\ job.stage = "in" => Len(job.ran) <= 1
          /\ job.stage = "out" => Len(job.ran) <= Len(job.sent) + 2
      BY <1>1, <1>a DEF RunsInv
    <2> QED BY <1>1, <1>3, <1>4, <1>a, <2>1, <2>2 DEF RunsInv
  <1> QED BY <1>5, <1>6, <1>7, <1>8, <1>9 DEF JobOK, new

\* The handlers: what was served and what is to be sent are on record.
LEMMA ReturnsKeeps ==
    ASSUME Application(cfg), bound \in Nat, jobs \in [Jobs -> JobRecords],
           NEW j \in Jobs, JobOK(jobs[j]), NEW result \in cfg.results, NEW outputs \in Seq(Int),
           Returns(j, result, outputs),
           result # -1 => \/ outputs = cfg.outputs
                          \/ cfg.outputs = << >> /\ outputs = <<jobs[j].target>>,
           result = -1 => outputs = << >>
    PROVE  JobOK(jobs'[j])
  <1> DEFINE job == jobs[j]
             new == jobs'[j]
  <1>1. /\ job \in JobRecords /\ WayInv(job) /\ ServedInv(job) /\ OutInv(job) /\ RunsInv(job)
        /\ job.pc = "handle" /\ job.trail \in Seq(Int) /\ Len(job.ran) \in Nat
        /\ job.ran \in Seq({"active", "ok", "error", "abandoned"})
        /\ Len(cfg.outputs) \in Nat /\ DOMAIN cfg.outputs = 1..Len(cfg.outputs)
        /\ result \in Int
    BY Fields DEF JobOK, Returns, Application
  <1>2. new = [job EXCEPT
                !.pc = IF outputs = << >> THEN "done" ELSE "call",
                !.stage = "out", !.served = At(j), !.result = result, !.body = result,
                !.todo = outputs, !.trail = <<result>>]
    BY DEF Returns, Put
  <1>3. job.stage = "in" /\ job.trail # << >> /\ At(j) = Last(job.trail) /\ At(j) \in Int
    BY <1>1 DEF WayInv, At, Last
  <1>a. /\ (IF outputs = << >> THEN "done" ELSE "call") \in Pcs /\ <<result>> \in Seq(Int)
    BY <1>1 DEF Pcs
  <1>b. new \in JobRecords
    BY <1>1, <1>2, <1>3, <1>a, ZenonT(40) DEF JobRecords
  <1>4. /\ new \in JobRecords
        /\ new.pc = (IF outputs = << >> THEN "done" ELSE "call")
        /\ new.msg = job.msg /\ new.target = job.target
        /\ new.stage = "out" /\ new.trail = <<result>> /\ new.goal = job.goal
        /\ new.ran = job.ran /\ new.served = Last(job.trail) /\ new.result = result
        /\ new.body = result /\ new.todo = outputs /\ new.sent = job.sent
    BY <1>1, <1>2, <1>3, <1>b DEF JobRecords
  <1>5. job.sent = << >> /\ Len(new.sent) = 0
    BY <1>1, <1>3, <1>4 DEF ServedInv
  <1>6. Len(new.trail) = 1 /\ new.trail # << >> /\ new.trail[1] = result
    BY <1>1, <1>4
  <1> HIDE DEF new, job
  <1>7. WayInv(new)
    BY <1>1, <1>4, <1>6 DEF WayInv, Converging, Source
  <1>8. ServedInv(new)
    <2>1. ASSUME job.msg.located
          PROVE  bound # 0 /\ (Known(job.msg.version) => Last(job.trail) = Resolve(job.target, bound))
      BY <1>1, <1>3, <2>1 DEF WayInv, Aimed, Goal, Source, Policy
    <2> QED BY <1>4, <2>1 DEF ServedInv
  <1>9. OutInv(new)
    <2>1. new.pc \in Converging \cup {"call", "publish"} => outputs # << >> /\ result # -1
      BY <1>4 DEF Converging
    <2>2. new.pc = "done" => outputs = << >>
      BY <1>4
    <2>3. DOMAIN new.sent = {}
      BY <1>4, <1>5
    <2>4. new.pc = "done" /\ new.result # -1 => Len(new.sent) >= Len(cfg.outputs)
      BY <1>1, <1>4, <1>5, <2>2
    <2>5. ASSUME new.pc \in Converging \cup {"call", "publish"}
          PROVE  IF cfg.outputs = << >>
                 THEN new.sent = << >> /\ new.todo = <<new.target>>
                 ELSE /\ Len(new.sent) + Len(new.todo) = Len(cfg.outputs)
                      /\ \A i \in DOMAIN new.todo : new.todo[i] = cfg.outputs[Len(new.sent) + i]
      BY <1>1, <1>4, <1>5, <2>1, <2>5 DEF job
    <2> QED BY <1>1, <1>4, <1>5, <2>1, <2>3, <2>4, <2>5 DEF OutInv
  <1>10. RunsInv(new)
    <2>1. \A i \in DOMAIN job.ran : job.ran[i] # "active"
      BY <1>1 DEF RunsInv, Converging
    <2>2. Len(job.ran) <= 1
      BY <1>1, <1>3 DEF RunsInv
    <2> QED BY <1>1, <1>4, <1>5, <2>1, <2>2 DEF RunsInv, Converging
  <1> QED BY <1>4, <1>7, <1>8, <1>9, <1>10 DEF JobOK, new

\* HandlerFails: the handler had been served.
LEMMA HandlerFailsKeeps ==
    ASSUME Application(cfg), bound \in Nat, jobs \in [Jobs -> JobRecords],
           NEW j \in Jobs, JobOK(jobs[j]), HandlerFails(j)
    PROVE  JobOK(jobs'[j])
  <1> DEFINE job == jobs[j]
             new == jobs'[j]
  <1>1. /\ job \in JobRecords /\ WayInv(job) /\ ServedInv(job) /\ OutInv(job) /\ RunsInv(job)
        /\ job.pc = "handle" /\ job.trail \in Seq(Int)
    BY Fields DEF JobOK, HandlerFails
  <1>2. new = [job EXCEPT !.pc = "failed", !.served = At(j)]
    BY DEF HandlerFails, Put
  <1>3. job.stage = "in" /\ job.trail # << >> /\ At(j) = Last(job.trail) /\ At(j) \in Int
    BY <1>1 DEF WayInv, At, Last
  <1>4. "failed" \in Pcs
    BY DEF Pcs
  <1>5. /\ new \in JobRecords
        /\ new.pc = "failed" /\ new.msg = job.msg /\ new.target = job.target
        /\ new.stage = job.stage /\ new.trail = job.trail /\ new.goal = job.goal
        /\ new.ran = job.ran /\ new.served = Last(job.trail) /\ new.result = job.result
        /\ new.body = job.body /\ new.todo = job.todo /\ new.sent = job.sent
    BY <1>1, <1>2, <1>3, <1>4, ZenonT(40) DEF JobRecords
  <1> HIDE DEF new, job
  <1>6. WayInv(new)
    BY <1>5 DEF WayInv, Converging
  <1>7. ServedInv(new)
    <2>1. ASSUME job.msg.located
          PROVE  bound # 0 /\ (Known(job.msg.version) => Last(job.trail) = Resolve(job.target, bound))
      BY <1>1, <1>3, <2>1 DEF WayInv, Aimed, Goal, Source, Policy
    <2> QED BY <1>1, <1>5, <2>1 DEF ServedInv
  <1>8. OutInv(new)
    BY <1>1, <1>3, <1>5 DEF OutInv, Converging
  <1>9. RunsInv(new)
    BY <1>1, <1>3, <1>5 DEF RunsInv, Converging
  <1> QED BY <1>5, <1>6, <1>7, <1>8, <1>9 DEF JobOK, new

\* What is sent arrived at the version of its target, straight from the body.
LEMMA SentFacts ==
    ASSUME Application(cfg), bound \in Nat, NEW j \in Jobs, JobOK(jobs[j]),
           jobs[j].pc = "publish"
    PROVE  LET job == jobs[j]
               n == Len(job.sent) + 1
               policy == IF cfg.outputs = << >> THEN job.target ELSE cfg.outputs[n]
           IN  /\ Sent(j) \in [policy : Int, trail : Seq(Int)]
               /\ Sent(j).trail = job.trail /\ job.trail # << >>
               /\ job.trail \in Seq(Int) /\ job.todo \in Seq(Int) /\ job.todo # << >>
               /\ bound # 0 /\ job.stage = "out" /\ Last(job.trail) = At(j) /\ At(j) \in Int
               /\ Known(job.result) => At(j) = Resolve(policy, bound) /\ Known(At(j))
               /\ ~Known(job.result) /\ job.body = job.result => At(j) = job.result
               /\ Known(At(j)) => At(j) = Resolve(policy, bound)
               /\ Straight(job.trail, At(j))
               /\ cfg.copy = "deep" => job.trail[1] = job.result
               /\ IF cfg.outputs = << >> THEN Len(job.sent) = 0 /\ Len(job.todo) = 1
                  ELSE Len(job.sent) + Len(job.todo) = Len(cfg.outputs)
  <1> DEFINE job == jobs[j]
             n == Len(job.sent) + 1
             policy == IF cfg.outputs = << >> THEN job.target ELSE cfg.outputs[n]
  <1>1. /\ job \in JobRecords /\ WayInv(job) /\ ServedInv(job) /\ OutInv(job)
        /\ job.pc = "publish" /\ job.trail \in Seq(Int) /\ job.todo \in Seq(Int)
        /\ Len(job.sent) \in Nat /\ Len(cfg.outputs) \in Nat
    BY Fields DEF JobOK, Application
  <1>2. /\ job.trail # << >> /\ job.trail[1] = job.body /\ job.stage = "out"
        /\ Aimed(job) /\ Last(job.trail) = job.goal
    BY <1>1 DEF WayInv, Source
  <1>3. /\ job.todo # << >> /\ (job.body = job.result \/ Known(job.body))
        /\ cfg.copy = "deep" => job.body = job.result
        /\ IF cfg.outputs = << >>
           THEN job.sent = << >> /\ job.todo = <<job.target>>
           ELSE /\ Len(job.sent) + Len(job.todo) = Len(cfg.outputs)
                /\ \A i \in DOMAIN job.todo : job.todo[i] = cfg.outputs[Len(job.sent) + i]
    BY <1>1, <1>2 DEF OutInv
  <1>4. Head(job.todo) = policy /\ Head(job.todo) \in Int
    <2>1. 1 \in DOMAIN job.todo /\ Head(job.todo) = job.todo[1]
      BY <1>1, <1>3
    <2>2. job.todo[1] \in Int
      BY <1>1, <2>1
    <2>3. CASE cfg.outputs = << >>
      BY <1>3, <2>1, <2>2, <2>3
    <2>4. CASE cfg.outputs # << >>
      BY <1>3, <2>1, <2>2, <2>4
    <2> QED BY <2>3, <2>4
  <1>5. Sent(j) \in [policy : Int, trail : Seq(Int)] /\ Sent(j).trail = job.trail
    BY <1>1, <1>4 DEF Sent
  <1>6. Last(job.trail) = At(j) /\ At(j) \in Int
    BY <1>1, <1>2 DEF Last, At
  <1>7. job.goal = Goal(job.body, policy) /\ bound # 0 /\ Straight(job.trail, job.goal)
        /\ (Known(job.body) => Known(job.goal))
    BY <1>2, <1>4 DEF Aimed, Policy
  <1>8. Known(job.result) => Known(job.body)
    BY <1>3
  <1>9. /\ Known(job.result) => At(j) = Resolve(policy, bound) /\ Known(At(j))
        /\ ~Known(job.result) /\ job.body = job.result => At(j) = job.result
        /\ Known(At(j)) => At(j) = Resolve(policy, bound)
    BY <1>2, <1>6, <1>7, <1>8 DEF Goal
  <1>10. /\ cfg.copy = "deep" => job.trail[1] = job.result
    BY <1>2, <1>3
  <1>11. IF cfg.outputs = << >> THEN Len(job.sent) = 0 /\ Len(job.todo) = 1
         ELSE Len(job.sent) + Len(job.todo) = Len(cfg.outputs)
    <2>1. cfg.outputs = << >> => job.sent = << >> /\ job.todo = <<job.target>>
      BY <1>3
    <2>2. Len(<< >>) = 0 /\ Len(<<job.target>>) = 1
      OBVIOUS
    <2> QED BY <1>3, <2>1, <2>2
  <1>12. Straight(job.trail, At(j))
    BY <1>2, <1>6, <1>7
  <1> HIDE DEF policy
  <1> QED BY <1>1, <1>2, <1>3, <1>5, <1>6, <1>7, <1>9, <1>10, <1>11, <1>12 DEF policy

\* Respond: the one result has gone out at its target's version.
LEMMA RespondKeeps ==
    ASSUME Application(cfg), bound \in Nat, jobs \in [Jobs -> JobRecords],
           NEW j \in Jobs, JobOK(jobs[j]), Respond(j)
    PROVE  JobOK(jobs'[j])
  <1> DEFINE job == jobs[j]
             new == jobs'[j]
             policy == IF cfg.outputs = << >> THEN job.target ELSE cfg.outputs[1]
  <1>1. /\ job \in JobRecords /\ ServedInv(job) /\ RunsInv(job) /\ job.pc = "publish"
        /\ Len(job.ran) \in Nat /\ Len(job.sent) \in Nat
        /\ job.ran \in Seq({"active", "ok", "error", "abandoned"})
        /\ Len(cfg.outputs) \in Nat
    BY Fields DEF JobOK, Respond, Application
  <1>2. new = [job EXCEPT !.pc = "done", !.todo = << >>, !.sent = <<Sent(j)>>]
    BY DEF Respond, Put
  <1>3. /\ Sent(j) \in [policy : Int, trail : Seq(Int)] /\ Sent(j).trail = job.trail
        /\ job.trail # << >> /\ bound # 0 /\ job.stage = "out" /\ Last(job.trail) = At(j)
        /\ Straight(job.trail, At(j)) /\ (cfg.copy = "deep" => job.trail[1] = job.result)
    BY <1>1, SentFacts
  <1>4. Len(cfg.outputs) <= 1
    BY DEF Respond, Application
  <1>5. Len(job.sent) = 0
    <2> DEFINE ns == Len(job.sent)
               nt == Len(job.todo)
               no == Len(cfg.outputs)
    <2>1. job.todo \in Seq(Int) /\ job.todo # << >>
      BY <1>1, SentFacts
    <2>2. ns \in Nat /\ nt \in Nat /\ nt >= 1 /\ no \in Nat /\ no <= 1
      BY <1>1, <1>4, <2>1
    <2>3. ns = 0 \/ ns + nt = no
      BY <1>1, SentFacts
    <2> HIDE DEF ns, nt, no
    <2>4. ns = 0
      BY <2>2, <2>3
    <2> QED BY <2>4 DEF ns
  <1>6. Known(job.result) => At(j) = Resolve(policy, bound)
    <2>1. Known(job.result) =>
             At(j) = Resolve(IF cfg.outputs = << >> THEN job.target
                             ELSE cfg.outputs[Len(job.sent) + 1], bound)
      BY <1>1, SentFacts
    <2>2. Len(job.sent) + 1 = 1
      BY <1>5
    <2> QED BY <2>1, <2>2
  <1>7. "done" \in Pcs /\ <<Sent(j)>> \in Seq([policy : Int, trail : Seq(Int)])
        /\ << >> \in Seq(Int)
    BY <1>3 DEF Pcs
  <1>8. /\ new \in JobRecords
        /\ new.pc = "done" /\ new.msg = job.msg /\ new.target = job.target
        /\ new.stage = job.stage /\ new.ran = job.ran /\ new.served = job.served
        /\ new.result = job.result /\ new.sent = <<Sent(j)>>
    BY <1>1, <1>2, <1>7, ZenonT(40) DEF JobRecords
  <1>9. DOMAIN new.sent = {1} /\ Len(new.sent) = 1 /\ new.sent[1].trail = job.trail
    BY <1>3, <1>8
  <1> HIDE DEF new, job, policy
  <1>10. WayInv(new)
    BY <1>8 DEF WayInv, Converging
  <1>11. ServedInv(new)
    BY <1>1, <1>3, <1>8 DEF ServedInv
  <1>12. OutInv(new)
    <2>1. new.pc \notin Converging \cup {"call", "publish"}
      BY <1>8 DEF Converging
    <2>2. cfg.outputs = << >> \/ Len(cfg.outputs) >= 1
      BY <1>1 DEF Application
    <2>3. ASSUME NEW i \in DOMAIN new.sent
          PROVE  LET trail == new.sent[i].trail
                     p == IF cfg.outputs = << >> THEN new.target ELSE cfg.outputs[i]
                 IN  /\ bound # 0 /\ trail # << >>
                     /\ Known(new.result) => Last(trail) = Resolve(p, bound)
                     /\ Straight(trail, Last(trail))
                     /\ cfg.copy = "deep" => trail[1] = new.result
      BY <1>3, <1>6, <1>8, <1>9 DEF policy
    <2> QED BY <1>1, <1>4, <1>8, <1>9, <2>1, <2>2, <2>3 DEF OutInv
  <1>13. RunsInv(new)
    <2>1. \A i \in DOMAIN job.ran : job.ran[i] # "active"
      BY <1>1 DEF RunsInv, Converging
    <2>2. Len(job.ran) <= 2
      BY <1>1, <1>3, <1>5 DEF RunsInv
    <2> QED BY <1>1, <1>3, <1>8, <1>9, <2>1, <2>2 DEF RunsInv, Converging
  <1> QED BY <1>8, <1>10, <1>11, <1>12, <1>13 DEF JobOK, new

\* Publish: one route is served and the next starts from the caller's payload.
LEMMA PublishKeeps ==
    ASSUME Application(cfg), bound \in Nat, jobs \in [Jobs -> JobRecords],
           NEW j \in Jobs, JobOK(jobs[j]), Publish(j)
    PROVE  JobOK(jobs'[j])
  <1> DEFINE job == jobs[j]
             new == jobs'[j]
             rest == Tail(job.todo)
             body == Copy(job.body, At(j))
             ns == Len(job.sent)
             nt == Len(job.todo)
             nr == Len(rest)
             no == Len(cfg.outputs)
             n == ns + 1
             policy == IF cfg.outputs = << >> THEN job.target ELSE cfg.outputs[n]
             pc == IF rest = << >> THEN "done" ELSE "call"
  <1>1. /\ job \in JobRecords /\ ServedInv(job) /\ RunsInv(job) /\ OutInv(job) /\ WayInv(job)
        /\ job.pc = "publish"
        /\ Len(job.ran) \in Nat /\ Len(job.sent) \in Nat /\ job.body \in Int
        /\ job.ran \in Seq({"active", "ok", "error", "abandoned"})
        /\ job.sent \in Seq([policy : Int, trail : Seq(Int)])
        /\ Len(cfg.outputs) \in Nat
    BY Fields DEF JobOK, Publish, Application
  <1>2. new = [job EXCEPT !.pc = pc, !.todo = rest, !.sent = Append(@, Sent(j)),
                          !.body = body, !.trail = <<body>>]
    BY DEF Publish, Put
  <1>3. /\ Sent(j) \in [policy : Int, trail : Seq(Int)] /\ Sent(j).trail = job.trail
        /\ job.trail # << >> /\ bound # 0 /\ job.stage = "out" /\ Last(job.trail) = At(j)
        /\ Straight(job.trail, At(j)) /\ (cfg.copy = "deep" => job.trail[1] = job.result)
        /\ job.todo \in Seq(Int) /\ job.todo # << >> /\ At(j) \in Int
    BY <1>1, SentFacts
  <1>4. /\ Known(job.result) => At(j) = Resolve(policy, bound) /\ Known(At(j))
        /\ ~Known(job.result) /\ job.body = job.result => At(j) = job.result
        /\ IF cfg.outputs = << >> THEN ns = 0 /\ nt = 1 ELSE ns + nt = no
    BY <1>1, SentFacts
  <1>5. /\ job.body = job.result \/ Known(job.body)
        /\ cfg.copy = "deep" => job.body = job.result
        /\ cfg.outputs # << >> =>
              \A i \in DOMAIN job.todo : job.todo[i] = cfg.outputs[ns + i]
        /\ job.target = Select(job.msg) /\ job.msg \in cfg.messages
    BY <1>1, <1>3 DEF OutInv, WayInv
  <1>c. job.todo \in Seq(Int) /\ job.todo # << >>
    BY <1>3
  <1>6. /\ rest \in Seq(Int) /\ nr = nt - 1 /\ nt \in Nat /\ nt >= 1 /\ nr \in Nat
        /\ DOMAIN rest = 1..nr
        /\ \A i \in 1..nr : rest[i] = job.todo[i + 1] /\ i + 1 \in DOMAIN job.todo
    BY <1>c
  <1>a. ns \in Nat /\ no \in Nat /\ (cfg.outputs = << >> => no = 0)
    BY <1>1
  <1>7. body \in Int /\ <<body>> \in Seq(Int) /\ pc \in Pcs
        /\ Append(job.sent, Sent(j)) \in Seq([policy : Int, trail : Seq(Int)])
    BY <1>1, <1>3 DEF Copy, Pcs
  <1>8. /\ new \in JobRecords
        /\ new.pc = pc /\ new.msg = job.msg /\ new.target = job.target
        /\ new.stage = job.stage /\ new.ran = job.ran /\ new.served = job.served
        /\ new.result = job.result /\ new.sent = Append(job.sent, Sent(j))
        /\ new.body = body /\ new.trail = <<body>> /\ new.todo = rest
    BY <1>1, <1>2, <1>6, <1>7, ZenonT(40) DEF JobRecords
  <1>9. /\ DOMAIN new.sent = 1..n /\ Len(new.sent) = n /\ new.sent[n].trail = job.trail
        /\ \A i \in 1..ns : new.sent[i] = job.sent[i]
        /\ DOMAIN job.sent = 1..ns /\ new.sent # << >>
    <2> DEFINE msgs == [policy : Int, trail : Seq(Int)]
    <2>1. job.sent \in Seq(msgs) /\ Sent(j) \in msgs
      BY <1>1, <1>3
    <2> HIDE DEF msgs
    <2>2. /\ DOMAIN new.sent = 1..n /\ Len(new.sent) = n /\ new.sent[n] = Sent(j)
          /\ \A i \in 1..ns : new.sent[i] = job.sent[i]
          /\ DOMAIN job.sent = 1..ns /\ new.sent # << >>
      BY <1>8, <2>1, AppendFacts, SMTT(30)
    <2> QED BY <1>3, <2>2
  <1>10. Len(new.trail) = 1 /\ new.trail # << >> /\ new.trail[1] = body
    BY <1>8
  <1>11. /\ body = job.result \/ Known(body)
         /\ cfg.copy = "deep" => body = job.result
    <2>1. ~Known(job.body) => job.body = job.result
      BY <1>5
    <2>2. Known(job.body) => Known(At(j))
      BY <1>1, <1>3 DEF WayInv, Aimed, Source
    <2>3. ~Known(job.body) => At(j) = job.result
      BY <1>4, <2>1
    <2> QED BY <1>5, <2>1, <2>2, <2>3 DEF Copy
  <1>12. pc \in {"done", "call"} /\ (pc = "call" => rest # << >>)
         /\ (pc = "done" => rest = << >>)
    OBVIOUS
  <1>b. rest = << >> <=> nr = 0
    BY <1>6, EmptyOrNot
  <1> HIDE DEF new, job, policy, rest, body, pc, ns, nt, nr, no
  <1>13. WayInv(new)
    BY <1>3, <1>5, <1>8, <1>10, <1>12 DEF WayInv, Converging, Source
  <1>14. ServedInv(new)
    BY <1>1, <1>3, <1>8 DEF ServedInv
  <1>15. OutInv(new)
    <2>1. ASSUME pc = "call"
          PROVE  cfg.outputs # << >> /\ n + nr = no
                 /\ \A i \in DOMAIN rest : rest[i] = cfg.outputs[n + i]
      <3>1. cfg.outputs # << >>
        BY <1>4, <1>6, <1>12, <1>b, <2>1
      <3>2. ns + nt = no
        BY <1>4, <3>1
      <3>3. n + nr = no
        BY <1>a, <1>6, <3>2
      <3>4. ASSUME NEW i \in DOMAIN rest PROVE rest[i] = cfg.outputs[n + i]
        <4>1. rest[i] = job.todo[i + 1] /\ i + 1 \in DOMAIN job.todo /\ i \in Nat
          BY <1>6
        <4>2. job.todo[i + 1] = cfg.outputs[ns + (i + 1)]
          BY <1>5, <3>1, <4>1
        <4>3. ns + (i + 1) = n + i
          BY <1>a, <4>1
        <4> QED BY <4>1, <4>2, <4>3
      <3> QED BY <3>1, <3>3, <3>4
    <2>2. cfg.outputs = << >> => n <= 1
      BY <1>a, <1>4
    <2>3. n <= no \/ cfg.outputs = << >>
      BY <1>a, <1>4, <1>6
    <2>4. pc = "done" => n >= no
      BY <1>a, <1>b, <1>4, <1>6, <1>12
    <2>5. ASSUME NEW i \in DOMAIN new.sent
          PROVE  LET trail == new.sent[i].trail
                     p == IF cfg.outputs = << >> THEN new.target ELSE cfg.outputs[i]
                 IN  /\ bound # 0 /\ trail # << >>
                     /\ Known(new.result) => Last(trail) = Resolve(p, bound)
                     /\ Straight(trail, Last(trail))
                     /\ cfg.copy = "deep" => trail[1] = new.result
      <3>1. CASE i = n
        BY <1>3, <1>4, <1>8, <1>9, <3>1 DEF policy
      <3>2. CASE i # n
        <4>1. i \in 1..ns /\ new.sent[i] = job.sent[i]
          BY <1>a, <1>9, <3>2
        <4> QED BY <1>1, <1>8, <1>9, <4>1 DEF OutInv
      <3> QED BY <3>1, <3>2
    <2>6. new.pc \in Converging \cup {"call", "publish"} => pc = "call"
      BY <1>8, <1>12 DEF Converging
    <2> QED BY <1>8, <1>9, <1>11, <1>12, <2>1, <2>2, <2>3, <2>4, <2>5, <2>6 DEF OutInv, nr, no
  <1>16. RunsInv(new)
    <2>1. \A i \in DOMAIN job.ran : job.ran[i] # "active"
      BY <1>1 DEF RunsInv, Converging
    <2>2. Len(job.ran) <= ns + 2
      BY <1>1, <1>3 DEF RunsInv, ns
    <2>3. new.pc \notin Converging
      BY <1>8, <1>12 DEF Converging
    <2>4. Len(job.ran) <= n + 1
      BY <1>1, <1>a, <2>2
    <2>5. Len(new.ran) <= Len(new.sent) + 2 /\ Len(new.ran) <= Len(new.sent) + 1
      BY <1>1, <1>8, <1>9, <1>a, <2>4
    <2> QED BY <1>3, <1>8, <2>1, <2>3, <2>5 DEF RunsInv
  <1> QED BY <1>8, <1>13, <1>14, <1>15, <1>16 DEF JobOK, new

-----------------------------------------------------------------------------
\* A step of a job touches this job and the telemetry.
LEMMA JobStepFrame ==
    ASSUME jobs \in [Jobs -> JobRecords], NEW j \in Jobs, JobStep(j)
    PROVE  /\ cfg' = cfg /\ models' = models /\ bound' = bound /\ annotation' = annotation
           /\ worker' = worker
           /\ DOMAIN jobs' = Jobs /\ \A k \in Jobs \ {j} : jobs'[k] = jobs[k]
           /\ jobs' = [jobs EXCEPT ![j] = jobs'[j]]
  <1>1. /\ cfg' = cfg /\ models' = models /\ bound' = bound /\ annotation' = annotation
        /\ worker' = worker
    BY DEF JobStep, HttpReceive, TaskReceive, MessageReceive, Receives, PlanFails, StartRun,
           StepStart, StepDone, StepFails, FailRun, FinishRun, Refuse, HandlerFails, HttpHandle,
           TaskHandle, MessageHandle, Returns, Respond, Publish, PublishFails
  <1>2. \E new : jobs' = [jobs EXCEPT ![j] = new]
    BY DEF JobStep, HttpReceive, TaskReceive, MessageReceive, Receives, PlanFails, StartRun,
           StepStart, StepDone, StepFails, FailRun, FinishRun, Refuse, HandlerFails, HttpHandle,
           TaskHandle, MessageHandle, Returns, Respond, Publish, PublishFails, Put, Fails
  <1> QED BY <1>1, <1>2

\* Every step of a job keeps what is known of it.
LEMMA JobStepKeeps ==
    ASSUME TypeInv, JobInv, NEW j \in Jobs, JobStep(j)
    PROVE  JobOK(jobs'[j])
  <1>1. /\ Application(cfg) /\ cfg \in Settings /\ bound \in Nat /\ jobs \in [Jobs -> JobRecords]
        /\ JobOK(jobs[j])
    BY CfgFacts, DeliveryAssumption DEF TypeInv, JobInv
  <1>2. ASSUME NEW new, jobs' = [jobs EXCEPT ![j] = new] PROVE jobs'[j] = new
    BY <1>1, <1>2
  <1>3. CASE HttpReceive(j)
    <2>1. PICK msg \in cfg.messages :
             jobs' = [jobs EXCEPT ![j] = Accepted(j, msg, IF msg.located THEN "call" ELSE "handle")]
      BY <1>3 DEF HttpReceive, Put
    <2>2. jobs[j].pc = "idle" /\ cfg.transport = "httpx"
      BY <1>3 DEF HttpReceive, Receives
    <2> DEFINE pc == IF msg.located THEN "call" ELSE "handle"
    <2>3. pc \in {"call", "handle", "failed"}
          /\ (pc = "handle" => cfg.transport # "faststream" /\ ~msg.located)
      BY <2>2
    <2> HIDE DEF pc
    <2>4. JobOK(Accepted(j, msg, pc))
      BY <1>1, <2>2, <2>3, ReceiveKeeps
    <2> QED BY <1>2, <2>1, <2>4 DEF pc
  <1>4. CASE TaskReceive(j)
    <2>1. PICK msg \in cfg.messages :
             jobs' = [jobs EXCEPT ![j] = Accepted(j, msg, IF msg.located THEN "call" ELSE "handle")]
      BY <1>4 DEF TaskReceive, Put
    <2>2. jobs[j].pc = "idle" /\ cfg.transport = "celery"
      BY <1>4 DEF TaskReceive, Receives
    <2> DEFINE pc == IF msg.located THEN "call" ELSE "handle"
    <2>3. pc \in {"call", "handle", "failed"}
          /\ (pc = "handle" => cfg.transport # "faststream" /\ ~msg.located)
      BY <2>2
    <2> HIDE DEF pc
    <2>4. JobOK(Accepted(j, msg, pc))
      BY <1>1, <2>2, <2>3, ReceiveKeeps
    <2> QED BY <1>2, <2>1, <2>4 DEF pc
  <1>5. CASE MessageReceive(j)
    <2>1. PICK msg \in cfg.messages :
             jobs' = [jobs EXCEPT ![j] =
                        Accepted(j, msg, IF Select(msg) = Malformed THEN "failed" ELSE "call")]
      BY <1>5 DEF MessageReceive, Put
    <2>2. jobs[j].pc = "idle"
      BY <1>5 DEF MessageReceive, Receives
    <2> DEFINE pc == IF Select(msg) = Malformed THEN "failed" ELSE "call"
    <2>3. pc \in {"call", "handle", "failed"} /\ pc # "handle"
      OBVIOUS
    <2> HIDE DEF pc
    <2>4. JobOK(Accepted(j, msg, pc))
      BY <1>1, <2>2, <2>3, ReceiveKeeps
    <2> QED BY <1>2, <2>1, <2>4 DEF pc
  <1>6. CASE PlanFails(j) \/ PublishFails(j)
    <2>1. /\ jobs' = [jobs EXCEPT ![j] = [jobs[j] EXCEPT !.pc = "failed"]]
          /\ jobs[j].pc \in {"call", "handle", "publish"}
      BY <1>6 DEF PlanFails, PublishFails, Fails, Put
    <2>2. JobOK([jobs[j] EXCEPT !.pc = "failed"])
      BY <1>1, <2>1, GivenUp
    <2> QED BY <1>2, <2>1, <2>2
  <1>7. CASE StartRun(j)
    BY <1>1, <1>7, StartRunKeeps
  <1>8. CASE StepStart(j)
    <2>1. /\ jobs' = [jobs EXCEPT ![j] = [jobs[j] EXCEPT !.pc = "step"]]
          /\ jobs[j].pc \in Converging /\ At(j) # jobs[j].goal
      BY <1>8 DEF StepStart, Put, Converging
    <2>2. JobOK([jobs[j] EXCEPT !.pc = "step"])
      BY <1>1, <2>1, StepStartKeeps
    <2> QED BY <1>2, <2>1, <2>2
  <1>9. CASE StepDone(j)
    BY <1>1, <1>9, StepDoneKeeps
  <1>10. ASSUME NEW cancelled \in BOOLEAN, StepFails(j, cancelled) PROVE JobOK(jobs'[j])
    <2> DEFINE p == IF cancelled THEN "cancelled" ELSE "raising"
    <2>1. /\ jobs' = [jobs EXCEPT ![j] = [jobs[j] EXCEPT !.pc = p]]
          /\ jobs[j].pc \in Converging /\ p \in {"step", "raising", "cancelled"} /\ p # "step"
      BY <1>10 DEF StepFails, Put, Converging
    <2> HIDE DEF p
    <2>2. JobOK([jobs[j] EXCEPT !.pc = p])
      BY <1>1, <2>1, StepStartKeeps
    <2> QED BY <1>2, <2>1, <2>2
  <1>11. CASE FailRun(j)
    <2>1. /\ jobs' = [jobs EXCEPT ![j] = [RunEnds(j, "error") EXCEPT !.pc = "failed"]]
          /\ jobs[j].pc \in Converging
      BY <1>11 DEF FailRun, Put, Converging
    <2>2. JobOK([RunEnds(j, "error") EXCEPT !.pc = "failed"])
      BY <1>1, <2>1, RunEndKeeps
    <2> QED BY <1>2, <2>1, <2>2
  <1>12. ASSUME NEW valid \in BOOLEAN, FinishRun(j, valid) PROVE JobOK(jobs'[j])
    <2> DEFINE p == IF ~valid THEN "failed"
                    ELSE IF jobs[j].stage = "in" THEN "handle" ELSE "publish"
    <2>1. /\ jobs' = [jobs EXCEPT ![j] = [RunEnds(j, "ok") EXCEPT !.pc = p]]
          /\ jobs[j].pc \in Converging /\ At(j) = jobs[j].goal
      BY <1>12 DEF FinishRun, Put, Converging
    <2>2. /\ p \in {"failed", "handle", "publish"}
          /\ p = "handle" => jobs[j].stage = "in"
          /\ p = "publish" => jobs[j].stage = "out"
      BY <1>1, Fields
    <2> HIDE DEF p
    <2>3. JobOK([RunEnds(j, "ok") EXCEPT !.pc = p])
      BY <1>1, <2>1, <2>2, RunEndKeeps
    <2> QED BY <1>2, <2>1, <2>3
  <1>13. CASE Refuse(j)
    <2>1. /\ jobs' = [jobs EXCEPT ![j] = [jobs[j] EXCEPT !.pc = "refused"]]
          /\ jobs[j].pc \in {"call", "handle", "publish"}
      BY <1>13 DEF Refuse, Put
    <2>2. JobOK([jobs[j] EXCEPT !.pc = "refused"])
      BY <1>1, <2>1, GivenUp
    <2> QED BY <1>2, <2>1, <2>2
  <1>14. CASE HandlerFails(j)
    BY <1>1, <1>14, HandlerFailsKeeps
  <1>15. ASSUME NEW r \in cfg.results, HttpHandle(j, r) \/ TaskHandle(j, r) \/ MessageHandle(j, r)
         PROVE  JobOK(jobs'[j])
    <2>1. jobs[j].target \in Int /\ cfg.outputs \in Seq(Int)
      BY <1>1, Fields DEF Application
    <2>2. CASE HttpHandle(j, r) \/ MessageHandle(j, r)
      <3> DEFINE outputs == IF r = -1 THEN << >> ELSE cfg.outputs
      <3>1. Returns(j, r, outputs)
        BY <2>2 DEF HttpHandle, MessageHandle
      <3>2. outputs \in Seq(Int) /\ (r = -1 => outputs = << >>)
            /\ (r # -1 => outputs = cfg.outputs)
        BY <2>1
      <3> HIDE DEF outputs
      <3> QED BY <1>1, <3>1, <3>2, ReturnsKeeps
    <2>3. CASE TaskHandle(j, r)
      <3> DEFINE outputs == IF r = -1 THEN << >> ELSE TaskOutputs(j)
      <3>1. Returns(j, r, outputs)
        BY <2>3 DEF TaskHandle
      <3>2. <<jobs[j].target>> \in Seq(Int)
        BY <2>1
      <3>3. /\ outputs \in Seq(Int)
            /\ r = -1 => outputs = << >>
            /\ r # -1 => \/ outputs = cfg.outputs
                         \/ cfg.outputs = << >> /\ outputs = <<jobs[j].target>>
        BY <2>1, <3>2 DEF TaskOutputs
      <3> HIDE DEF outputs
      <3> QED BY <1>1, <3>1, <3>3, ReturnsKeeps
    <2> QED BY <1>15, <2>2, <2>3
  <1>16. CASE Respond(j)
    BY <1>1, <1>16, RespondKeeps
  <1>17. CASE Publish(j)
    BY <1>1, <1>17, PublishKeeps
  <1> QED BY <1>3, <1>4, <1>5, <1>6, <1>7, <1>8, <1>9, <1>10, <1>11, <1>12, <1>13, <1>14,
             <1>15, <1>16, <1>17 DEF JobStep

\* Nothing that was settled without a runner changes when one is bound.
LEMMA BindingKeeps ==
    ASSUME bound = 0, cfg' = cfg, jobs' = jobs, NEW j \in Jobs, JobOK(jobs[j])
    PROVE  JobOK(jobs[j])'
  <1> DEFINE job == jobs[j]
  <1>1. /\ job \in JobRecords /\ WayInv(job) /\ ServedInv(job) /\ OutInv(job) /\ RunsInv(job)
    BY DEF JobOK
  <1>2. \A v : ~Known(v)
    BY DEF Known
  <1>3. WayInv(job)'
    <2>1. /\ job.pc \notin Converging \cup {"publish"}
          /\ ~ (job.pc = "handle" /\ (cfg.transport = "faststream" \/ job.msg.located))
      BY <1>1 DEF WayInv, Aimed
    <2>2. job' = job /\ cfg' = cfg /\ Source(job)' = Source(job)
      BY DEF Source
    <2>3. Select(job.msg)' = Select(job.msg)
      BY DEF Select, Header, Channel
    <2> HIDE DEF job
    <2> QED BY <1>1, <2>1, <2>2, <2>3 DEF WayInv
  <1>4. ServedInv(job)'
    BY <1>1 DEF ServedInv
  <1>5. OutInv(job)'
    <2>1. \A i \in DOMAIN job.sent : FALSE
      BY <1>1 DEF OutInv
    <2> QED BY <1>1, <1>2, <2>1 DEF OutInv, Converging
  <1>6. RunsInv(job)'
    BY <1>1 DEF RunsInv, Converging
  <1> QED BY <1>1, <1>3, <1>4, <1>5, <1>6 DEF JobOK

\* What is said of a job depends on the application and the bound runner alone.
LEMMA SameJob ==
    ASSUME cfg' = cfg, bound' = bound, NEW j \in Jobs, JobOK(jobs'[j])
    PROVE  JobOK(jobs[j])'
  <1>1. /\ jobs'[j] \in JobRecords /\ WayInv(jobs'[j]) /\ ServedInv(jobs'[j]) /\ OutInv(jobs'[j])
        /\ RunsInv(jobs'[j])
    BY DEF JobOK
  <1>2. WayInv(jobs[j])'
    <2> SUFFICES ASSUME NEW job, job = jobs'[j] PROVE WayInv(job)'
      OBVIOUS
    <2>1. Aimed(job)' <=> Aimed(job)
      BY DEF Aimed, Goal, Known, Policy, Resolve
    <2>2. Select(job.msg)' = Select(job.msg)
      BY DEF Select, Header, Channel
    <2>3. Source(job)' = Source(job)
      BY DEF Source
    <2> QED BY <1>1, <2>1, <2>2, <2>3 DEF WayInv
  <1>3. ServedInv(jobs[j])'
    BY <1>1 DEF ServedInv, Known
  <1>4. OutInv(jobs[j])'
    BY <1>1 DEF OutInv, Known
  <1>5. RunsInv(jobs[j])'
    BY <1>1 DEF RunsInv
  <1> QED BY <1>1, <1>2, <1>3, <1>4, <1>5 DEF JobOK

\* Before the decorators ran there is no traffic.
LEMMA NothingReceived ==
    ASSUME LifeInv, worker = "new", NEW j \in Jobs PROVE ~JobStep(j)
  <1>1. jobs[j].pc = "idle"
    BY DEF LifeInv, Idle
  <1> QED BY <1>1 DEF JobStep, HttpReceive, TaskReceive, MessageReceive, Receives, PlanFails,
           StartRun, StepStart, StepDone, StepFails, FailRun, FinishRun, Refuse, HandlerFails,
           HttpHandle, TaskHandle, MessageHandle, Returns, Respond, Publish, PublishFails

\* The invariant is inductive.
LEMMA JobsKept ==
    ASSUME TypeInv, LifeInv, JobInv, [Next]_vars
    PROVE  TypeInv' /\ LifeInv' /\ JobInv'
  <1>1. Application(cfg) /\ MaxVersion \in Nat
    BY CfgFacts, DeliveryAssumption
  <1>2. CASE Register
    <2>1. TypeInv'
      BY <1>1, <1>2 DEF Register, TypeInv, Application
    <2>2. LifeInv'
      BY <1>2 DEF Register, LifeInv, Accepts, PublisherReturns
    <2>3. \A j \in Jobs : JobOK(jobs'[j]) /\ cfg' = cfg /\ bound' = bound
      BY <1>2 DEF Register, JobInv
    <2> QED BY <2>1, <2>2, <2>3, SameJob DEF JobInv
  <1>3. CASE Decorate
    <2>1. TypeInv'
      BY <1>1, <1>3 DEF Decorate, TypeInv, Application, Reconciled
    <2>2. LifeInv'
      <3>1. bound' = bound /\ jobs' = jobs /\ cfg' = cfg /\ (~cfg.early => bound = 0)
            /\ worker' \in {"decorated", "exited"}
        BY <1>3 DEF Decorate, LifeInv
      <3>2. worker' # "exited" /\ cfg.transport = "faststream" =>
              annotation' = [known |-> Reconciled, accepts |-> Accepts(Reconciled),
                             returns |-> PublisherReturns(Reconciled)]
        BY <1>3 DEF Decorate
      <3> HIDE DEF Reconciled
      <3>3. Accepts(annotation.known)' = Accepts(annotation.known')
            /\ PublisherReturns(annotation.known)' = PublisherReturns(annotation.known')
        BY <3>1 DEF Accepts, PublisherReturns
      <3> QED BY <3>1, <3>2, <3>3 DEF LifeInv
    <2>3. \A j \in Jobs : JobOK(jobs'[j]) /\ cfg' = cfg /\ bound' = bound
      BY <1>3 DEF Decorate, JobInv
    <2> QED BY <2>1, <2>2, <2>3, SameJob DEF JobInv
  <1>4. CASE Start
    <2>1. bound' = (IF bound = 0 THEN models ELSE bound) /\ cfg' = cfg /\ jobs' = jobs
          /\ annotation' = annotation /\ models' = models
          /\ worker = "decorated" /\ worker' \in {"up", "failed", "exited"}
      BY <1>4 DEF Start, Bind, StartupFailed
    <2>2. TypeInv'
      BY <2>1 DEF TypeInv
    <2>3. LifeInv'
      <3>1. Accepts(annotation.known)' = Accepts(annotation.known)
            /\ PublisherReturns(annotation.known)' = PublisherReturns(annotation.known)
        BY <2>1 DEF Accepts, PublisherReturns
      <3>2. worker' \notin {"new", "decorated"} /\ worker \notin {"new", "exited"}
        BY <2>1
      <3> QED BY <2>1, <3>1, <3>2 DEF LifeInv
    <2>4. ASSUME NEW j \in Jobs PROVE JobOK(jobs[j])'
      <3>1. CASE bound = 0
        BY <2>1, <3>1, BindingKeeps DEF JobInv
      <3>2. CASE bound # 0
        <4>1. JobOK(jobs'[j]) /\ bound' = bound
          BY <2>1, <3>2 DEF JobInv
        <4> QED BY <2>1, <4>1, SameJob
      <3> QED BY <3>1, <3>2
    <2> QED BY <2>2, <2>3, <2>4 DEF JobInv
  <1>5. ASSUME NEW j \in Jobs, JobStep(j) PROVE TypeInv' /\ LifeInv' /\ JobInv'
    <2>1. /\ cfg' = cfg /\ models' = models /\ bound' = bound /\ annotation' = annotation
          /\ worker' = worker
          /\ \A k \in Jobs \ {j} : jobs'[k] = jobs[k]
          /\ jobs' = [jobs EXCEPT ![j] = jobs'[j]] /\ worker # "new"
      BY <1>5, JobStepFrame, NothingReceived DEF TypeInv
    <2>2. JobOK(jobs'[j])
      BY <1>5, JobStepKeeps
    <2>3. \A k \in Jobs : JobOK(jobs'[k])
      BY <2>1, <2>2 DEF JobInv
    <2>4. JobInv'
      BY <2>1, <2>3, SameJob DEF JobInv
    <2>5. jobs' \in [Jobs -> JobRecords]
      BY <2>1, <2>2 DEF JobOK, TypeInv
    <2>6. TypeInv'
      BY <2>1, <2>5 DEF TypeInv
    <2>7. LifeInv'
      BY <2>1 DEF LifeInv, Accepts, PublisherReturns
    <2> QED BY <2>4, <2>6, <2>7
  <1>6. CASE UNCHANGED vars
    <2>1. cfg' = cfg /\ models' = models /\ bound' = bound /\ annotation' = annotation
          /\ worker' = worker /\ jobs' = jobs
      BY <1>6 DEF vars
    <2>2. TypeInv'
      BY <2>1 DEF TypeInv
    <2>a. LifeInv'
      BY <2>1 DEF LifeInv, Accepts, PublisherReturns
    <2>3. \A j \in Jobs : JobOK(jobs'[j])
      BY <2>1 DEF JobInv
    <2> QED BY <2>1, <2>2, <2>3, <2>a, SameJob DEF JobInv
  <1> QED BY <1>2, <1>3, <1>4, <1>5, <1>6 DEF Next

\* It holds of an application that was just imported.
LEMMA JobsStart == Init => TypeInv /\ LifeInv /\ JobInv
  <1> SUFFICES ASSUME Init PROVE TypeInv /\ LifeInv /\ JobInv
    OBVIOUS
  <1>1. Idle \in JobRecords
    BY DEF Idle, JobRecords, Pcs, Msgs, NoPolicy
  <1>2. TypeInv
    BY <1>1, DeliveryAssumption DEF Init, TypeInv, Application
  <1>3. LifeInv
    BY DEF Init, LifeInv
  <1>4. Idle.pc = "idle" /\ Idle.stage = "in" /\ Idle.sent = << >> /\ Idle.result = -1
        /\ Idle.served = -1 /\ Idle.ran = << >>
    BY DEF Idle
  <1>5. Len(cfg.outputs) \in Nat
    BY <1>2, CfgFacts DEF Application
  <1>6. WayInv(Idle) /\ ServedInv(Idle) /\ RunsInv(Idle)
    BY <1>4 DEF WayInv, ServedInv, RunsInv, Converging
  <1>7. OutInv(Idle)
    BY <1>4, <1>5 DEF OutInv
  <1>8. JobInv
    BY <1>1, <1>6, <1>7 DEF Init, JobInv, JobOK
  <1> QED BY <1>2, <1>3, <1>8

\* So it holds always.
LEMMA JobsHold == Spec => [](TypeInv /\ LifeInv /\ JobInv)
  BY JobsStart, JobsKept, PTL DEF Spec

\* Whatever is concurrent, registered late or negotiated, a payload the runner knows
\* reaches the handler at the version its target resolves to, what is sent is at the
\* version of its own target in the order of the routes, and a job is done only when
\* all are served (the adapters' handlers, converge and publish_to).
THEOREM Delivered == Spec => []ConvergedWhereverServed
  <1>1. TypeInv /\ LifeInv /\ JobInv => ConvergedWhereverServed
    <2> SUFFICES ASSUME TypeInv, JobInv, NEW j \in Jobs
                 PROVE  LET job == jobs[j]
                            served == /\ job.served # -1 /\ job.msg.located
                                      /\ Known(job.msg.version)
                        IN  /\ served => job.served = Resolve(job.target, bound)
                            /\ Known(job.result) => \A i \in DOMAIN job.sent :
                                  IF cfg.outputs # << >>
                                  THEN Final(job.sent[i]) = Resolve(cfg.outputs[i], bound)
                                  ELSE job.target = cfg.default =>
                                          Final(job.sent[i]) = Resolve(cfg.default, bound)
                            /\ job.pc = "done" /\ job.result # -1 =>
                                  Len(job.sent) >= Len(cfg.outputs)
      BY DEF ConvergedWhereverServed
    <2>1. ServedInv(jobs[j]) /\ OutInv(jobs[j])
      BY DEF JobInv, JobOK
    <2>2. \A i \in DOMAIN jobs[j].sent : Final(jobs[j].sent[i]) = Last(jobs[j].sent[i].trail)
      BY DEF Final, Last
    <2> QED BY <2>1, <2>2 DEF ServedInv, OutInv
  <1> QED BY <1>1, JobsHold, PTL

\* With a deep copy each route of publish_to is converged straight from what the
\* handler returned.
THEOREM RoutesIndependent == Spec => []RoutesAreIndependent
  <1>1. TypeInv /\ LifeInv /\ JobInv => RoutesAreIndependent
    <2> SUFFICES ASSUME TypeInv, JobInv, cfg.copy = "deep", NEW j \in Jobs,
                        NEW i \in DOMAIN jobs[j].sent
                 PROVE  LET trail == jobs[j].sent[i].trail
                            last == trail[Len(trail)]
                        IN  /\ trail[1] = jobs[j].result
                            /\ Len(trail) - 1 \in {last - trail[1], trail[1] - last}
      BY DEF RoutesAreIndependent
    <2> DEFINE trail == jobs[j].sent[i].trail
    <2>1. OutInv(jobs[j]) /\ jobs[j] \in JobRecords
      BY DEF JobInv, JobOK
    <2>2. trail # << >> /\ Straight(trail, Last(trail)) /\ trail[1] = jobs[j].result
      BY <2>1 DEF OutInv
    <2>3. trail \in Seq(Int)
      <3> DEFINE msgs == [policy : Int, trail : Seq(Int)]
      <3>1. jobs[j].sent \in Seq(msgs)
        BY <2>1, Fields
      <3> HIDE DEF msgs
      <3>2. jobs[j].sent[i] \in msgs
        BY <3>1
      <3> QED BY <3>2 DEF msgs
    <2>4. Len(trail) \in Nat /\ trail[1] \in Int /\ Last(trail) \in Int
      BY <2>2, <2>3 DEF Last
    <2> DEFINE n == Len(trail)
               a == trail[1]
               b == Last(trail)
    <2>5. n \in Nat /\ a \in Int /\ b \in Int /\ (b = a + (n - 1) \/ b = a - (n - 1))
      BY <2>2, <2>4 DEF Straight
    <2> HIDE DEF n, a, b
    <2>6. n - 1 \in {b - a, a - b}
      BY <2>5
    <2> QED BY <2>2, <2>6 DEF Last, n, a, b
  <1> QED BY <1>1, JobsHold, PTL

-----------------------------------------------------------------------------
\* Without a runner no convergence starts or ends.
LEMMA NoRunnerNoRun ==
    ASSUME TypeInv, JobInv, bound = 0, NEW j \in Jobs, JobStep(j)
    PROVE  jobs'[j].ran = jobs[j].ran
  <1>1. jobs \in [Jobs -> JobRecords] /\ jobs[j] \in JobRecords
    BY DEF TypeInv
  <1>2. jobs[j].pc \notin Converging \cup {"publish"}
    BY DEF JobInv, JobOK, WayInv, Aimed
  <1>3. ~StartRun(j) /\ ~StepStart(j) /\ ~StepDone(j) /\ ~FailRun(j) /\ ~Respond(j) /\ ~Publish(j)
        /\ \A b \in BOOLEAN : ~StepFails(j, b) /\ ~FinishRun(j, b)
    BY <1>2 DEF StartRun, Plans, StepStart, StepDone, FailRun, StepFails, FinishRun, Converging,
                Respond, Publish
  <1>4. CASE HttpReceive(j) \/ TaskReceive(j) \/ MessageReceive(j)
    BY <1>1, <1>4 DEF HttpReceive, TaskReceive, MessageReceive, Accepted, Put, JobRecords
  <1>5. CASE PlanFails(j) \/ Refuse(j) \/ HandlerFails(j) \/ PublishFails(j)
    BY <1>1, <1>5 DEF PlanFails, Refuse, HandlerFails, PublishFails, Fails, Put, JobRecords
  <1>6. ASSUME NEW r \in cfg.results, HttpHandle(j, r) \/ TaskHandle(j, r) \/ MessageHandle(j, r)
        PROVE  jobs'[j].ran = jobs[j].ran
    <2>1. \E outputs : Returns(j, r, outputs)
      BY <1>6 DEF HttpHandle, TaskHandle, MessageHandle
    <2> QED BY <1>1, <2>1 DEF Returns, Put, JobRecords
  <1> QED BY <1>3, <1>4, <1>5, <1>6 DEF JobStep

\* Nothing makes an unhealthy Celery worker converge a payload.
LEMMA HealthKept ==
    ASSUME TypeInv, LifeInv, JobInv, HealthInv, [Next]_vars
    PROVE  HealthInv'
  <1>1. CASE Register \/ Decorate
    BY <1>1 DEF Register, Decorate, HealthInv, Unhealthy
  <1>2. CASE Start
    BY <1>2 DEF Start, StartupFailed, HealthInv, Unhealthy
  <1>3. ASSUME NEW j \in Jobs, JobStep(j), worker # "exited" PROVE HealthInv'
    <2>1. /\ cfg' = cfg /\ worker' = worker /\ \A k \in Jobs \ {j} : jobs'[k] = jobs[k]
      BY <1>3, JobStepFrame DEF TypeInv
    <2>2. SUFFICES ASSUME cfg.transport = "celery", cfg.receiver, ~cfg.early, Unhealthy
                   PROVE  HealthInv'
      BY <2>1 DEF HealthInv, Unhealthy
    <2>3. worker \in {"new", "decorated"} /\ \A k \in Jobs : jobs[k].ran = << >>
      BY <1>3, <2>2 DEF HealthInv
    <2>4. bound = 0
      BY <2>2, <2>3 DEF LifeInv
    <2>5. jobs'[j].ran = << >>
      BY <1>3, <2>3, <2>4, NoRunnerNoRun
    <2> QED BY <2>1, <2>3, <2>5 DEF HealthInv
  <1>4. CASE UNCHANGED vars
    BY <1>4 DEF vars, HealthInv, Unhealthy
  <1> QED BY <1>1, <1>2, <1>3, <1>4 DEF Next

\* "The child process exits before accepting tasks", where the signal receiver
\* starts it.
THEOREM UnhealthyWorkersStop == Spec => []UnhealthyWorkersConvergeNothing
  <1>1. Init => HealthInv
    BY DEF Init, HealthInv, Idle
  <1>2. TypeInv /\ HealthInv => UnhealthyWorkersConvergeNothing
    <2> SUFFICES ASSUME TypeInv, HealthInv, cfg.transport = "celery", cfg.receiver,
                        ~cfg.early, cfg.gate, cfg.level # "never", "error" \in cfg.issues
                 PROVE  \A j \in Jobs : jobs[j].ran = << >>
      BY DEF UnhealthyWorkersConvergeNothing
    <2>1. cfg.level \in {"info", "warning", "error"}
      BY CfgFacts DEF Application
    <2>2. /\ DOMAIN Severities = 1..3 /\ Severities[1] = "info" /\ Severities[2] = "warning"
          /\ Severities[3] = "error"
      BY DEF Severities
    <2>3. Blocks("error", cfg.level)
      BY <2>1, <2>2 DEF Blocks
    <2> QED BY <2>3 DEF HealthInv, Unhealthy
  <1> QED BY <1>1, <1>2, HealthKept, JobsHold, PTL DEF Spec

-----------------------------------------------------------------------------
\* The decorators saw the registry the runner was built from, and every message
\* has a target of its own.
Fitting ==
    /\ annotation.known = bound
    /\ cfg.header \/ \A c \in DOMAIN cfg.channels : cfg.channels[c] # NoPolicy

\* What FastStream refuses does not fit: otherwise the targets the decorators bound
\* the handler to are those the messages are converged to.
LEMMA NothingToRefuse ==
    ASSUME TypeInv, LifeInv, JobInv, NEW j \in Jobs, Refuse(j), worker \notin {"new", "exited"}
    PROVE  bound # 0 /\ ~Fitting
  <1> DEFINE job == jobs[j]
  <1>1. Application(cfg) /\ bound \in Nat /\ JobOK(job) /\ job \in JobRecords
    BY CfgFacts, DeliveryAssumption DEF TypeInv, JobInv
  <1>2. cfg.transport = "faststream" /\ Known(At(j)) /\ bound # 0
    BY <1>1 DEF Refuse, Refused, Known
  <1>3. SUFFICES ASSUME Fitting PROVE FALSE
    BY <1>2
  <1>4. annotation.accepts = Accepts(bound) /\ annotation.returns = PublisherReturns(bound)
    BY <1>2, <1>3 DEF LifeInv, Fitting
  <1>5. CASE job.pc = "handle" /\ Refused(j, annotation.accepts)
    <2>1. /\ Aimed(job) /\ At(j) = job.goal /\ job.stage = "in"
          /\ job.target = Select(job.msg) /\ job.msg \in cfg.messages
      BY <1>1, <1>2, <1>5 DEF JobOK, WayInv, At, Last
    <2>2. At(j) = Resolve(Select(job.msg), bound)
      BY <1>2, <2>1 DEF Aimed, Goal, Policy, Known, Straight, At, Last
    <2>3. CASE cfg.header
      BY <1>2, <1>4, <1>5, <2>3 DEF Accepts, Refused, Known
    <2>4. CASE ~cfg.header
      <3>1. job.msg.channel \in DOMAIN cfg.channels /\ Channel(job.msg) # NoPolicy
        BY <1>1, <1>3, <2>1, <2>4 DEF Fitting, Application, Channel
      <3>2. Select(job.msg) = Channel(job.msg)
        BY <1>1, <1>2, <2>1, <2>4, <3>1, SelectFacts
      <3> DEFINE mapped == {cfg.channels[c] : c \in DOMAIN cfg.channels} \ {NoPolicy}
      <3>3. Channel(job.msg) \in mapped
        BY <3>1 DEF Channel
      <3>4. Accepts(bound) = {Resolve(p, bound) : p \in mapped}
        BY <2>4, <3>3 DEF Accepts
      <3>5. At(j) \in Accepts(bound)
        BY <2>2, <3>2, <3>3, <3>4
      <3> QED BY <1>4, <1>5, <3>5 DEF Refused
    <2> QED BY <2>3, <2>4
  <1>6. CASE job.pc = "publish" /\ cfg.publisher /\ Refused(j, annotation.returns)
    <2>1. /\ Len(job.sent) \in Nat /\ Len(job.todo) \in Nat /\ Len(job.todo) >= 1
          /\ cfg.outputs # << >> /\ Len(cfg.outputs) <= 1 /\ Len(cfg.outputs) \in Nat
      <3>1. job.todo \in Seq(Int) /\ job.todo # << >>
        BY <1>1, <1>6, SentFacts
      <3>2. Len(job.todo) \in Nat /\ Len(job.todo) >= 1
        BY <3>1
      <3>3. Len(job.sent) \in Nat
        BY <1>1, Fields
      <3> QED BY <1>1, <1>6, <3>2, <3>3 DEF Application
    <2>2. Len(job.sent) + Len(job.todo) = Len(cfg.outputs)
      BY <1>1, <1>6, <2>1, SentFacts
    <2> DEFINE ns == Len(job.sent)
               nt == Len(job.todo)
               no == Len(cfg.outputs)
    <2>3. ns \in Nat /\ nt \in Nat /\ nt >= 1 /\ no \in Nat /\ no <= 1 /\ ns + nt = no
      BY <2>1, <2>2
    <2> HIDE DEF ns, nt, no
    <2>4. ns + 1 = 1
      BY <2>3
    <2>5. At(j) = Resolve(cfg.outputs[ns + 1], bound)
      BY <1>1, <1>2, <1>6, <2>1, SentFacts DEF ns
    <2> QED BY <1>4, <1>6, <2>4, <2>5 DEF PublisherReturns, Refused
  <1> QED BY <1>5, <1>6 DEF Refuse

\* A refused job is one the annotation did not fit.
RefusedInv ==
    \A j \in Jobs : jobs[j].pc = "refused" => bound # 0 /\ worker # "new" /\ ~Fitting

\* Only Refuse refuses.
LEMMA WhoRefuses ==
    ASSUME TypeInv, NEW j \in Jobs, JobStep(j), ~Refuse(j)
    PROVE  jobs'[j].pc # "refused"
  <1>1. jobs \in [Jobs -> JobRecords] /\ jobs[j] \in JobRecords
    BY DEF TypeInv
  <1>2. CASE HttpReceive(j) \/ TaskReceive(j) \/ MessageReceive(j)
    BY <1>1, <1>2, ZenonT(40) DEF HttpReceive, TaskReceive, MessageReceive, Accepted, Put, JobRecords
  <1>3. CASE PlanFails(j) \/ HandlerFails(j) \/ PublishFails(j)
    BY <1>1, <1>3 DEF PlanFails, HandlerFails, PublishFails, Fails, Put, JobRecords
  <1>4. CASE StartRun(j)
    BY <1>1, <1>4 DEF StartRun, Put, JobRecords
  <1>5. CASE StepStart(j) \/ StepDone(j) \/ FailRun(j)
    BY <1>1, <1>5 DEF StepStart, StepDone, FailRun, RunEnds, Put, JobRecords
  <1>6. ASSUME NEW b \in BOOLEAN, StepFails(j, b) \/ FinishRun(j, b) PROVE jobs'[j].pc # "refused"
    BY <1>1, <1>6, ZenonT(40) DEF StepFails, FinishRun, RunEnds, Put, JobRecords
  <1>7. ASSUME NEW r \in cfg.results, HttpHandle(j, r) \/ TaskHandle(j, r) \/ MessageHandle(j, r)
        PROVE  jobs'[j].pc # "refused"
    <2>1. \E outputs : Returns(j, r, outputs)
      BY <1>7 DEF HttpHandle, TaskHandle, MessageHandle
    <2> QED BY <1>1, <2>1 DEF Returns, Put, JobRecords
  <1>8. CASE Respond(j)
    BY <1>1, <1>8 DEF Respond, Put, JobRecords
  <1>9. CASE Publish(j)
    <2>1. PICK p, t, q, b, w : /\ jobs' = [jobs EXCEPT ![j] = [jobs[j] EXCEPT
                                   !.pc = p, !.todo = t, !.sent = q, !.body = b, !.trail = w]]
                               /\ p \in {"done", "call"}
      BY <1>9 DEF Publish, Put
    <2> QED BY <1>1, <2>1 DEF JobRecords
  <1> QED BY <1>9, <1>2, <1>3, <1>4, <1>5, <1>6, <1>7, <1>8 DEF JobStep

\* No job is ever refused while the annotations fit.
LEMMA RefusedKept ==
    ASSUME TypeInv, LifeInv, JobInv, RefusedInv, [Next]_vars
    PROVE  RefusedInv'
  <1>1. CASE Register \/ UNCHANGED vars
    BY <1>1 DEF Register, vars, RefusedInv, Fitting
  <1>2. CASE Decorate
    BY <1>2 DEF Decorate, RefusedInv
  <1>3. CASE Start
    <2>1. worker' # "new" /\ cfg' = cfg /\ jobs' = jobs /\ annotation' = annotation
      BY <1>3 DEF Start, StartupFailed
    <2>2. bound # 0 => bound' = bound
      BY <1>3 DEF Start, Bind
    <2> QED BY <2>1, <2>2 DEF RefusedInv, Fitting
  <1>4. ASSUME NEW j \in Jobs, JobStep(j), worker # "exited" PROVE RefusedInv'
    <2>1. /\ cfg' = cfg /\ bound' = bound /\ annotation' = annotation /\ worker' = worker
          /\ \A k \in Jobs \ {j} : jobs'[k] = jobs[k]
          /\ worker # "new"
      BY <1>4, JobStepFrame, NothingReceived DEF TypeInv
    <2>2. jobs'[j].pc = "refused" => bound # 0 /\ ~Fitting
      BY <1>4, <2>1, WhoRefuses, NothingToRefuse
    <2>3. Fitting' <=> Fitting
      BY <2>1 DEF Fitting
    <2> QED BY <2>1, <2>2, <2>3 DEF RefusedInv
  <1> QED BY <1>1, <1>2, <1>3, <1>4 DEF Next

\* FastStream refuses no message for its version, nor a publisher's result, as long as
\* the runner was built from the registry the decorators saw.
THEOREM AnnotationsAlwaysFit == Spec => []AnnotationsFit
  <1>1. Init => RefusedInv
    BY DEF Init, RefusedInv, Idle
  <1>2. RefusedInv => AnnotationsFit
    BY DEF RefusedInv, AnnotationsFit, Fitting
  <1> QED BY <1>1, <1>2, RefusedKept, JobsHold, PTL DEF Spec

-----------------------------------------------------------------------------
(* Telemetry. *)

\* What a step of a job is to the telemetry.
Quiet(j) ==
    /\ tele' = tele /\ jobs'[j].ran = jobs[j].ran
    /\ jobs[j].pc \notin Converging /\ jobs'[j].pc # "step"

RunBegins(j) ==
    /\ Emit(Event(j, "RunStarted", Run(j) + 1))
    /\ jobs[j].pc = "call" /\ jobs'[j].pc # "step"
    /\ \E state \in {"active", "abandoned"} : jobs'[j].ran = Append(jobs[j].ran, state)

StepBegins(j) ==
    /\ Emit(Event(j, "StepStarted", Run(j)))
    /\ jobs[j].pc = "running" /\ jobs'[j].pc = "step" /\ At(j) # jobs[j].goal
    /\ jobs'[j].ran = jobs[j].ran /\ jobs'[j].trail = jobs[j].trail

StepOver(j) ==
    /\ \E type \in {"StepCompleted", "StepFailed"} : Emit(Event(j, type, Run(j)))
    /\ jobs[j].pc = "step" /\ jobs'[j].pc # "step" /\ jobs'[j].ran = jobs[j].ran

RunOver(j) ==
    \E type \in {"RunCompleted", "RunFailed"} :
        /\ Emit(Event(j, type, Run(j)))
        /\ jobs[j].pc \in Converging \ {"step"} /\ jobs'[j].pc # "step"
        /\ jobs'[j].ran = [jobs[j].ran EXCEPT
                             ![Run(j)] = IF type = "RunCompleted" THEN "ok" ELSE "error"]

\* Every step of a job is one of these to the telemetry.
LEMMA Reports ==
    ASSUME TypeInv, NEW j \in Jobs, JobStep(j)
    PROVE  Quiet(j) \/ RunBegins(j) \/ StepBegins(j) \/ StepOver(j) \/ RunOver(j)
  <1>1. jobs \in [Jobs -> JobRecords] /\ jobs[j] \in JobRecords
    BY DEF TypeInv
  <1>2. CASE HttpReceive(j) \/ TaskReceive(j) \/ MessageReceive(j)
    <2>1. tele' = tele /\ jobs[j].pc = "idle"
      BY <1>2 DEF HttpReceive, TaskReceive, MessageReceive, Receives
    <2>2. PICK msg, pc : jobs' = [jobs EXCEPT ![j] = Accepted(j, msg, pc)]
                         /\ pc \in {"call", "handle", "failed"}
      BY <1>2 DEF HttpReceive, TaskReceive, MessageReceive, Put
    <2> QED BY <1>1, <2>1, <2>2 DEF Quiet, Accepted, Converging, JobRecords
  <1>3. CASE PlanFails(j) \/ Refuse(j) \/ HandlerFails(j) \/ PublishFails(j)
    BY <1>1, <1>3 DEF PlanFails, Refuse, HandlerFails, PublishFails, Fails, Put, JobRecords,
                      Quiet, Converging
  <1>4. CASE StartRun(j)
    <2>1. PICK dropped \in BOOLEAN : \E goal :
            jobs' = [jobs EXCEPT ![j] = [jobs[j] EXCEPT
                        !.goal = goal,
                        !.ran = Append(@, IF dropped THEN "abandoned" ELSE "active"),
                        !.pc = IF dropped THEN "failed" ELSE "running"]]
      BY <1>4 DEF StartRun, Put
    <2>2. /\ jobs'[j].ran = Append(jobs[j].ran, IF dropped THEN "abandoned" ELSE "active")
          /\ jobs'[j].pc = IF dropped THEN "failed" ELSE "running"
      BY <1>1, <2>1 DEF JobRecords
    <2>3. jobs[j].pc = "call" /\ Emit(Event(j, "RunStarted", Run(j) + 1))
      BY <1>4 DEF StartRun
    <2> QED BY <2>2, <2>3 DEF RunBegins
  <1>5. CASE StepStart(j)
    BY <1>1, <1>5 DEF StepStart, Put, JobRecords, StepBegins
  <1>6. CASE StepDone(j)
    BY <1>1, <1>6 DEF StepDone, Put, JobRecords, StepOver
  <1>7. ASSUME NEW b \in BOOLEAN, StepFails(j, b) PROVE StepOver(j)
    BY <1>1, <1>7 DEF StepFails, Put, JobRecords, StepOver
  <1>8. CASE FailRun(j)
    <2>1. jobs'[j].ran = [jobs[j].ran EXCEPT ![Run(j)] = "error"] /\ jobs'[j].pc = "failed"
      BY <1>1, <1>8 DEF FailRun, RunEnds, Put, JobRecords
    <2>2. jobs[j].pc \in Converging \ {"step"} /\ Emit(Event(j, "RunFailed", Run(j)))
      BY <1>8 DEF FailRun, Converging
    <2> QED BY <2>1, <2>2 DEF RunOver
  <1>9. ASSUME NEW b \in BOOLEAN, FinishRun(j, b) PROVE RunOver(j)
    <2>1. jobs'[j].ran = [jobs[j].ran EXCEPT ![Run(j)] = "ok"] /\ jobs'[j].pc # "step"
      BY <1>1, <1>9 DEF FinishRun, RunEnds, Put, JobRecords
    <2>2. jobs[j].pc \in Converging \ {"step"} /\ Emit(Event(j, "RunCompleted", Run(j)))
      BY <1>9 DEF FinishRun, Converging
    <2> QED BY <2>1, <2>2 DEF RunOver
  <1>10. ASSUME NEW r \in cfg.results, HttpHandle(j, r) \/ TaskHandle(j, r) \/ MessageHandle(j, r)
         PROVE  Quiet(j)
    <2>1. PICK outputs : Returns(j, r, outputs)
      BY <1>10 DEF HttpHandle, TaskHandle, MessageHandle
    <2>2. jobs'[j].ran = jobs[j].ran /\ jobs'[j].pc # "step"
      BY <1>1, <2>1 DEF Returns, Put, JobRecords
    <2> QED BY <2>1, <2>2 DEF Returns, Quiet, Converging
  <1>11. CASE Respond(j)
    BY <1>1, <1>11 DEF Respond, Put, JobRecords, Quiet, Converging
  <1>12. CASE Publish(j)
    <2>1. PICK p, t, q, b, w : /\ jobs' = [jobs EXCEPT ![j] = [jobs[j] EXCEPT
                                   !.pc = p, !.todo = t, !.sent = q, !.body = b, !.trail = w]]
                               /\ p \in {"done", "call"}
      BY <1>12 DEF Publish, Put
    <2>2. jobs'[j].ran = jobs[j].ran /\ jobs'[j].pc # "step"
      BY <1>1, <2>1 DEF JobRecords
    <2> QED BY <1>12, <2>2 DEF Publish, Quiet, Converging
  <1> QED BY <1>2, <1>3, <1>4, <1>5, <1>6, <1>7, <1>8, <1>9, <1>10, <1>11, <1>12 DEF JobStep

\* Runs and their steps are within the bounds of the telemetry.
LEMMA RunBounded ==
    ASSUME TypeInv, JobInv, NEW j \in Jobs
    PROVE  /\ Run(j) \in Nat
           /\ jobs[j].pc = "call" => Run(j) + 1 \in 1..MaxRuns
           /\ jobs[j].pc \in Converging => Run(j) \in 1..MaxRuns
           /\ jobs[j].pc \in {"running", "step"} /\ At(j) # jobs[j].goal =>
                 Len(jobs[j].trail) \in Steps
           /\ jobs[j].pc = "step" => At(j) # jobs[j].goal
  <1> DEFINE job == jobs[j]
             nr == Len(job.ran)
             ns == Len(job.sent)
             nt == Len(job.todo)
             no == Len(cfg.outputs)
  <1>1. /\ Application(cfg) /\ bound \in 0..MaxVersion /\ JobOK(job) /\ job \in JobRecords
        /\ MaxVersion \in Nat /\ MaxRuns \in Nat /\ MaxRuns >= 2
    BY CfgFacts, DeliveryAssumption DEF TypeInv, JobInv
  <1>2. /\ WayInv(job) /\ ServedInv(job) /\ OutInv(job) /\ RunsInv(job)
        /\ job.stage \in {"in", "out"} /\ job.trail \in Seq(Int) /\ job.goal \in Int
    BY <1>1, Fields DEF JobOK
  <1>3. nr \in Nat /\ ns \in Nat /\ no \in Nat /\ no < MaxRuns /\ Run(j) = nr
    BY <1>1, Fields DEF Application, Run
  <1>4. nt \in Nat /\ (job.todo # << >> => nt >= 1)
    BY <1>1, Fields, EmptyOrNot
  <1>5. job.pc \in Converging => nr >= 1
    BY <1>1, <1>2, Fields, EmptyOrNot DEF RunsInv
  <1>6. job.stage = "out" /\ job.pc \in Converging \cup {"call"} => ns + 1 < MaxRuns
    <2> SUFFICES ASSUME job.stage = "out", job.pc \in Converging \cup {"call"} PROVE ns + 1 < MaxRuns
      OBVIOUS
    <2>1. /\ job.todo # << >>
          /\ IF cfg.outputs = << >> THEN job.sent = << >> ELSE ns + nt = no
      BY <1>2 DEF OutInv
    <2>2. job.sent = << >> => ns = 0
      OBVIOUS
    <2> HIDE DEF ns, nt, no
    <2> QED BY <1>1, <1>3, <1>4, <2>1, <2>2
  <1>7. /\ job.stage = "in" /\ job.pc = "call" => nr = 0
        /\ job.stage = "in" => nr <= 1
        /\ job.stage = "out" => nr <= ns + 2
        /\ job.stage = "out" /\ job.pc = "call" => nr <= ns + 1
    BY <1>2 DEF RunsInv
  <1>8. job.pc = "call" => Run(j) + 1 \in 1..MaxRuns
    <2> HIDE DEF ns, nr
    <2> QED BY <1>1, <1>2, <1>3, <1>6, <1>7
  <1>9. job.pc \in Converging => Run(j) \in 1..MaxRuns
    <2> HIDE DEF ns, nr
    <2> QED BY <1>1, <1>2, <1>3, <1>5, <1>6, <1>7
  <1>10. ASSUME job.pc \in {"running", "step"}, At(j) # job.goal PROVE Len(job.trail) \in Steps
    <2>1. Aimed(job) /\ job.trail # << >> /\ At(j) = Last(job.trail)
      BY <1>2, <1>10 DEF WayInv, Converging, At, Last
    <2> DEFINE n == Len(job.trail)
               a == job.trail[1]
               b == Last(job.trail)
               g == job.goal
    <2>2. n \in Nat /\ n >= 1 /\ a \in Int /\ g \in Int /\ b # g /\ b \in Int
      BY <1>2, <1>10, <2>1 DEF Last
    <2>3. IF a <= g THEN b = a + (n - 1) /\ b <= g ELSE b = a - (n - 1) /\ b >= g
      BY <2>1 DEF Aimed, Straight
    <2>4. a \in 1..bound /\ g \in 1..bound
      <3>1. Known(a)
        <4>1. ~Known(a) => g = a
          BY <2>1 DEF Aimed, Goal
        <4> HIDE DEF n, a, b, g
        <4>2. g = a => b = g
          BY <2>2, <2>3
        <4> QED BY <2>2, <4>1, <4>2
      <3>2. Known(g)
        BY <2>1, <3>1 DEF Aimed
      <3> QED BY <3>1, <3>2 DEF Known
    <2> HIDE DEF n, a, b, g
    <2>5. n \in 1..MaxVersion
      BY <1>1, <2>2, <2>3, <2>4
    <2> QED BY <2>5 DEF Steps, n
  <1>11. job.pc = "step" => At(j) # job.goal
    BY <1>2 DEF WayInv, At, Last
  <1> QED BY <1>3, <1>8, <1>9, <1>10, <1>11

\* The run a step of the job reports on, and the id it is reported under.
IdOf(r) == IF cfg.ids = "shared" THEN SharedId ELSE r

Live(r) == State(r) \in {"active", "abandoned"}

\* What a job's step does to the states of the runs and of their steps.
LEMMA OtherRuns ==
    ASSUME TypeInv, NEW j \in Jobs, JobStep(j), NEW r \in Runs, r[1] # j
    PROVE  State(r)' = State(r) /\ \A k : InStep(r, k)' <=> InStep(r, k)
  <1>1. r[1] \in Jobs /\ jobs'[r[1]] = jobs[r[1]]
    BY JobStepFrame DEF TypeInv, Runs
  <1> QED BY <1>1 DEF State, InStep, Run

\* A step that reports nothing changes no run.
LEMMA QuietRuns ==
    ASSUME TypeInv, NEW j \in Jobs, JobStep(j), Quiet(j), NEW r \in Runs
    PROVE  State(r)' = State(r) /\ \A k : InStep(r, k)' <=> InStep(r, k)
  <1>1. CASE r[1] # j
    BY <1>1, OtherRuns
  <1>2. CASE r[1] = j
    BY <1>2 DEF Quiet, Converging, State, InStep, Run
  <1> QED BY <1>1, <1>2

\* A run that begins is live, and no other run or step changes.
LEMMA BegunRun ==
    ASSUME TypeInv, JobInv, NEW j \in Jobs, JobStep(j), RunBegins(j),
           NEW r0, r0 = <<j, Run(j) + 1>>
    PROVE  /\ r0 \in Runs /\ State(r0) = "none" /\ Live(r0)'
           /\ \A r \in Runs \ {r0} : State(r)' = State(r)
           /\ \A r \in Runs, k \in Steps : InStep(r, k)' <=> InStep(r, k)
  <1> DEFINE n == Run(j)
             ran == jobs[j].ran
  <1>1. n \in Nat /\ n + 1 \in 1..MaxRuns
    BY RunBounded DEF RunBegins
  <1>2. r0 \in Runs /\ r0[1] = j /\ r0[2] = n + 1
    BY <1>1 DEF Runs
  <1>3. ran \in Seq({"active", "ok", "error", "abandoned"}) /\ n = Len(ran) /\ DOMAIN ran = 1..n
    BY Fields DEF TypeInv, Run
  <1>4. PICK state \in {"active", "abandoned"} : jobs'[j].ran = Append(ran, state)
    BY DEF RunBegins
  <1>5. /\ DOMAIN jobs'[j].ran = 1..(n + 1) /\ jobs'[j].ran[n + 1] = state
        /\ \A i \in 1..n : jobs'[j].ran[i] = ran[i]
    BY <1>3, <1>4, AppendFacts
  <1>6. State(r0) = "none" /\ Live(r0)'
    <2>1. n + 1 \notin 1..n /\ n + 1 \in 1..(n + 1)
      BY <1>1
    <2>2. State(r0) = "none"
      BY <1>2, <1>3, <2>1 DEF State
    <2>3. State(r0)' = state
      BY <1>2, <1>5, <2>1 DEF State
    <2> QED BY <2>2, <2>3 DEF Live
  <1>7. ASSUME NEW r \in Runs, r # r0 PROVE State(r)' = State(r)
    <2>1. CASE r[1] # j
      BY <2>1, OtherRuns
    <2>2. CASE r[1] = j
      <3>1. r[2] \in 1..MaxRuns /\ r = <<r[1], r[2]>>
        BY DEF Runs
      <3>2. r[2] # n + 1
        BY <1>7, <2>2, <3>1
      <3>3. r[2] \in 1..(n + 1) <=> r[2] \in 1..n
        BY <1>1, <3>1, <3>2
      <3> QED BY <1>3, <1>5, <2>2, <3>3 DEF State
    <2> QED BY <2>1, <2>2
  <1>8. ASSUME NEW r \in Runs, NEW k \in Steps PROVE InStep(r, k)' <=> InStep(r, k)
    <2>1. CASE r[1] # j
      BY <2>1, OtherRuns
    <2>2. CASE r[1] = j
      BY <2>2 DEF RunBegins, InStep
    <2> QED BY <2>1, <2>2
  <1> QED BY <1>2, <1>6, <1>7, <1>8

\* A step that begins is the only change.
LEMMA BegunStep ==
    ASSUME TypeInv, JobInv, NEW j \in Jobs, JobStep(j), StepBegins(j)
    PROVE  LET r0 == <<j, Run(j)>>
               k0 == Len(jobs[j].trail)
           IN  /\ r0 \in Runs /\ k0 \in Steps /\ State(r0) = "active"
               /\ \A r \in Runs : State(r)' = State(r)
               /\ \A r \in Runs, k \in Steps :
                     InStep(r, k)' <=> InStep(r, k) \/ (r = r0 /\ k = k0)
  <1> DEFINE n == Run(j)
             r0 == <<j, n>>
             k0 == Len(jobs[j].trail)
             ran == jobs[j].ran
  <1>1. n \in 1..MaxRuns /\ k0 \in Steps
    BY RunBounded DEF StepBegins, Converging
  <1>2. r0 \in Runs /\ r0[1] = j /\ r0[2] = n
    BY <1>1 DEF Runs
  <1>3. ran \in Seq({"active", "ok", "error", "abandoned"}) /\ n = Len(ran) /\ DOMAIN ran = 1..n
    BY Fields DEF TypeInv, Run
  <1>4. State(r0) = "active"
    <2>1. RunsInv(jobs[j]) /\ jobs[j].pc \in Converging
      BY DEF JobInv, JobOK, StepBegins, Converging
    <2>2. n \in DOMAIN ran
      BY <1>1, <1>3
    <2> QED BY <1>2, <1>3, <2>1, <2>2 DEF RunsInv, State
  <1>5. ASSUME NEW r \in Runs PROVE State(r)' = State(r)
    <2>1. CASE r[1] # j
      BY <2>1, OtherRuns
    <2>2. CASE r[1] = j
      BY <2>2 DEF StepBegins, State
    <2> QED BY <2>1, <2>2
  <1>6. ASSUME NEW r \in Runs, NEW k \in Steps
        PROVE  InStep(r, k)' <=> InStep(r, k) \/ (r = r0 /\ k = k0)
    <2>1. CASE r[1] # j
      BY <1>2, <2>1, OtherRuns
    <2>2. CASE r[1] = j
      <3>1. r = r0 <=> r[2] = n
        BY <1>2, <2>2 DEF Runs
      <3>2. ~InStep(r, k)
        BY <2>2 DEF StepBegins, InStep
      <3>3. InStep(r, k)' <=> r[2] = n /\ k0 = k
        BY <2>2 DEF StepBegins, InStep, Run
      <3> QED BY <3>1, <3>2, <3>3
    <2> QED BY <2>1, <2>2
  <1> QED BY <1>1, <1>2, <1>4, <1>5, <1>6

\* A step that ends is the one that was running, and no run changes.
LEMMA EndedStep ==
    ASSUME TypeInv, JobInv, NEW j \in Jobs, JobStep(j), StepOver(j)
    PROVE  LET r0 == <<j, Run(j)>>
               k0 == Len(jobs[j].trail)
           IN  /\ r0 \in Runs /\ k0 \in Steps
               /\ \A r \in Runs : State(r)' = State(r)
               /\ \A r \in Runs, k \in Steps : InStep(r, k)' <=> InStep(r, k) /\ r # r0
               /\ \A k \in Steps : InStep(r0, k) <=> k = k0
  <1> DEFINE n == Run(j)
             r0 == <<j, n>>
             k0 == Len(jobs[j].trail)
  <1>1. n \in 1..MaxRuns /\ k0 \in Steps
    BY RunBounded DEF StepOver, Converging
  <1>2. r0 \in Runs /\ r0[1] = j /\ r0[2] = n
    BY <1>1 DEF Runs
  <1>3. ASSUME NEW r \in Runs PROVE State(r)' = State(r)
    <2>1. CASE r[1] # j
      BY <2>1, OtherRuns
    <2>2. CASE r[1] = j
      BY <2>2 DEF StepOver, State
    <2> QED BY <2>1, <2>2
  <1>4. ASSUME NEW r \in Runs, NEW k \in Steps
        PROVE  InStep(r, k)' <=> InStep(r, k) /\ r # r0
    <2>1. CASE r[1] # j
      BY <1>2, <2>1, OtherRuns
    <2>2. CASE r[1] = j
      <3>1. r = r0 <=> r[2] = n
        BY <1>2, <2>2 DEF Runs
      <3>2. ~InStep(r, k)'
        BY <2>2 DEF StepOver, InStep
      <3>3. InStep(r, k) => r[2] = n
        BY <2>2 DEF InStep
      <3> QED BY <3>1, <3>2, <3>3
    <2> QED BY <2>1, <2>2
  <1>5. ASSUME NEW k \in Steps PROVE InStep(r0, k) <=> k = k0
    BY <1>2 DEF InStep, StepOver
  <1> QED BY <1>1, <1>2, <1>3, <1>4, <1>5

\* A run that ends was active, has its outcome, and no other changes.
LEMMA EndedRun ==
    ASSUME TypeInv, JobInv, NEW j \in Jobs, JobStep(j), NEW outcome \in {"ok", "error"},
           jobs[j].pc \in Converging \ {"step"}, jobs'[j].pc # "step",
           jobs'[j].ran = [jobs[j].ran EXCEPT ![Run(j)] = outcome], NEW r0, r0 = <<j, Run(j)>>
    PROVE  /\ r0 \in Runs /\ State(r0) = "active" /\ State(r0)' = outcome
           /\ \A r \in Runs \ {r0} : State(r)' = State(r)
           /\ \A r \in Runs, k \in Steps : InStep(r, k)' <=> InStep(r, k)
  <1> DEFINE n == Run(j)
             ran == jobs[j].ran
  <1>1. n \in 1..MaxRuns
    BY RunBounded
  <1>2. r0 \in Runs /\ r0[1] = j /\ r0[2] = n
    BY <1>1 DEF Runs
  <1>3. ran \in Seq({"active", "ok", "error", "abandoned"}) /\ n = Len(ran) /\ DOMAIN ran = 1..n
    BY Fields DEF TypeInv, Run
  <1>4. /\ DOMAIN jobs'[j].ran = 1..n /\ jobs'[j].ran[n] = outcome
        /\ \A i \in 1..n : i # n => jobs'[j].ran[i] = ran[i]
    BY <1>1, <1>3
  <1>5. State(r0) = "active" /\ State(r0)' = outcome
    <2>1. RunsInv(jobs[j])
      BY DEF JobInv, JobOK
    <2>2. n \in DOMAIN ran
      BY <1>1, <1>3
    <2>3. ran[n] = "active"
      BY <1>3, <2>1, <2>2 DEF RunsInv
    <2>4. State(r0) = "active"
      BY <1>2, <2>2, <2>3 DEF State
    <2>5. State(r0)' = outcome
      BY <1>1, <1>2, <1>3, <1>4, <2>2 DEF State
    <2> QED BY <2>4, <2>5
  <1>6. ASSUME NEW r \in Runs, r # r0 PROVE State(r)' = State(r)
    <2>1. CASE r[1] # j
      BY <2>1, OtherRuns
    <2>2. CASE r[1] = j
      <3>1. r[2] # n
        BY <1>6, <2>2 DEF Runs
      <3> QED BY <1>3, <1>4, <2>2, <3>1 DEF State
    <2> QED BY <2>1, <2>2
  <1>7. ASSUME NEW r \in Runs, NEW k \in Steps PROVE InStep(r, k)' <=> InStep(r, k)
    <2>1. CASE r[1] # j
      BY <2>1, OtherRuns
    <2>2. CASE r[1] = j
      BY <2>2 DEF InStep
    <2> QED BY <2>1, <2>2
  <1> QED BY <1>2, <1>5, <1>6, <1>7

\* The handlers of an adapter, without their EXCEPTs.
LEMMA AdapterFields ==
    ASSUME NEW A \in T!Adapters
    PROVE  /\ A.kind \in {"otel", "lineage"} /\ A.runs \in [RunIds -> SUBSET Runs]
           /\ A.steps \in [RunIds \X Steps -> SUBSET Runs] /\ A.run \in [Runs -> T!Shown]
           /\ A.step \in [Runs \X Steps -> T!Shown]
  BY DEF T!Adapters

\* A run is remembered and shown open, or the client did not deliver its start.
LEMMA StartRunHandled ==
    ASSUME NEW A \in T!Adapters, NEW i \in RunIds, NEW r \in Runs, NEW sent \in BOOLEAN
    PROVE  LET B == T!StartRun(A, i, r, sent)
           IN  \/ B = A /\ ~sent
               \/ /\ B \in T!Adapters /\ B.steps = A.steps /\ B.step = A.step
                  /\ B.runs[i] = {r} /\ B.run[r] = "open"
                  /\ \A x \in RunIds \ {i} : B.runs[x] = A.runs[x]
                  /\ \A x \in Runs \ {r} : B.run[x] = A.run[x]
  <1> DEFINE B == T!StartRun(A, i, r, sent)
  <1>1. CASE A.kind = "lineage" /\ ~sent
    BY <1>1 DEF T!StartRun
  <1>2. CASE ~(A.kind = "lineage" /\ ~sent)
    <2>1. B = [A EXCEPT !.runs[i] = {r}, !.run[r] = "open"]
      BY <1>2 DEF T!StartRun
    <2>2. /\ B.runs = [A.runs EXCEPT ![i] = {r}] /\ B.run = [A.run EXCEPT ![r] = "open"]
          /\ B.steps = A.steps /\ B.step = A.step
      BY <2>1 DEF T!Adapters
    <2>3. "open" \in T!Shown
      BY DEF T!Shown
    <2>4. B.runs \in [RunIds -> SUBSET Runs] /\ B.run \in [Runs -> T!Shown]
      BY <2>2, <2>3, AdapterFields
    <2>5. B \in T!Adapters
      BY <2>1, <2>2, <2>4 DEF T!Adapters
    <2> QED BY <2>2, <2>5, AdapterFields
  <1> QED BY <1>1, <1>2

\* A step is remembered and shown open, or its start was not delivered or its run
\* is not known.
LEMMA StartStepHandled ==
    ASSUME NEW A \in T!Adapters, NEW i \in RunIds, NEW r \in Runs, NEW k \in Steps,
           NEW sent \in BOOLEAN
    PROVE  LET B == T!StartStep(A, i, r, k, sent)
           IN  \/ B = A /\ (~sent \/ A.runs[i] = {})
               \/ /\ B \in T!Adapters /\ B.runs = A.runs /\ B.run = A.run
                  /\ B.steps[<<i, k>>] = {r} /\ B.step[<<r, k>>] = "open"
                  /\ \A x \in RunIds, y \in Steps : x # i \/ y # k => B.steps[<<x, y>>] = A.steps[<<x, y>>]
                  /\ \A x \in Runs, y \in Steps : x # r \/ y # k => B.step[<<x, y>>] = A.step[<<x, y>>]
  <1> DEFINE B == T!StartStep(A, i, r, k, sent)
  <1>1. CASE A.kind = "lineage" /\ (A.runs[i] = {} \/ ~sent)
    BY <1>1 DEF T!StartStep
  <1>2. CASE ~(A.kind = "lineage" /\ (A.runs[i] = {} \/ ~sent))
    <2>1. B = [A EXCEPT !.steps[<<i, k>>] = {r}, !.step[<<r, k>>] = "open"]
      BY <1>2 DEF T!StartStep
    <2>2. /\ B.steps = [A.steps EXCEPT ![<<i, k>>] = {r}]
          /\ B.step = [A.step EXCEPT ![<<r, k>>] = "open"]
          /\ B.runs = A.runs /\ B.run = A.run
      BY <2>1 DEF T!Adapters
    <2>3. "open" \in T!Shown /\ <<i, k>> \in RunIds \X Steps /\ <<r, k>> \in Runs \X Steps
      BY DEF T!Shown
    <2>4. B.steps \in [RunIds \X Steps -> SUBSET Runs] /\ B.step \in [Runs \X Steps -> T!Shown]
      BY <2>2, <2>3, AdapterFields
    <2>5. B \in T!Adapters
      BY <2>1, <2>2, <2>4 DEF T!Adapters
    <2> QED BY <2>2, <2>3, <2>5, AdapterFields
  <1> QED BY <1>1, <1>2

\* A run is forgotten if it was remembered.
LEMMA FinishRunHandled ==
    ASSUME NEW A \in T!Adapters, NEW i \in RunIds, NEW r \in Runs, NEW outcome \in {"ok", "error"},
           NEW sent \in BOOLEAN
    PROVE  LET B == T!FinishRun(A, i, r, outcome, sent)
           IN  \/ B = A /\ A.runs[i] = {}
               \/ /\ B \in T!Adapters /\ B.steps = A.steps /\ B.step = A.step
                  /\ A.runs[i] # {} /\ B.runs[i] = {}
                  /\ \A x \in RunIds \ {i} : B.runs[x] = A.runs[x]
  <1> DEFINE B == T!FinishRun(A, i, r, outcome, sent)
             ended == IF A.kind = "otel" THEN A.runs[i] ELSE {r}
             run == [x \in Runs |-> IF x \in ended /\ (A.kind = "otel" \/ sent)
                                    THEN outcome ELSE A.run[x]]
  <1>1. CASE A.runs[i] = {}
    BY <1>1 DEF T!FinishRun
  <1>2. CASE A.runs[i] # {}
    <2>1. B = [A EXCEPT !.runs[i] = {}, !.run = run]
      BY <1>2 DEF T!FinishRun
    <2>2. /\ B.runs = [A.runs EXCEPT ![i] = {}] /\ B.run = run
          /\ B.steps = A.steps /\ B.step = A.step
      BY <2>1 DEF T!Adapters
    <2>3. outcome \in T!Shown
      BY DEF T!Shown
    <2>4. B.runs \in [RunIds -> SUBSET Runs] /\ B.run \in [Runs -> T!Shown]
      BY <2>2, <2>3, AdapterFields
    <2>5. B \in T!Adapters
      BY <2>1, <2>2, <2>4 DEF T!Adapters
    <2> QED BY <1>2, <2>2, <2>5, AdapterFields
  <1> QED BY <1>1, <1>2

\* A step is forgotten if it was remembered.
LEMMA FinishStepHandled ==
    ASSUME NEW A \in T!Adapters, NEW i \in RunIds, NEW r \in Runs, NEW k \in Steps,
           NEW outcome \in {"ok", "error"}, NEW sent \in BOOLEAN
    PROVE  LET B == T!FinishStep(A, i, r, k, outcome, sent)
           IN  \/ B = A /\ A.steps[<<i, k>>] = {}
               \/ /\ B \in T!Adapters /\ B.runs = A.runs /\ B.run = A.run
                  /\ A.steps[<<i, k>>] # {} /\ B.steps[<<i, k>>] = {}
                  /\ \A x \in RunIds, y \in Steps :
                        x # i \/ y # k => B.steps[<<x, y>>] = A.steps[<<x, y>>]
  <1> DEFINE B == T!FinishStep(A, i, r, k, outcome, sent)
             step == [s \in Runs \X Steps |->
                        IF /\ s[2] = k /\ s[1] \in A.steps[<<i, k>>]
                           /\ A.kind = "otel" \/ sent
                        THEN outcome ELSE A.step[s]]
  <1>1. CASE A.steps[<<i, k>>] = {}
    BY <1>1 DEF T!FinishStep
  <1>2. CASE A.steps[<<i, k>>] # {}
    <2>1. B = [A EXCEPT !.steps[<<i, k>>] = {}, !.step = step]
      BY <1>2 DEF T!FinishStep
    <2>2. /\ B.steps = [A.steps EXCEPT ![<<i, k>>] = {}] /\ B.step = step
          /\ B.runs = A.runs /\ B.run = A.run
      BY <2>1 DEF T!Adapters
    <2>3. outcome \in T!Shown /\ <<i, k>> \in RunIds \X Steps
      BY DEF T!Shown
    <2>4. B.steps \in [RunIds \X Steps -> SUBSET Runs] /\ B.step \in [Runs \X Steps -> T!Shown]
      BY <2>2, <2>3, AdapterFields
    <2>5. B \in T!Adapters
      BY <2>1, <2>2, <2>4 DEF T!Adapters
    <2>6. \A x \in RunIds, y \in Steps :
            x # i \/ y # k => B.steps[<<x, y>>] = A.steps[<<x, y>>]
      BY <2>2, AdapterFields
    <2> QED BY <1>2, <2>2, <2>3, <2>5, <2>6, AdapterFields
  <1> QED BY <1>1, <1>2

-----------------------------------------------------------------------------
\* What an adapter remembers is of a run that is live, or of a step that runs.
Remembers(A) ==
    \A i \in RunIds :
        /\ A.runs[i] # {} => Watched(i) /\ \E r \in Runs : IdOf(r) = i /\ Live(r)
        /\ \A k \in Steps : A.steps[<<i, k>>] # {} =>
              Watched(i) /\ \E r \in Runs : IdOf(r) = i /\ InStep(r, k)

\* With ids of their own, each run and step is remembered under its id, and shown.
Shows(A) ==
    \A r \in Runs :
        /\ A.runs[r] = IF Watched(r) /\ Live(r) THEN {r} ELSE {}
        /\ A.run[r] = IF ~Watched(r) THEN "none" ELSE IF Live(r) THEN "open" ELSE State(r)
        /\ \A k \in Steps :
              /\ A.steps[<<r, k>>] = IF Watched(r) /\ InStep(r, k) THEN {r} ELSE {}
              /\ (A.step[<<r, k>>] = "open") <=> (Watched(r) /\ InStep(r, k))

Tells(A) ==
    /\ A \in T!Adapters
    /\ Remembers(A)
    /\ cfg.ids = "fresh" /\ ~cfg.flaky => Shows(A)

TeleInv ==
    /\ tele = [a \in {"otel", "lineage"} |-> tele[a]]
    /\ \A a \in {"otel", "lineage"} : Tells(tele[a])

\* An adapter after an event the publisher may have let through.
Told(A, ev, sent) == IF T!Passes(cfg.mode, ev) THEN T!Handle(A, ev, sent) ELSE A

\* The events of a watched id pass, of others at most failures.
LEMMA Passing ==
    ASSUME NEW j, NEW type, NEW n, NEW r0, r0 = <<j, n>>, r0 \in Runs,
           NEW ev, ev = Event(j, type, n)
    PROVE  /\ ev.type = type /\ ev.run = r0 /\ ev.id = IdOf(r0) /\ ev.step = Len(jobs[j].trail)
           /\ IdOf(r0) \in RunIds
           /\ Watched(IdOf(r0)) => T!Passes(cfg.mode, ev)
           /\ ~Watched(IdOf(r0)) /\ type \notin {"RunFailed", "StepFailed"} => ~T!Passes(cfg.mode, ev)
  <1>1. ev.type = type /\ ev.run = r0 /\ ev.id = IdOf(r0) /\ ev.step = Len(jobs[j].trail)
    BY DEF Event, IdOf
  <1>2. IdOf(r0) \in RunIds
    BY DEF IdOf, RunIds
  <1> QED BY <1>1, <1>2 DEF T!Passes, Watched

\* An event is handled by the handler of its type.
LEMMA Handled ==
    ASSUME NEW A, NEW ev, NEW sent
    PROVE  /\ ev.type = "RunStarted" => T!Handle(A, ev, sent) = T!StartRun(A, ev.id, ev.run, sent)
           /\ ev.type = "StepStarted" =>
                 T!Handle(A, ev, sent) = T!StartStep(A, ev.id, ev.run, ev.step, sent)
           /\ ev.type = "RunCompleted" =>
                 T!Handle(A, ev, sent) = T!FinishRun(A, ev.id, ev.run, "ok", sent)
           /\ ev.type = "RunFailed" =>
                 T!Handle(A, ev, sent) = T!FinishRun(A, ev.id, ev.run, "error", sent)
           /\ ev.type = "StepCompleted" =>
                 T!Handle(A, ev, sent) = T!FinishStep(A, ev.id, ev.run, ev.step, "ok", sent)
           /\ ev.type = "StepFailed" =>
                 T!Handle(A, ev, sent) = T!FinishStep(A, ev.id, ev.run, ev.step, "error", sent)
  BY DEF T!Handle

\* Whose events pass does not change.
LEMMA WatchedAlways ==
    ASSUME cfg' = cfg
    PROVE  \A x : (Watched(x)' <=> Watched(x)) /\ IdOf(x)' = IdOf(x)
  BY DEF Watched, IdOf

\* RunStarted leaves an adapter telling the runs.
LEMMA RunStartTold ==
    ASSUME TypeInv, JobInv, NEW j \in Jobs, JobStep(j), RunBegins(j), NEW A, Tells(A),
           NEW sent \in BOOLEAN, ~cfg.flaky => sent,
           NEW B, B = Told(A, Event(j, "RunStarted", Run(j) + 1), sent)
    PROVE  Tells(B)'
  <1>1. PICK r0 : r0 = <<j, Run(j) + 1>>
    OBVIOUS
  <1>2. PICK i0 : i0 = IdOf(r0)
    OBVIOUS
  <1>3. PICK ev : ev = Event(j, "RunStarted", Run(j) + 1)
    OBVIOUS
  <1>4. cfg' = cfg /\ A \in T!Adapters /\ Remembers(A)
    BY JobStepFrame DEF TypeInv, Tells
  <1>5. /\ r0 \in Runs /\ State(r0) = "none" /\ Live(r0)'
        /\ \A r \in Runs \ {r0} : State(r)' = State(r)
        /\ \A r \in Runs, k \in Steps : InStep(r, k)' <=> InStep(r, k)
    BY <1>1, BegunRun
  <1>6. /\ ev.type = "RunStarted" /\ ev.run = r0 /\ ev.id = i0 /\ i0 \in RunIds
        /\ Watched(i0) <=> T!Passes(cfg.mode, ev)
    BY <1>1, <1>2, <1>3, <1>5, Passing
  <1>7. \A r \in Runs : Live(r) => Live(r)'
    BY <1>5 DEF Live
  <1>8. \A x : (Watched(x)' <=> Watched(x)) /\ IdOf(x)' = IdOf(x)
    BY <1>4, WatchedAlways
  <1>9. IF Watched(i0) THEN B = T!StartRun(A, i0, r0, sent) ELSE B = A
    BY <1>3, <1>6, Handled DEF Told
  <1>10. \/ B = A /\ (~Watched(i0) \/ ~sent)
         \/ /\ Watched(i0) /\ B \in T!Adapters /\ B.steps = A.steps /\ B.step = A.step
            /\ B.runs[i0] = {r0} /\ B.run[r0] = "open"
            /\ \A x \in RunIds \ {i0} : B.runs[x] = A.runs[x]
            /\ \A x \in Runs \ {r0} : B.run[x] = A.run[x]
    BY <1>4, <1>5, <1>6, <1>9, StartRunHandled
  <1>11. Remembers(B)'
    <2> SUFFICES ASSUME NEW i \in RunIds
                 PROVE  /\ B.runs[i] # {} => Watched(i)' /\ \E r \in Runs : IdOf(r)' = i /\ Live(r)'
                        /\ \A k \in Steps : B.steps[<<i, k>>] # {} =>
                              Watched(i)' /\ \E r \in Runs : IdOf(r)' = i /\ InStep(r, k)'
      BY DEF Remembers
    <2>1. \A k \in Steps : B.steps[<<i, k>>] # {} =>
                              Watched(i)' /\ \E r \in Runs : IdOf(r)' = i /\ InStep(r, k)'
      BY <1>4, <1>5, <1>8, <1>10 DEF Remembers
    <2>2. ASSUME B.runs[i] # {} PROVE Watched(i)' /\ \E r \in Runs : IdOf(r)' = i /\ Live(r)'
      <3>1. CASE B.runs[i] = A.runs[i]
        BY <1>4, <1>7, <1>8, <2>2, <3>1 DEF Remembers
      <3>2. CASE B.runs[i] # A.runs[i]
        <4>1. i = i0 /\ Watched(i0)
          BY <1>10, <3>2
        <4> QED BY <1>2, <1>5, <1>8, <4>1
      <3> QED BY <3>1, <3>2
    <2> QED BY <2>1, <2>2
  <1>12. ASSUME (cfg.ids = "fresh" /\ ~cfg.flaky)' PROVE Shows(B)'
    <2>1. Shows(A) /\ sent /\ i0 = r0 /\ Runs \subseteq RunIds
      BY <1>2, <1>4, <1>12 DEF Tells, IdOf, RunIds
    <2> SUFFICES ASSUME NEW r \in Runs
                 PROVE  /\ B.runs[r] = IF Watched(r)' /\ Live(r)' THEN {r} ELSE {}
                        /\ B.run[r] = IF ~Watched(r)' THEN "none"
                                      ELSE IF Live(r)' THEN "open" ELSE State(r)'
                        /\ \A k \in Steps :
                              /\ B.steps[<<r, k>>] = IF Watched(r)' /\ InStep(r, k)' THEN {r} ELSE {}
                              /\ (B.step[<<r, k>>] = "open") <=> (Watched(r)' /\ InStep(r, k)')
      BY DEF Shows
    <2>2. \A k \in Steps :
             /\ B.steps[<<r, k>>] = IF Watched(r)' /\ InStep(r, k)' THEN {r} ELSE {}
             /\ (B.step[<<r, k>>] = "open") <=> (Watched(r)' /\ InStep(r, k)')
      <3>1. B.steps = A.steps /\ B.step = A.step
        BY <1>10
      <3>2. \A k \in Steps :
             /\ A.steps[<<r, k>>] = IF Watched(r) /\ InStep(r, k) THEN {r} ELSE {}
             /\ (A.step[<<r, k>>] = "open") <=> (Watched(r) /\ InStep(r, k))
        BY <2>1 DEF Shows
      <3> QED BY <1>5, <1>8, <3>1, <3>2
    <2>3. CASE r # r0
      <3>1. (Live(r)' <=> Live(r)) /\ State(r)' = State(r)
        BY <1>5, <2>3 DEF Live
      <3>2. B.runs[r] = A.runs[r] /\ B.run[r] = A.run[r]
        BY <1>10, <2>1, <2>3
      <3> QED BY <1>8, <2>1, <2>2, <3>1, <3>2 DEF Shows
    <2>4. CASE r = r0
      <3>1. CASE Watched(r0)
        BY <1>5, <1>8, <1>10, <2>1, <2>2, <2>4, <3>1
      <3>2. CASE ~Watched(r0)
        BY <1>8, <1>10, <2>1, <2>2, <2>4, <3>2 DEF Shows
      <3> QED BY <3>1, <3>2
    <2> QED BY <2>3, <2>4
  <1>13. B \in T!Adapters
    BY <1>4, <1>10
  <1>14. (B \in T!Adapters)'
    BY <1>13
  <1> QED BY <1>11, <1>12, <1>14 DEF Tells

\* So does StepStarted, whose run a lineage adapter that tells the runs remembers.
LEMMA StepStartTold ==
    ASSUME TypeInv, JobInv, NEW j \in Jobs, JobStep(j), StepBegins(j), NEW A, Tells(A),
           NEW sent \in BOOLEAN, ~cfg.flaky => sent,
           NEW B, B = Told(A, Event(j, "StepStarted", Run(j)), sent)
    PROVE  Tells(B)'
  <1>1. PICK r0 : r0 = <<j, Run(j)>>
    OBVIOUS
  <1>2. PICK i0 : i0 = IdOf(r0)
    OBVIOUS
  <1>3. PICK k0 : k0 = Len(jobs[j].trail)
    OBVIOUS
  <1>4. PICK ev : ev = Event(j, "StepStarted", Run(j))
    OBVIOUS
  <1>5. cfg' = cfg /\ A \in T!Adapters /\ Remembers(A)
    BY JobStepFrame DEF TypeInv, Tells
  <1>6. /\ r0 \in Runs /\ k0 \in Steps /\ State(r0) = "active"
        /\ \A r \in Runs : State(r)' = State(r)
        /\ \A r \in Runs, k \in Steps : InStep(r, k)' <=> InStep(r, k) \/ (r = r0 /\ k = k0)
    BY <1>1, <1>3, BegunStep
  <1>7. /\ ev.type = "StepStarted" /\ ev.run = r0 /\ ev.id = i0 /\ i0 \in RunIds /\ ev.step = k0
        /\ Watched(i0) <=> T!Passes(cfg.mode, ev)
    BY <1>1, <1>2, <1>3, <1>4, <1>6, Passing
  <1>8. \A r \in Runs : Live(r)' <=> Live(r)
    BY <1>6 DEF Live
  <1>9. \A x : (Watched(x)' <=> Watched(x)) /\ IdOf(x)' = IdOf(x)
    BY <1>5, WatchedAlways
  <1>10. IF Watched(i0) THEN B = T!StartStep(A, i0, r0, k0, sent) ELSE B = A
    BY <1>4, <1>7, Handled DEF Told
  <1>11. \/ B = A /\ (~Watched(i0) \/ ~sent \/ A.runs[i0] = {})
         \/ /\ Watched(i0) /\ B \in T!Adapters /\ B.runs = A.runs /\ B.run = A.run
            /\ B.steps[<<i0, k0>>] = {r0} /\ B.step[<<r0, k0>>] = "open"
            /\ \A x \in RunIds, y \in Steps : x # i0 \/ y # k0 => B.steps[<<x, y>>] = A.steps[<<x, y>>]
            /\ \A x \in Runs, y \in Steps : x # r0 \/ y # k0 => B.step[<<x, y>>] = A.step[<<x, y>>]
    BY <1>5, <1>6, <1>7, <1>10, StartStepHandled
  <1>12. B.runs = A.runs /\ B.run = A.run
    BY <1>11
  <1>13. Remembers(B)'
    <2> SUFFICES ASSUME NEW i \in RunIds
                 PROVE  /\ B.runs[i] # {} => Watched(i)' /\ \E r \in Runs : IdOf(r)' = i /\ Live(r)'
                        /\ \A k \in Steps : B.steps[<<i, k>>] # {} =>
                              Watched(i)' /\ \E r \in Runs : IdOf(r)' = i /\ InStep(r, k)'
      BY DEF Remembers
    <2>1. B.runs[i] # {} => Watched(i)' /\ \E r \in Runs : IdOf(r)' = i /\ Live(r)'
      BY <1>5, <1>8, <1>9, <1>12 DEF Remembers
    <2>2. ASSUME NEW k \in Steps, B.steps[<<i, k>>] # {}
          PROVE  Watched(i)' /\ \E r \in Runs : IdOf(r)' = i /\ InStep(r, k)'
      <3>1. CASE B.steps[<<i, k>>] = A.steps[<<i, k>>]
        <4>1. Watched(i) /\ \E r \in Runs : IdOf(r) = i /\ InStep(r, k)
          BY <1>5, <2>2, <3>1 DEF Remembers
        <4> QED BY <1>6, <1>9, <4>1
      <3>2. CASE B.steps[<<i, k>>] # A.steps[<<i, k>>]
        <4>1. i = i0 /\ k = k0 /\ Watched(i0)
          BY <1>11, <3>2
        <4> QED BY <1>2, <1>6, <1>9, <4>1
      <3> QED BY <3>1, <3>2
    <2> QED BY <2>1, <2>2
  <1>14. ASSUME (cfg.ids = "fresh" /\ ~cfg.flaky)' PROVE Shows(B)'
    <2>1. Shows(A) /\ sent /\ i0 = r0 /\ Runs \subseteq RunIds
      BY <1>2, <1>5, <1>14 DEF Tells, IdOf, RunIds
    <2> SUFFICES ASSUME NEW r \in Runs
                 PROVE  /\ B.runs[r] = IF Watched(r)' /\ Live(r)' THEN {r} ELSE {}
                        /\ B.run[r] = IF ~Watched(r)' THEN "none"
                                      ELSE IF Live(r)' THEN "open" ELSE State(r)'
                        /\ \A k \in Steps :
                              /\ B.steps[<<r, k>>] = IF Watched(r)' /\ InStep(r, k)' THEN {r} ELSE {}
                              /\ (B.step[<<r, k>>] = "open") <=> (Watched(r)' /\ InStep(r, k)')
      BY DEF Shows
    <2>2. /\ B.runs[r] = IF Watched(r)' /\ Live(r)' THEN {r} ELSE {}
          /\ B.run[r] = IF ~Watched(r)' THEN "none"
                        ELSE IF Live(r)' THEN "open" ELSE State(r)'
      <3>1. /\ A.runs[r] = IF Watched(r) /\ Live(r) THEN {r} ELSE {}
            /\ A.run[r] = IF ~Watched(r) THEN "none" ELSE IF Live(r) THEN "open" ELSE State(r)
        BY <2>1 DEF Shows
      <3> QED BY <1>6, <1>8, <1>9, <1>12, <3>1
    <2>3. ASSUME NEW k \in Steps
          PROVE  /\ B.steps[<<r, k>>] = IF Watched(r)' /\ InStep(r, k)' THEN {r} ELSE {}
                 /\ (B.step[<<r, k>>] = "open") <=> (Watched(r)' /\ InStep(r, k)')
      <3>1. /\ A.steps[<<r, k>>] = IF Watched(r) /\ InStep(r, k) THEN {r} ELSE {}
            /\ (A.step[<<r, k>>] = "open") <=> (Watched(r) /\ InStep(r, k))
        BY <2>1 DEF Shows
      <3>2. CASE r # r0 \/ k # k0
        <4>1. <<r, k>> # <<r0, k0>> /\ <<r, k>> \in RunIds \X Steps /\ <<r, k>> \in Runs \X Steps
          BY <2>1, <3>2
        <4>2. B.steps[<<r, k>>] = A.steps[<<r, k>>] /\ B.step[<<r, k>>] = A.step[<<r, k>>]
          BY <1>11, <2>1, <4>1
        <4> QED BY <1>6, <1>9, <3>1, <3>2, <4>2
      <3>3. CASE r = r0 /\ k = k0
        <4>1. CASE Watched(r0)
          <5>1. A.runs[r0] = {r0}
            BY <1>6, <2>1, <4>1 DEF Shows, Live
          <5>2. B.steps[<<r0, k0>>] = {r0} /\ B.step[<<r0, k0>>] = "open"
            BY <1>11, <2>1, <4>1, <5>1
          <5> QED BY <1>6, <1>9, <3>3, <4>1, <5>2
        <4>2. CASE ~Watched(r0)
          BY <1>9, <1>11, <2>1, <3>1, <3>3, <4>2
        <4> QED BY <4>1, <4>2
      <3> QED BY <3>2, <3>3
    <2> QED BY <2>2, <2>3
  <1>15. B \in T!Adapters
    BY <1>5, <1>11
  <1>16. (B \in T!Adapters)'
    BY <1>15
  <1> QED BY <1>13, <1>14, <1>16 DEF Tells

\* So do StepCompleted and StepFailed: a failure that mode "errors" lets through
\* finds nothing to finish.
LEMMA StepEndTold ==
    ASSUME TypeInv, JobInv, NEW j \in Jobs, JobStep(j), StepOver(j), NEW A, Tells(A),
           NEW sent \in BOOLEAN, ~cfg.flaky => sent, NEW type \in {"StepCompleted", "StepFailed"},
           NEW B, B = Told(A, Event(j, type, Run(j)), sent)
    PROVE  Tells(B)'
  <1>1. PICK r0 : r0 = <<j, Run(j)>>
    OBVIOUS
  <1>2. PICK i0 : i0 = IdOf(r0)
    OBVIOUS
  <1>3. PICK k0 : k0 = Len(jobs[j].trail)
    OBVIOUS
  <1>4. PICK ev : ev = Event(j, type, Run(j))
    OBVIOUS
  <1>5. cfg' = cfg /\ A \in T!Adapters /\ Remembers(A)
    BY JobStepFrame DEF TypeInv, Tells
  <1>6. /\ r0 \in Runs /\ k0 \in Steps
        /\ \A r \in Runs : State(r)' = State(r)
        /\ \A r \in Runs, k \in Steps : InStep(r, k)' <=> InStep(r, k) /\ r # r0
        /\ \A k \in Steps : InStep(r0, k) <=> k = k0
    BY <1>1, <1>3, EndedStep
  <1>7. /\ ev.type = type /\ ev.run = r0 /\ ev.id = i0 /\ i0 \in RunIds /\ ev.step = k0
        /\ Watched(i0) => T!Passes(cfg.mode, ev)
    BY <1>1, <1>2, <1>3, <1>4, <1>6, Passing
  <1>8. \A r \in Runs : Live(r)' <=> Live(r)
    BY <1>6 DEF Live
  <1>9. \A x : (Watched(x)' <=> Watched(x)) /\ IdOf(x)' = IdOf(x)
    BY <1>5, WatchedAlways
  <1>10. PICK outcome \in {"ok", "error"} :
            \/ B = T!FinishStep(A, i0, r0, k0, outcome, sent)
            \/ B = A /\ ~Watched(i0)
    BY <1>4, <1>7, Handled DEF Told
  <1>11. A.steps[<<i0, k0>>] # {} => Watched(i0)
    BY <1>5, <1>6, <1>7 DEF Remembers
  <1>a. /\ A \in T!Adapters /\ i0 \in RunIds /\ r0 \in Runs /\ k0 \in Steps
        /\ outcome \in {"ok", "error"}
    BY <1>5, <1>6, <1>7, <1>10
  <1>12. \/ B = A /\ A.steps[<<i0, k0>>] = {}
         \/ /\ B \in T!Adapters /\ B.runs = A.runs /\ B.run = A.run
            /\ A.steps[<<i0, k0>>] # {} /\ B.steps[<<i0, k0>>] = {}
            /\ \A x \in RunIds, y \in Steps :
                  x # i0 \/ y # k0 => B.steps[<<x, y>>] = A.steps[<<x, y>>]
    <2>1. CASE B = A /\ ~Watched(i0)
      BY <1>11, <2>1
    <2>2. CASE B = T!FinishStep(A, i0, r0, k0, outcome, sent)
      BY <1>a, <2>2, FinishStepHandled, SMTT(30)
    <2> QED BY <1>10, <2>1, <2>2
  <1>b. sent /\ A.steps[<<i0, k0>>] = {r0} =>
            /\ B.step[<<r0, k0>>] = outcome
            /\ \A x \in Runs, y \in Steps :
                  x # r0 \/ y # k0 => B.step[<<x, y>>] = A.step[<<x, y>>]
    <2> SUFFICES ASSUME sent, A.steps[<<i0, k0>>] = {r0}
                 PROVE  /\ B.step[<<r0, k0>>] = outcome
                        /\ \A x \in Runs, y \in Steps :
                              x # r0 \/ y # k0 => B.step[<<x, y>>] = A.step[<<x, y>>]
      OBVIOUS
    <2> DEFINE step == [s \in Runs \X Steps |->
                         IF /\ s[2] = k0 /\ s[1] \in A.steps[<<i0, k0>>]
                            /\ A.kind = "otel" \/ sent
                         THEN outcome ELSE A.step[s]]
    <2>1. B = T!FinishStep(A, i0, r0, k0, outcome, sent)
      BY <1>10, <1>11
    <2>2. B = [A EXCEPT !.steps[<<i0, k0>>] = {}, !.step = step]
      BY <2>1 DEF T!FinishStep
    <2>3. B.step = step
      BY <1>a, <2>2 DEF T!Adapters
    <2>4. \A s \in Runs \X Steps : step[s] = IF s = <<r0, k0>> THEN outcome ELSE A.step[s]
      OBVIOUS
    <2>5. \A x \in Runs, y \in Steps : <<x, y>> \in Runs \X Steps
      OBVIOUS
    <2> QED BY <1>a, <2>3, <2>4, <2>5
  <1>13. B.runs = A.runs /\ B.run = A.run /\ B.steps[<<i0, k0>>] = {}
    BY <1>12
  <1>14. Remembers(B)'
    <2> SUFFICES ASSUME NEW i \in RunIds
                 PROVE  /\ B.runs[i] # {} => Watched(i)' /\ \E r \in Runs : IdOf(r)' = i /\ Live(r)'
                        /\ \A k \in Steps : B.steps[<<i, k>>] # {} =>
                              Watched(i)' /\ \E r \in Runs : IdOf(r)' = i /\ InStep(r, k)'
      BY DEF Remembers
    <2>1. B.runs[i] # {} => Watched(i)' /\ \E r \in Runs : IdOf(r)' = i /\ Live(r)'
      BY <1>5, <1>8, <1>9, <1>13 DEF Remembers
    <2>2. ASSUME NEW k \in Steps, B.steps[<<i, k>>] # {}
          PROVE  Watched(i)' /\ \E r \in Runs : IdOf(r)' = i /\ InStep(r, k)'
      <3>1. i # i0 \/ k # k0
        BY <1>13, <2>2
      <3>2. B.steps[<<i, k>>] = A.steps[<<i, k>>]
        BY <1>12, <3>1
      <3>3. Watched(i) /\ \E r \in Runs : IdOf(r) = i /\ InStep(r, k)
        BY <1>5, <2>2, <3>2 DEF Remembers
      <3>4. PICK r \in Runs : IdOf(r) = i /\ InStep(r, k)
        BY <3>3
      <3>5. r # r0
        BY <1>2, <1>6, <3>1, <3>4
      <3> QED BY <1>6, <1>9, <3>3, <3>4, <3>5
    <2> QED BY <2>1, <2>2
  <1>15. ASSUME (cfg.ids = "fresh" /\ ~cfg.flaky)' PROVE Shows(B)'
    <2>1. Shows(A) /\ sent /\ i0 = r0 /\ Runs \subseteq RunIds
      BY <1>2, <1>5, <1>15 DEF Tells, IdOf, RunIds
    <2> SUFFICES ASSUME NEW r \in Runs
                 PROVE  /\ B.runs[r] = IF Watched(r)' /\ Live(r)' THEN {r} ELSE {}
                        /\ B.run[r] = IF ~Watched(r)' THEN "none"
                                      ELSE IF Live(r)' THEN "open" ELSE State(r)'
                        /\ \A k \in Steps :
                              /\ B.steps[<<r, k>>] = IF Watched(r)' /\ InStep(r, k)' THEN {r} ELSE {}
                              /\ (B.step[<<r, k>>] = "open") <=> (Watched(r)' /\ InStep(r, k)')
      BY DEF Shows
    <2>2. /\ B.runs[r] = IF Watched(r)' /\ Live(r)' THEN {r} ELSE {}
          /\ B.run[r] = IF ~Watched(r)' THEN "none"
                        ELSE IF Live(r)' THEN "open" ELSE State(r)'
      <3>1. /\ A.runs[r] = IF Watched(r) /\ Live(r) THEN {r} ELSE {}
            /\ A.run[r] = IF ~Watched(r) THEN "none" ELSE IF Live(r) THEN "open" ELSE State(r)
        BY <2>1 DEF Shows
      <3> QED BY <1>6, <1>8, <1>9, <1>13, <3>1
    <2>3. A.steps[<<r0, k0>>] = IF Watched(r0) THEN {r0} ELSE {}
      BY <1>6, <2>1 DEF Shows
    <2>4. ASSUME NEW k \in Steps
          PROVE  /\ B.steps[<<r, k>>] = IF Watched(r)' /\ InStep(r, k)' THEN {r} ELSE {}
                 /\ (B.step[<<r, k>>] = "open") <=> (Watched(r)' /\ InStep(r, k)')
      <3>1. /\ A.steps[<<r, k>>] = IF Watched(r) /\ InStep(r, k) THEN {r} ELSE {}
            /\ (A.step[<<r, k>>] = "open") <=> (Watched(r) /\ InStep(r, k))
        BY <2>1 DEF Shows
      <3>2. CASE r # r0 \/ k # k0
        <4>1. <<r, k>> # <<r0, k0>> /\ <<r, k>> \in RunIds \X Steps /\ <<r, k>> \in Runs \X Steps
          BY <2>1, <3>2
        <4>2. B.steps[<<r, k>>] = A.steps[<<r, k>>] /\ B.step[<<r, k>>] = A.step[<<r, k>>]
          BY <1>12, <1>b, <2>1, <2>3, <4>1
        <4>3. InStep(r, k)' <=> InStep(r, k)
          BY <1>6, <3>2
        <4> QED BY <1>9, <3>1, <4>2, <4>3
      <3>3. CASE r = r0 /\ k = k0
        <4>1. ~InStep(r, k)' /\ B.steps[<<r, k>>] = {}
          BY <1>6, <1>13, <2>1, <3>3
        <4>2. B.step[<<r, k>>] # "open"
          <5>1. CASE Watched(r0)
            BY <1>a, <1>b, <2>1, <2>3, <3>3, <5>1
          <5>2. CASE ~Watched(r0)
            BY <1>12, <2>1, <2>3, <3>1, <3>3, <5>2
          <5> QED BY <5>1, <5>2
        <4> QED BY <4>1, <4>2
      <3> QED BY <3>2, <3>3
    <2> QED BY <2>2, <2>4
  <1>16. B \in T!Adapters
    BY <1>5, <1>12
  <1>17. (B \in T!Adapters)'
    BY <1>16
  <1> QED BY <1>14, <1>15, <1>17 DEF Tells

\* So do RunCompleted and RunFailed.
LEMMA RunEndTold ==
    ASSUME TypeInv, JobInv, NEW j \in Jobs, JobStep(j), NEW A, Tells(A),
           NEW sent \in BOOLEAN, ~cfg.flaky => sent, NEW type \in {"RunCompleted", "RunFailed"},
           jobs[j].pc \in Converging \ {"step"}, jobs'[j].pc # "step",
           jobs'[j].ran = [jobs[j].ran EXCEPT
                             ![Run(j)] = IF type = "RunCompleted" THEN "ok" ELSE "error"],
           NEW B, B = Told(A, Event(j, type, Run(j)), sent)
    PROVE  Tells(B)'
  <1>1. PICK r0 : r0 = <<j, Run(j)>>
    OBVIOUS
  <1>2. PICK i0 : i0 = IdOf(r0)
    OBVIOUS
  <1>3. PICK outcome \in {"ok", "error"} :
           outcome = IF type = "RunCompleted" THEN "ok" ELSE "error"
    OBVIOUS
  <1>4. PICK ev : ev = Event(j, type, Run(j))
    OBVIOUS
  <1>5. cfg' = cfg /\ A \in T!Adapters /\ Remembers(A)
    BY JobStepFrame DEF TypeInv, Tells
  <1>6. /\ r0 \in Runs /\ State(r0) = "active" /\ State(r0)' = outcome
        /\ \A r \in Runs \ {r0} : State(r)' = State(r)
        /\ \A r \in Runs, k \in Steps : InStep(r, k)' <=> InStep(r, k)
    BY <1>1, <1>3, EndedRun
  <1>7. /\ ev.type = type /\ ev.run = r0 /\ ev.id = i0 /\ i0 \in RunIds
        /\ Watched(i0) => T!Passes(cfg.mode, ev)
    BY <1>1, <1>2, <1>4, <1>6, Passing
  <1>8. Live(r0) /\ ~Live(r0)' /\ \A r \in Runs \ {r0} : Live(r)' <=> Live(r)
    BY <1>3, <1>6 DEF Live
  <1>9. \A x : (Watched(x)' <=> Watched(x)) /\ IdOf(x)' = IdOf(x)
    BY <1>5, WatchedAlways
  <1>10. \/ B = T!FinishRun(A, i0, r0, outcome, sent)
         \/ B = A /\ ~Watched(i0)
    BY <1>3, <1>4, <1>7, Handled DEF Told
  <1>11. A.runs[i0] # {} => Watched(i0)
    BY <1>5, <1>6, <1>7 DEF Remembers
  <1>12. /\ A \in T!Adapters /\ i0 \in RunIds /\ r0 \in Runs /\ outcome \in {"ok", "error"}
    BY <1>3, <1>5, <1>6, <1>7
  <1>13. \/ B = A /\ A.runs[i0] = {}
         \/ /\ B \in T!Adapters /\ B.steps = A.steps /\ B.step = A.step
            /\ A.runs[i0] # {} /\ B.runs[i0] = {}
            /\ \A x \in RunIds \ {i0} : B.runs[x] = A.runs[x]
    <2>1. CASE B = A /\ ~Watched(i0)
      BY <1>11, <2>1
    <2>2. CASE B = T!FinishRun(A, i0, r0, outcome, sent)
      BY <1>12, <2>2, FinishRunHandled
    <2> QED BY <1>10, <2>1, <2>2
  <1>14. sent /\ A.runs[i0] = {r0} =>
            B.run[r0] = outcome /\ \A x \in Runs \ {r0} : B.run[x] = A.run[x]
    <2> SUFFICES ASSUME sent, A.runs[i0] = {r0}
                 PROVE  B.run[r0] = outcome /\ \A x \in Runs \ {r0} : B.run[x] = A.run[x]
      OBVIOUS
    <2> DEFINE ended == IF A.kind = "otel" THEN A.runs[i0] ELSE {r0}
               run == [x \in Runs |-> IF x \in ended /\ (A.kind = "otel" \/ sent)
                                      THEN outcome ELSE A.run[x]]
    <2>1. B = T!FinishRun(A, i0, r0, outcome, sent)
      BY <1>10, <1>11
    <2>2. B = [A EXCEPT !.runs[i0] = {}, !.run = run]
      BY <2>1 DEF T!FinishRun
    <2>3. B.run = run
      BY <1>12, <2>2 DEF T!Adapters
    <2>4. ended = {r0}
      OBVIOUS
    <2> QED BY <1>12, <2>3, <2>4
  <1>15. B.steps = A.steps /\ B.step = A.step /\ B.runs[i0] = {}
    BY <1>13
  <1>16. Remembers(B)'
    <2> SUFFICES ASSUME NEW i \in RunIds
                 PROVE  /\ B.runs[i] # {} => Watched(i)' /\ \E r \in Runs : IdOf(r)' = i /\ Live(r)'
                        /\ \A k \in Steps : B.steps[<<i, k>>] # {} =>
                              Watched(i)' /\ \E r \in Runs : IdOf(r)' = i /\ InStep(r, k)'
      BY DEF Remembers
    <2>1. \A k \in Steps : B.steps[<<i, k>>] # {} =>
             Watched(i)' /\ \E r \in Runs : IdOf(r)' = i /\ InStep(r, k)'
      BY <1>5, <1>6, <1>9, <1>15 DEF Remembers
    <2>2. ASSUME B.runs[i] # {} PROVE Watched(i)' /\ \E r \in Runs : IdOf(r)' = i /\ Live(r)'
      <3>1. i # i0
        BY <1>15, <2>2
      <3>2. B.runs[i] = A.runs[i]
        BY <1>13, <3>1
      <3>3. Watched(i) /\ \E r \in Runs : IdOf(r) = i /\ Live(r)
        BY <1>5, <2>2, <3>2 DEF Remembers
      <3>4. PICK r \in Runs : IdOf(r) = i /\ Live(r)
        BY <3>3
      <3>5. r # r0
        BY <1>2, <3>1, <3>4
      <3> QED BY <1>8, <1>9, <3>3, <3>4, <3>5
    <2> QED BY <2>1, <2>2
  <1>17. ASSUME (cfg.ids = "fresh" /\ ~cfg.flaky)' PROVE Shows(B)'
    <2>1. Shows(A) /\ sent /\ i0 = r0 /\ Runs \subseteq RunIds
      BY <1>2, <1>5, <1>17 DEF Tells, IdOf, RunIds
    <2> SUFFICES ASSUME NEW r \in Runs
                 PROVE  /\ B.runs[r] = IF Watched(r)' /\ Live(r)' THEN {r} ELSE {}
                        /\ B.run[r] = IF ~Watched(r)' THEN "none"
                                      ELSE IF Live(r)' THEN "open" ELSE State(r)'
                        /\ \A k \in Steps :
                              /\ B.steps[<<r, k>>] = IF Watched(r)' /\ InStep(r, k)' THEN {r} ELSE {}
                              /\ (B.step[<<r, k>>] = "open") <=> (Watched(r)' /\ InStep(r, k)')
      BY DEF Shows
    <2>2. \A k \in Steps :
             /\ B.steps[<<r, k>>] = IF Watched(r)' /\ InStep(r, k)' THEN {r} ELSE {}
             /\ (B.step[<<r, k>>] = "open") <=> (Watched(r)' /\ InStep(r, k)')
      <3>1. \A k \in Steps :
             /\ A.steps[<<r, k>>] = IF Watched(r) /\ InStep(r, k) THEN {r} ELSE {}
             /\ (A.step[<<r, k>>] = "open") <=> (Watched(r) /\ InStep(r, k))
        BY <2>1 DEF Shows
      <3> QED BY <1>6, <1>9, <1>15, <3>1
    <2>3. A.runs[r0] = IF Watched(r0) THEN {r0} ELSE {}
      BY <1>6, <1>8, <2>1 DEF Shows
    <2>4. /\ A.runs[r] = IF Watched(r) /\ Live(r) THEN {r} ELSE {}
          /\ A.run[r] = IF ~Watched(r) THEN "none" ELSE IF Live(r) THEN "open" ELSE State(r)
      BY <2>1 DEF Shows
    <2>5. CASE r # r0
      <3>1. B.runs[r] = A.runs[r] /\ B.run[r] = A.run[r]
        BY <1>13, <1>14, <2>1, <2>3, <2>5
      <3>2. (Live(r)' <=> Live(r)) /\ State(r)' = State(r)
        BY <1>6, <1>8, <2>5
      <3> QED BY <1>9, <2>2, <2>4, <3>1, <3>2
    <2>6. CASE r = r0
      <3>1. B.runs[r] = {} /\ ~Live(r)' /\ State(r)' = outcome
        BY <1>6, <1>8, <1>15, <2>1, <2>6
      <3>2. B.run[r] = IF ~Watched(r) THEN "none" ELSE outcome
        <4>1. CASE Watched(r0)
          BY <1>14, <2>1, <2>3, <2>6, <4>1
        <4>2. CASE ~Watched(r0)
          BY <1>13, <2>1, <2>3, <2>4, <2>6, <4>2
        <4> QED BY <2>6, <4>1, <4>2
      <3> QED BY <1>9, <2>2, <3>1, <3>2
    <2> QED BY <2>5, <2>6
  <1>18. B \in T!Adapters
    BY <1>5, <1>13
  <1>19. (B \in T!Adapters)'
    BY <1>18
  <1> QED BY <1>16, <1>17, <1>19 DEF Tells

\* Where no run changes, an adapter goes on telling them.
LEMMA SameTold ==
    ASSUME cfg' = cfg, \A r \in Runs : State(r)' = State(r),
           \A r \in Runs, k \in Steps : InStep(r, k)' <=> InStep(r, k), NEW A, Tells(A)
    PROVE  Tells(A)'
  <1>1. \A x : (Watched(x)' <=> Watched(x)) /\ IdOf(x)' = IdOf(x)
    BY WatchedAlways
  <1>2. \A r \in Runs : Live(r)' <=> Live(r)
    BY DEF Live
  <1>3. A \in T!Adapters /\ Remembers(A)
    BY DEF Tells
  <1>4. Remembers(A)'
    <2> SUFFICES ASSUME NEW i \in RunIds
                 PROVE  /\ A.runs[i] # {} => Watched(i)' /\ \E r \in Runs : IdOf(r)' = i /\ Live(r)'
                        /\ \A k \in Steps : A.steps[<<i, k>>] # {} =>
                              Watched(i)' /\ \E r \in Runs : IdOf(r)' = i /\ InStep(r, k)'
      BY DEF Remembers
    <2> QED BY <1>1, <1>2, <1>3 DEF Remembers
  <1>5. ASSUME (cfg.ids = "fresh" /\ ~cfg.flaky)' PROVE Shows(A)'
    <2>1. Shows(A)
      BY <1>5 DEF Tells
    <2> SUFFICES ASSUME NEW r \in Runs
                 PROVE  /\ A.runs[r] = IF Watched(r)' /\ Live(r)' THEN {r} ELSE {}
                        /\ A.run[r] = IF ~Watched(r)' THEN "none"
                                      ELSE IF Live(r)' THEN "open" ELSE State(r)'
                        /\ \A k \in Steps :
                              /\ A.steps[<<r, k>>] = IF Watched(r)' /\ InStep(r, k)' THEN {r} ELSE {}
                              /\ (A.step[<<r, k>>] = "open") <=> (Watched(r)' /\ InStep(r, k)')
      BY DEF Shows
    <2>2. /\ A.runs[r] = IF Watched(r) /\ Live(r) THEN {r} ELSE {}
          /\ A.run[r] = IF ~Watched(r) THEN "none" ELSE IF Live(r) THEN "open" ELSE State(r)
      BY <2>1 DEF Shows
    <2>3. \A k \in Steps :
             /\ A.steps[<<r, k>>] = IF Watched(r) /\ InStep(r, k) THEN {r} ELSE {}
             /\ (A.step[<<r, k>>] = "open") <=> (Watched(r) /\ InStep(r, k))
      BY <2>1 DEF Shows
    <2>4. /\ A.runs[r] = IF Watched(r)' /\ Live(r)' THEN {r} ELSE {}
          /\ A.run[r] = IF ~Watched(r)' THEN "none" ELSE IF Live(r)' THEN "open" ELSE State(r)'
      BY <1>1, <1>2, <2>2
    <2>5. \A k \in Steps :
             /\ A.steps[<<r, k>>] = IF Watched(r)' /\ InStep(r, k)' THEN {r} ELSE {}
             /\ (A.step[<<r, k>>] = "open") <=> (Watched(r)' /\ InStep(r, k)')
      BY <1>1, <2>3
    <2> QED BY <2>4, <2>5
  <1>6. (A \in T!Adapters)'
    BY <1>3
  <1> QED BY <1>4, <1>5, <1>6 DEF Tells

\* Every adapter gets the event, or none.
LEMMA EmitTold ==
    ASSUME TeleInv, NEW ev, Emit(ev)
    PROVE  \E sent \in BOOLEAN :
              /\ ~cfg.flaky => sent
              /\ tele' = [a \in {"otel", "lineage"} |-> Told(tele[a], ev, sent)]
  <1>1. PICK sent \in BOOLEAN : (~cfg.flaky => sent) /\ tele' = T!Emit(tele, cfg.mode, ev, sent)
    BY DEF Emit
  <1>2. DOMAIN tele = {"otel", "lineage"} /\ tele = [a \in {"otel", "lineage"} |-> tele[a]]
    BY DEF TeleInv
  <1>3. CASE T!Passes(cfg.mode, ev)
    BY <1>1, <1>2, <1>3 DEF T!Emit, Told
  <1>4. CASE ~T!Passes(cfg.mode, ev)
    BY <1>1, <1>2, <1>4 DEF T!Emit, Told
  <1> QED BY <1>3, <1>4

\* Every report of a job leaves the adapters telling the runs.
LEMMA JobTold ==
    ASSUME TypeInv, JobInv, TeleInv, NEW j \in Jobs, JobStep(j)
    PROVE  TeleInv'
  <1> SUFFICES ASSUME NEW a \in {"otel", "lineage"}, NEW A, A = tele[a], NEW B, B = tele'[a]
               PROVE  tele' = [x \in {"otel", "lineage"} |-> tele'[x]] /\ Tells(B)'
    BY ZenonT(40) DEF TeleInv, Tells, Remembers, Shows
  <1>1. Tells(A)
    BY DEF TeleInv
  <1>2. CASE Quiet(j)
    <2>1. tele' = tele /\ cfg' = cfg
      BY <1>2, JobStepFrame DEF Quiet, TypeInv
    <2>2. \A r \in Runs : State(r)' = State(r) /\ \A k : InStep(r, k)' <=> InStep(r, k)
      BY <1>2, QuietRuns
    <2>3. Tells(A)'
      BY <1>1, <2>1, <2>2, SameTold
    <2>4. A = B
      BY <2>1
    <2>5. Tells(B)'
      BY <2>3, <2>4
    <2>6. tele' = [x \in {"otel", "lineage"} |-> tele'[x]]
      BY <2>1 DEF TeleInv
    <2> QED BY <2>5, <2>6
  <1>3. CASE RunBegins(j)
    <2>1. PICK sent \in BOOLEAN :
              /\ ~cfg.flaky => sent
              /\ tele' = [x \in {"otel", "lineage"} |->
                            Told(tele[x], Event(j, "RunStarted", Run(j) + 1), sent)]
      BY <1>3, EmitTold DEF RunBegins
    <2>2. B = Told(A, Event(j, "RunStarted", Run(j) + 1), sent)
      BY <2>1
    <2>3. Tells(B)'
      BY <1>1, <1>3, <2>1, <2>2, RunStartTold
    <2> QED BY <2>1, <2>3
  <1>4. CASE StepBegins(j)
    <2>1. PICK sent \in BOOLEAN :
              /\ ~cfg.flaky => sent
              /\ tele' = [x \in {"otel", "lineage"} |->
                            Told(tele[x], Event(j, "StepStarted", Run(j)), sent)]
      BY <1>4, EmitTold DEF StepBegins
    <2>2. B = Told(A, Event(j, "StepStarted", Run(j)), sent)
      BY <2>1
    <2>3. Tells(B)'
      BY <1>1, <1>4, <2>1, <2>2, StepStartTold
    <2> QED BY <2>1, <2>3
  <1>5. CASE StepOver(j)
    <2>1. PICK type \in {"StepCompleted", "StepFailed"} : Emit(Event(j, type, Run(j)))
      BY <1>5 DEF StepOver
    <2>2. PICK sent \in BOOLEAN :
              /\ ~cfg.flaky => sent
              /\ tele' = [x \in {"otel", "lineage"} |->
                            Told(tele[x], Event(j, type, Run(j)), sent)]
      BY <2>1, EmitTold
    <2>3. B = Told(A, Event(j, type, Run(j)), sent)
      BY <2>2
    <2>4. Tells(B)'
      BY <1>1, <1>5, <2>1, <2>2, <2>3, StepEndTold
    <2> QED BY <2>2, <2>4
  <1>6. CASE RunOver(j)
    <2>1. PICK type \in {"RunCompleted", "RunFailed"} :
              /\ Emit(Event(j, type, Run(j)))
              /\ jobs[j].pc \in Converging \ {"step"} /\ jobs'[j].pc # "step"
              /\ jobs'[j].ran = [jobs[j].ran EXCEPT
                                   ![Run(j)] = IF type = "RunCompleted" THEN "ok" ELSE "error"]
      BY <1>6 DEF RunOver
    <2>2. PICK sent \in BOOLEAN :
              /\ ~cfg.flaky => sent
              /\ tele' = [x \in {"otel", "lineage"} |->
                            Told(tele[x], Event(j, type, Run(j)), sent)]
      BY <2>1, EmitTold
    <2>3. B = Told(A, Event(j, type, Run(j)), sent)
      BY <2>2
    <2>4. Tells(B)'
      BY <1>1, <2>1, <2>2, <2>3, RunEndTold
    <2> QED BY <2>2, <2>4
  <1> QED BY <1>2, <1>3, <1>4, <1>5, <1>6, Reports

\* The telemetry's invariant is inductive.
LEMMA TeleKept ==
    ASSUME TypeInv, JobInv, TeleInv, [Next]_vars
    PROVE  TeleInv'
  <1>1. CASE Register \/ Decorate \/ Start \/ UNCHANGED vars
    <2>1. cfg' = cfg /\ jobs' = jobs /\ tele' = tele
      BY <1>1 DEF Register, Decorate, Start, vars
    <2>2. /\ \A r \in Runs : State(r)' = State(r)
          /\ \A r \in Runs, k \in Steps : InStep(r, k)' <=> InStep(r, k)
      BY <2>1 DEF State, InStep, Run
    <2> SUFFICES ASSUME NEW a \in {"otel", "lineage"}, NEW A, A = tele[a], NEW B, B = tele'[a]
                 PROVE  tele' = [x \in {"otel", "lineage"} |-> tele'[x]] /\ Tells(B)'
      BY ZenonT(40) DEF TeleInv, Tells, Remembers, Shows
    <2>3. Tells(A)
      BY DEF TeleInv
    <2>4. Tells(A)'
      BY <2>1, <2>2, <2>3, SameTold
    <2>5. tele' = [x \in {"otel", "lineage"} |-> tele'[x]] /\ A = B
      BY <2>1 DEF TeleInv
    <2>6. Tells(B)'
      BY <2>4, <2>5
    <2> QED BY <2>5, <2>6
  <1>2. CASE \E j \in Jobs : JobStep(j)
    BY <1>2, JobTold
  <1> QED BY <1>1, <1>2 DEF Next

\* New adapters tell that there is no run.
LEMMA TeleStart == Init => TeleInv
  <1> SUFFICES ASSUME Init, NEW a \in {"otel", "lineage"}, NEW A, A = T!NewAdapter(a)
               PROVE  Tells(A)
    <2>1. Init => tele = [x \in {"otel", "lineage"} |-> T!NewAdapter(x)]
      BY DEF Init
    <2> QED BY <2>1 DEF TeleInv
  <1>1. A = [ kind  |-> a,
              runs  |-> [i \in RunIds |-> {}],
              steps |-> [k \in RunIds \X Steps |-> {}],
              run   |-> [r \in Runs |-> "none"],
              step  |-> [s \in Runs \X Steps |-> "none"] ]
    BY DEF T!NewAdapter
  <1>2. A \in T!Adapters
    BY <1>1 DEF T!Adapters, T!Shown
  <1>3. /\ \A i \in RunIds : A.runs[i] = {} /\ \A k \in Steps : A.steps[<<i, k>>] = {}
        /\ \A r \in Runs : A.run[r] = "none" /\ \A k \in Steps : A.step[<<r, k>>] = "none"
    BY <1>1
  <1>4. \A r \in Runs : State(r) = "none" /\ ~Live(r) /\ \A k : ~InStep(r, k)
    <2> SUFFICES ASSUME NEW r \in Runs PROVE State(r) = "none" /\ ~Live(r) /\ \A k : ~InStep(r, k)
      OBVIOUS
    <2>1. r[1] \in Jobs /\ r[2] \in 1..MaxRuns
      BY DEF Runs
    <2>2. jobs[r[1]].ran = << >> /\ jobs[r[1]].pc = "idle"
      BY <2>1 DEF Init, Idle
    <2>3. State(r) = "none"
      BY <2>2 DEF State
    <2> QED BY <2>2, <2>3 DEF Live, InStep
  <1>5. Remembers(A)
    BY <1>3 DEF Remembers
  <1>6. Shows(A)
    <2>1. Runs \subseteq RunIds
      BY DEF RunIds
    <2> QED BY <1>3, <1>4, <2>1 DEF Shows
  <1> QED BY <1>2, <1>5, <1>6 DEF Tells

\* A run in a step is live.
LEMMA StepsAreLive ==
    ASSUME TypeInv, JobInv, NEW r \in Runs, NEW k, InStep(r, k)
    PROVE  Live(r)
  <1>1. r[1] \in Jobs /\ r[2] = Run(r[1]) /\ jobs[r[1]].pc = "step"
    BY DEF Runs, InStep
  <1>2. RunsInv(jobs[r[1]]) /\ jobs[r[1]].ran \in Seq({"active", "ok", "error", "abandoned"})
    BY <1>1, Fields DEF JobInv, JobOK
  <1>3. r[2] \in DOMAIN jobs[r[1]].ran
    BY <1>1, <1>2, RunBounded DEF Run, Converging
  <1>4. jobs[r[1]].ran[r[2]] = "active"
    BY <1>1, <1>2, <1>3 DEF RunsInv, Converging, Run
  <1> QED BY <1>3, <1>4 DEF Live, State

\* What the telemetry backends show is what the runs did.
THEOREM SpansTell == Spec => []SpansTellRuns
  <1>1. TypeInv /\ JobInv /\ TeleInv => SpansTellRuns
    <2> SUFFICES ASSUME TypeInv, JobInv, TeleInv PROVE SpansTellRuns
      OBVIOUS
    <2>1. DOMAIN tele = {"otel", "lineage"} /\ \A a \in DOMAIN tele : Tells(tele[a])
      BY DEF TeleInv
    <2>2. ASSUME cfg.ids = "fresh", ~cfg.flaky, NEW a \in DOMAIN tele, NEW r \in Runs
          PROVE  /\ tele[a].run[r] =
                        IF ~Watched(r) THEN "none"
                        ELSE IF State(r) \in {"active", "abandoned"} THEN "open" ELSE State(r)
                 /\ \A k \in Steps :
                       (tele[a].step[<<r, k>>] = "open") <=> (Watched(r) /\ InStep(r, k))
      <3>1. Shows(tele[a])
        BY <2>1, <2>2 DEF Tells
      <3> QED BY <3>1 DEF Shows, Live
    <2>3. ASSUME \A r \in Runs : State(r) \notin {"active", "abandoned"}, NEW a \in DOMAIN tele
          PROVE  /\ \A i \in RunIds : tele[a].runs[i] = {}
                 /\ \A i \in RunIds, k \in Steps : tele[a].steps[<<i, k>>] = {}
      <3>1. Remembers(tele[a])
        BY <2>1 DEF Tells
      <3>2. \A r \in Runs : ~Live(r) /\ \A k \in Steps : ~InStep(r, k)
        BY <2>3, StepsAreLive DEF Live
      <3> QED BY <3>1, <3>2 DEF Remembers
    <2> QED BY <2>2, <2>3 DEF SpansTellRuns
  <1> QED BY <1>1, TeleStart, TeleKept, JobsHold, PTL DEF Spec

-----------------------------------------------------------------------------
(***************************************************************************)
(* The FastMCP provider, for all families of components and all            *)
(* applications.  What is served rests on the account the provider keeps:  *)
(* a key is projected exactly when it has a virtual component or its       *)
(* component was refused.  Neither the uniqueness of virtual components    *)
(* nor the completeness of an enrich is inductive without it.              *)
(***************************************************************************)

\* Natural induction over a set: a number outside it has a least one below.
LEMMA SetInduction ==
    ASSUME NEW S, 0 \in S, \A n \in Nat : n \in S => n + 1 \in S
    PROVE  Nat \subseteq S
  <1> DEFINE outside == Nat \ S
  <1> SUFFICES ASSUME outside # {} PROVE FALSE
    OBVIOUS
  <1>1. PICK n \in outside : \A m \in outside : ~(<<m, n>> \in OpToRel(<, Nat))
    <2>1. outside \subseteq Nat
      OBVIOUS
    <2> HIDE DEF outside
    <2> QED BY <2>1, NatLessThanWellFounded, WFMin
  <1>2. \A m \in outside : ~(m < n)
    <2> SUFFICES ASSUME NEW m \in outside, m < n PROVE FALSE
      OBVIOUS
    <2>1. m \in Nat /\ n \in Nat
      OBVIOUS
    <2>2. <<m, n>> \in OpToRel(<, Nat)
      BY <2>1 DEF OpToRel
    <2> HIDE DEF outside
    <2> QED BY <1>1, <2>2
  <1>3. n - 1 \in Nat /\ n - 1 < n /\ (n - 1) + 1 = n /\ n \notin S
    OBVIOUS
  <1> QED BY <1>2, <1>3

\* A set of numbers that is not empty has a least element.
LEMMA LeastElement ==
    ASSUME NEW A \in SUBSET Nat, A # {}
    PROVE  \E n \in A : \A m \in A : n <= m
  <1>1. PICK n \in A : \A m \in A : ~(<<m, n>> \in OpToRel(<, Nat))
    BY NatLessThanWellFounded, WFMin
  <1>2. ASSUME NEW m \in A
        PROVE  n <= m
    <2>1. m \in Nat /\ n \in Nat
      OBVIOUS
    <2>2. m < n => <<m, n>> \in OpToRel(<, Nat)
      BY <2>1 DEF OpToRel
    <2>3. ~(m < n)
      BY <1>1, <2>2
    <2> QED BY <2>1, <2>3
  <1> QED BY <1>2

\* A strict total order on S.
StrictOrder(S, before) ==
    /\ \A x \in S : <<x, x>> \notin before
    /\ \A x, y \in S : x # y => <<x, y>> \in before \/ <<y, x>> \in before
    /\ \A x, y, z \in S : <<x, y>> \in before /\ <<y, z>> \in before => <<x, z>> \in before

\* The list of a finite ordered set names every element at one place.
LEMMA InOrderFacts ==
    ASSUME NEW S, IsFiniteSet(S), NEW before, StrictOrder(S, before)
    PROVE  /\ Cardinality(S) \in Nat
           /\ InOrder(S, before) \in [1..Cardinality(S) -> S]
           /\ \A x \in S : \E i \in 1..Cardinality(S) : InOrder(S, before)[i] = x
           /\ \A i, j \in 1..Cardinality(S) :
                 InOrder(S, before)[i] = InOrder(S, before)[j] => i = j
  <1> DEFINE n == Cardinality(S)
             Below(x) == {y \in S : <<y, x>> \in before}
             rank(x) == Cardinality(Below(x))
             place == [x \in S |-> rank(x) + 1]
             list == InOrder(S, before)
  <1>1. n \in Nat
    BY FS_CardinalityType
  <1>2. ASSUME NEW x \in S
        PROVE  IsFiniteSet(Below(x)) /\ rank(x) \in Nat /\ rank(x) < n
    <2>1. Below(x) \in SUBSET S /\ x \in S /\ x \notin Below(x)
      BY DEF StrictOrder
    <2> HIDE DEF Below
    <2>2. IsFiniteSet(Below(x)) /\ rank(x) <= n /\ rank(x) # n
      BY <2>1, FS_Subset
    <2>3. rank(x) \in Nat
      BY <2>2, FS_CardinalityType
    <2> HIDE DEF rank, n
    <2> QED BY <1>1, <2>2, <2>3
  <1>3. ASSUME NEW x \in S, NEW y \in S, <<x, y>> \in before
        PROVE  rank(x) # rank(y)
    <2>1. Below(x) \in SUBSET Below(y) /\ x \in Below(y) /\ x \notin Below(x)
      BY <1>3 DEF StrictOrder
    <2>2. IsFiniteSet(Below(y))
      BY <1>2
    <2> HIDE DEF Below
    <2> QED BY <2>1, <2>2, FS_Subset
  <1>4. \A x, y \in S : rank(x) = rank(y) => x = y
    <2> HIDE DEF rank
    <2> QED BY <1>3 DEF StrictOrder
  <1>5. \A x \in S : place[x] = rank(x) + 1
    OBVIOUS
  <1>55. place \in Injection(S, 1..n)
    <2>1. ASSUME NEW x \in S
          PROVE  place[x] \in 1..n
      <3>1. rank(x) \in Nat /\ rank(x) < n /\ place[x] = rank(x) + 1
        BY <1>2, <1>5
      <3> HIDE DEF rank, n, place
      <3> QED BY <1>1, <3>1
    <2>2. ASSUME NEW x \in S, NEW y \in S, place[x] = place[y]
          PROVE  x = y
      <3>1. /\ rank(x) \in Nat /\ place[x] = rank(x) + 1
            /\ rank(y) \in Nat /\ place[y] = rank(y) + 1
        BY <1>2, <1>5
      <3>2. rank(x) = rank(y) => x = y
        BY <1>4
      <3>3. PICK a, b : a = rank(x) /\ b = rank(y)
        OBVIOUS
      <3>4. a \in Nat /\ b \in Nat /\ a + 1 = b + 1
        BY <2>2, <3>1, <3>3
      <3>5. a = b
        BY <3>4
      <3> QED BY <3>2, <3>3, <3>5
    <2>3. DOMAIN place = S /\ place = [x \in S |-> place[x]]
      OBVIOUS
    <2> HIDE DEF place, n
    <2> QED BY <2>1, <2>2, <2>3 DEF Injection, IsInjective
  <1>6. IsFiniteSet(1..n) /\ Cardinality(1..n) = n
    BY <1>1, FS_Interval
  <1>7. place \in Surjection(S, 1..n)
    <2> HIDE DEF place
    <2>1. Cardinality(S) = Cardinality(1..n)
      BY <1>6
    <2> HIDE DEF n
    <2> QED BY <1>55, <1>6, <2>1, FS_Injection
  <1>8. ASSUME NEW i \in 1..n
        PROVE  list[i] \in S /\ rank(list[i]) = i - 1
    <2>1. PICK x \in S : place[x] = i
      BY <1>7 DEF Surjection
    <2>2. rank(x) = i - 1
      <3>1. rank(x) \in Nat /\ place[x] = rank(x) + 1
        BY <1>2, <1>5
      <3> HIDE DEF rank, n, place
      <3> QED BY <1>1, <2>1, <3>1
    <2>3. list[i] = CHOOSE y \in S : rank(y) = i - 1
      BY DEF InOrder
    <2> HIDE DEF rank, list
    <2> QED BY <2>2, <2>3
  <1>9. list = [i \in 1..n |-> list[i]]
    <2> DEFINE pick(i) == CHOOSE x \in S : rank(x) = i - 1
    <2>1. list = [i \in 1..n |-> pick(i)]
      BY DEF InOrder
    <2> HIDE DEF pick, list, n
    <2> QED BY <2>1
  <1>10. \A x \in S : \E i \in 1..n : list[i] = x
    <2> SUFFICES ASSUME NEW x \in S PROVE \E i \in 1..n : list[i] = x
      OBVIOUS
    <2>1. PICK r : r = rank(x)
      OBVIOUS
    <2>2. r \in Nat /\ r < n
      BY <1>2, <2>1
    <2> HIDE DEF rank, n, list
    <2>3. r + 1 \in 1..n /\ (r + 1) - 1 = r
      BY <1>1, <2>2
    <2>4. list[r + 1] \in S /\ rank(list[r + 1]) = r
      BY <1>8, <2>3
    <2>5. list[r + 1] = x
      BY <1>4, <2>1, <2>4
    <2> QED BY <2>3, <2>5
  <1>11. \A i, j \in 1..n : list[i] = list[j] => i = j
    <2> HIDE DEF rank, n, list
    <2> QED BY <1>1, <1>8
  <1> HIDE DEF list, n
  <1>12. list \in [1..n -> S]
    BY <1>8, <1>9
  <1> QED BY <1>1, <1>10, <1>11, <1>12 DEF list, n

-----------------------------------------------------------------------------
(* Sequences of whatever. *)

IsSeq(s) == Len(s) \in Nat /\ s = [i \in 1..Len(s) |-> s[i]]

\* A function on an interval is a sequence.
LEMMA SeqOfFunction ==
    ASSUME NEW n \in Nat, NEW s, s = [i \in 1..n |-> s[i]]
    PROVE  IsSeq(s) /\ Len(s) = n /\ DOMAIN s = 1..n
  <1>1. Len(s) = n
    <2> DEFINE X == {s[i] : i \in 1..n}
    <2>1. s \in [1..n -> X]
      OBVIOUS
    <2> HIDE DEF X
    <2>2. s \in Seq(X) /\ DOMAIN s = 1..n
      BY <2>1
    <2> QED BY <2>2
  <1> QED BY <1>1 DEF IsSeq

\* Appending one element.
LEMMA AppendIsSeq ==
    ASSUME NEW s, IsSeq(s), NEW x
    PROVE  /\ IsSeq(Append(s, x)) /\ Len(Append(s, x)) = Len(s) + 1
           /\ DOMAIN s = 1..Len(s) /\ DOMAIN Append(s, x) = 1..(Len(s) + 1)
           /\ \A i \in 1..Len(s) : Append(s, x)[i] = s[i]
           /\ Append(s, x)[Len(s) + 1] = x
  <1> DEFINE X == {s[i] : i \in 1..Len(s)} \cup {x}
  <1>1. Len(s) \in Nat /\ s \in [1..Len(s) -> X] /\ x \in X
    BY DEF IsSeq
  <1> HIDE DEF X
  <1>2. s \in Seq(X)
    BY <1>1
  <1>3. Append(s, x) \in Seq(X) /\ Len(Append(s, x)) = Len(s) + 1
    BY <1>1, <1>2
  <1>4. /\ DOMAIN s = 1..Len(s) /\ DOMAIN Append(s, x) = 1..(Len(s) + 1)
        /\ \A i \in 1..Len(s) : Append(s, x)[i] = s[i]
        /\ Append(s, x)[Len(s) + 1] = x
    BY <1>1, <1>2
  <1>5. IsSeq(Append(s, x))
    <2>1. PICK t : t = Append(s, x)
      OBVIOUS
    <2>2. t \in Seq(X) /\ Len(t) \in Nat
      BY <1>1, <1>3, <2>1
    <2>3. t = [i \in 1..Len(t) |-> t[i]]
      BY <2>2
    <2> QED BY <2>1, <2>2, <2>3 DEF IsSeq
  <1> QED BY <1>3, <1>4, <1>5

\* Putting one sequence after another.
LEMMA ConcatIsSeq ==
    ASSUME NEW s, IsSeq(s), NEW t, IsSeq(t)
    PROVE  /\ IsSeq(s \o t) /\ Len(s \o t) = Len(s) + Len(t)
           /\ DOMAIN s = 1..Len(s) /\ DOMAIN (s \o t) = 1..(Len(s) + Len(t))
           /\ \A i \in 1..Len(s) : (s \o t)[i] = s[i]
           /\ \A i \in 1..Len(t) : (s \o t)[Len(s) + i] = t[i]
  <1> DEFINE X == {s[i] : i \in 1..Len(s)} \cup {t[i] : i \in 1..Len(t)}
  <1>1. /\ Len(s) \in Nat /\ s \in [1..Len(s) -> X]
        /\ Len(t) \in Nat /\ t \in [1..Len(t) -> X]
    BY DEF IsSeq
  <1> HIDE DEF X
  <1>2. s \in Seq(X) /\ t \in Seq(X)
    BY <1>1
  <1>3. s \o t \in Seq(X) /\ Len(s \o t) = Len(s) + Len(t)
    BY <1>1, <1>2
  <1>4. /\ DOMAIN s = 1..Len(s) /\ DOMAIN (s \o t) = 1..(Len(s) + Len(t))
        /\ \A i \in 1..Len(s) : (s \o t)[i] = s[i]
        /\ \A i \in 1..Len(t) : (s \o t)[Len(s) + i] = t[i]
    BY <1>1, <1>2, <1>3
  <1>5. IsSeq(s \o t)
    <2>1. PICK u : u = s \o t
      OBVIOUS
    <2>2. u \in Seq(X) /\ Len(u) \in Nat
      BY <1>1, <1>3, <2>1
    <2>3. u = [i \in 1..Len(u) |-> u[i]]
      BY <2>2
    <2> QED BY <2>1, <2>2, <2>3 DEF IsSeq
  <1> QED BY <1>3, <1>4, <1>5

-----------------------------------------------------------------------------
(* The account. *)

VirtualIn(srv) == {i \in DOMAIN srv : srv[i].virtual}

VirtualKeys(srv) == {KeyOf(srv[i]) : i \in VirtualIn(srv)}

KeysIn(es) == {KeyOf(es[i]) : i \in DOMAIN es}

\* Entrances: those of a kind agree on its policy.
Agreeing(es) ==
    /\ IsSeq(es)
    /\ \A i, k \in DOMAIN es : es[i].kind = es[k].kind => es[i].policy = es[k].policy

Versioned(ms) == IsFiniteSet(ms) /\ \A m \in ms : m = <<m[1], m[2]>> /\ m[2] \in Nat

Numbered(srv) == IsSeq(srv) /\ \A i \in DOMAIN srv : srv[i].version \in Nat

\* A component whose target had a handler was given that one.
WellAnchored(srv) ==
    \A i \in VirtualIn(srv) : srv[i].anchored => srv[i].handler = srv[i].target

\* No key has two virtual components, nor one beside an entrance, unless the
\* provider added the component of that entrance later.
Once(srv, keys) ==
    /\ \A i, k \in VirtualIn(srv) : i # k => KeyOf(srv[i]) # KeyOf(srv[k])
    /\ \A i \in VirtualIn(srv) : KeyOf(srv[i]) \in keys =>
          \E k \in DOMAIN srv :
              /\ k > i /\ srv[k].owner = "provider"
              /\ KeyOf(srv[k]) = KeyOf(srv[i])

ServerInv(srv, keys) == Numbered(srv) /\ WellAnchored(srv) /\ Once(srv, keys)

\* The inductive invariant: every projected key is accounted for.
ProviderInv ==
    /\ site \in Sites
    /\ Agreeing(entrances)
    /\ Versioned(registry)
    /\ ServerInv(server, Keys)
    /\ hooked \in {0, 1}
    /\ projected = lost \cup VirtualKeys(server)

\* Fewer entrances among the virtual keys disturb nothing.
LEMMA OnceNarrowed ==
    ASSUME NEW srv, NEW keys, ServerInv(srv, keys),
           NEW fewer, fewer \cap VirtualKeys(srv) \subseteq keys
    PROVE  ServerInv(srv, fewer)
  <1>1. \A i \in VirtualIn(srv) : KeyOf(srv[i]) \in VirtualKeys(srv)
    BY DEF VirtualKeys
  <1>2. Once(srv, fewer)
    BY <1>1 DEF ServerInv, Once
  <1> QED BY <1>2 DEF ServerInv

\* A component added to the server, and possibly indexed by the provider.
LEMMA PhysicalAdded ==
    ASSUME NEW srv, NEW keys, ServerInv(srv, keys),
           NEW c, c.version \in Nat, NEW owner,
           NEW more, more \subseteq keys \cup {KeyOf(c)},
           owner = "provider" \/ more \subseteq keys
    PROVE  /\ ServerInv(Append(srv, Physical(c, owner)), more)
           /\ VirtualKeys(Append(srv, Physical(c, owner))) = VirtualKeys(srv)
  <1> DEFINE p == Physical(c, owner)
             new == Append(srv, p)
             n == Len(srv)
  <1>1. /\ p.owner = owner /\ p.virtual = FALSE
        /\ p.version \in Nat /\ KeyOf(p) = KeyOf(c)
    BY DEF Physical, KeyOf
  <1>2. IsSeq(srv)
    BY DEF ServerInv, Numbered
  <1> HIDE DEF p
  <1>3. /\ IsSeq(new) /\ n \in Nat
        /\ DOMAIN srv = 1..n /\ DOMAIN new = 1..(n + 1)
        /\ \A i \in 1..n : new[i] = srv[i]
        /\ new[n + 1] = p
    BY <1>2, AppendIsSeq DEF IsSeq
  <1> HIDE DEF new, n
  <1>4. VirtualIn(new) = VirtualIn(srv)
    <2>1. ~new[n + 1].virtual
      BY <1>1, <1>3
    <2>2. \A i \in 1..(n + 1) : i \in 1..n \/ i = n + 1
      BY <1>3
    <2>3. 1..n \subseteq 1..(n + 1)
      BY <1>3
    <2> QED BY <1>3, <2>1, <2>2, <2>3 DEF VirtualIn
  <1>5. \A i \in VirtualIn(srv) : i \in 1..n /\ new[i] = srv[i]
    BY <1>3 DEF VirtualIn
  <1>6. Numbered(new)
    <2>1. \A i \in 1..(n + 1) : i \in 1..n \/ i = n + 1
      BY <1>3
    <2>2. \A i \in 1..n : srv[i].version \in Nat
      BY <1>3 DEF ServerInv, Numbered
    <2> QED BY <1>1, <1>3, <2>1, <2>2 DEF Numbered
  <1>7. WellAnchored(new)
    BY <1>4, <1>5 DEF ServerInv, WellAnchored
  <1>8. Once(new, more)
    <2>1. \A i, k \in VirtualIn(new) : i # k => KeyOf(new[i]) # KeyOf(new[k])
      BY <1>4, <1>5 DEF ServerInv, Once
    <2>2. ASSUME NEW i \in VirtualIn(new), KeyOf(new[i]) \in more
          PROVE  \E k \in DOMAIN new :
                     /\ k > i /\ new[k].owner = "provider"
                     /\ KeyOf(new[k]) = KeyOf(new[i])
      <3>1. i \in VirtualIn(srv) /\ i \in 1..n /\ new[i] = srv[i]
        BY <1>4, <1>5
      <3>2. CASE KeyOf(new[i]) \in keys
        <4>1. PICK k \in DOMAIN srv :
                  /\ k > i /\ srv[k].owner = "provider"
                  /\ KeyOf(srv[k]) = KeyOf(srv[i])
          BY <3>1, <3>2 DEF ServerInv, Once
        <4>2. k \in 1..n /\ k \in 1..(n + 1) /\ new[k] = srv[k]
          BY <1>3
        <4> QED BY <1>3, <3>1, <4>1, <4>2
      <3>3. CASE KeyOf(new[i]) \notin keys
        <4>1. owner = "provider" /\ KeyOf(new[i]) = KeyOf(c)
          BY <2>2, <3>3
        <4>2. n + 1 \in 1..(n + 1) /\ n + 1 > i
          BY <1>3, <3>1
        <4> QED BY <1>1, <1>3, <4>1, <4>2
      <3> QED BY <3>2, <3>3
    <2> QED BY <2>1, <2>2 DEF Once
  <1>9. VirtualKeys(new) = VirtualKeys(srv)
    BY <1>4, <1>5 DEF VirtualKeys
  <1>10. ServerInv(new, more)
    BY <1>6, <1>7, <1>8 DEF ServerInv
  <1> QED BY <1>9, <1>10 DEF new, p

\* What enrich makes of a key.
MadeOf(c, key) ==
    /\ c.virtual = TRUE /\ KeyOf(c) = key /\ c.version \in Nat
    /\ c.anchored => c.handler = c.target

\* t holds one component for each key made, as order says.
Lists(t, order, made) ==
    /\ IsSeq(t)
    /\ \A i \in DOMAIN t : order[i] \in made /\ MadeOf(t[i], order[i])
    /\ \A i, k \in DOMAIN t : order[i] = order[k] => i = k
    /\ \A key \in made : \E i \in DOMAIN t : order[i] = key

\* Components for new keys, put after the others.
LEMMA VirtualsAdded ==
    ASSUME NEW srv, NEW keys, ServerInv(srv, keys),
           NEW t, NEW order, NEW made, Lists(t, order, made),
           made \cap keys = {}, made \cap VirtualKeys(srv) = {}
    PROVE  /\ ServerInv(srv \o t, keys)
           /\ VirtualKeys(srv \o t) = VirtualKeys(srv) \cup made
  <1> DEFINE new == srv \o t
             n == Len(srv)
             m == Len(t)
  <1> USE DEF Lists
  <1>1. IsSeq(srv)
    BY DEF ServerInv, Numbered
  <1>2. /\ IsSeq(new) /\ n \in Nat /\ m \in Nat
        /\ DOMAIN srv = 1..n /\ DOMAIN new = 1..(n + m) /\ DOMAIN t = 1..m
        /\ \A i \in 1..n : new[i] = srv[i]
        /\ \A i \in 1..m : new[n + i] = t[i]
    <2>1. DOMAIN t = 1..m
      BY DEF IsSeq
    <2> QED BY <1>1, <2>1, ConcatIsSeq DEF IsSeq
  <1> HIDE DEF new, n, m
  <1>3. \A i \in 1..n : i \in 1..(n + m) /\ i <= n
    BY <1>2
  <1>4. \A i \in 1..m : n + i \in 1..(n + m) /\ n + i > n /\ (n + i) - n = i
    BY <1>2
  <1>5. \A i \in 1..(n + m) : i \in 1..n \/ (i - n \in 1..m /\ i = n + (i - n))
    BY <1>2
  <1>6. ASSUME NEW i \in VirtualIn(srv)
        PROVE  i \in VirtualIn(new) /\ i \in 1..n /\ new[i] = srv[i]
    BY <1>2, <1>3 DEF VirtualIn
  <1>7. ASSUME NEW i \in 1..m
        PROVE  /\ n + i \in VirtualIn(new) /\ new[n + i] = t[i]
               /\ KeyOf(new[n + i]) = order[i] /\ order[i] \in made
               /\ new[n + i].version \in Nat
    <2>1. order[i] \in made /\ MadeOf(t[i], order[i])
      BY <1>2
    <2>2. n + i \in DOMAIN new /\ new[n + i] = t[i]
      BY <1>2, <1>4
    <2>3. t[i].virtual = TRUE /\ KeyOf(t[i]) = order[i] /\ t[i].version \in Nat
      BY <2>1 DEF MadeOf
    <2> QED BY <2>1, <2>2, <2>3 DEF VirtualIn
  <1>8. ASSUME NEW i \in VirtualIn(new)
        PROVE  i \in VirtualIn(srv) \/ (i - n \in 1..m /\ i = n + (i - n))
    <2>1. i \in 1..(n + m) /\ new[i].virtual
      BY <1>2 DEF VirtualIn
    <2>2. CASE i \in 1..n
      BY <1>2, <2>1, <2>2 DEF VirtualIn
    <2> QED BY <1>5, <2>1, <2>2
  <1>9. \A i \in VirtualIn(srv) : KeyOf(srv[i]) \in VirtualKeys(srv)
    BY DEF VirtualKeys
  <1>10. Numbered(new)
    <2>1. \A i \in 1..n : srv[i].version \in Nat
      BY <1>2 DEF ServerInv, Numbered
    <2>2. \A i \in 1..m : new[n + i].version \in Nat
      BY <1>7
    <2>3. \A i \in 1..(n + m) : new[i].version \in Nat
      BY <1>2, <1>5, <2>1, <2>2
    <2> QED BY <1>2, <2>3 DEF Numbered
  <1>11. WellAnchored(new)
    <2> SUFFICES ASSUME NEW i \in VirtualIn(new), new[i].anchored
                 PROVE  new[i].handler = new[i].target
      BY DEF WellAnchored
    <2>1. CASE i \in VirtualIn(srv)
      BY <1>6, <2>1 DEF ServerInv, WellAnchored
    <2>2. CASE i - n \in 1..m /\ i = n + (i - n)
      <3>1. PICK j \in 1..m : i = n + j
        BY <2>2
      <3>2. new[i] = t[j] /\ MadeOf(t[j], order[j])
        BY <1>2, <3>1
      <3> QED BY <3>2 DEF MadeOf
    <2> QED BY <1>8, <2>1, <2>2
  <1>12. Once(new, keys)
    <2>1. ASSUME NEW i \in VirtualIn(new), NEW k \in VirtualIn(new),
                 KeyOf(new[i]) = KeyOf(new[k])
          PROVE  i = k
      <3>1. CASE i \in VirtualIn(srv) /\ k \in VirtualIn(srv)
        BY <1>6, <2>1, <3>1 DEF ServerInv, Once
      <3>2. CASE i \in VirtualIn(srv) /\ k - n \in 1..m /\ k = n + (k - n)
        <4>1. KeyOf(new[i]) \in VirtualKeys(srv)
          BY <1>6, <1>9, <3>2
        <4>2. KeyOf(new[k]) \in made
          BY <1>7, <3>2
        <4> QED BY <2>1, <4>1, <4>2
      <3>3. CASE k \in VirtualIn(srv) /\ i - n \in 1..m /\ i = n + (i - n)
        <4>1. KeyOf(new[k]) \in VirtualKeys(srv)
          BY <1>6, <1>9, <3>3
        <4>2. KeyOf(new[i]) \in made
          BY <1>7, <3>3
        <4> QED BY <2>1, <4>1, <4>2
      <3>4. CASE i - n \in 1..m /\ i = n + (i - n) /\ k - n \in 1..m /\ k = n + (k - n)
        <4>1. PICK x, y : x = i - n /\ y = k - n
          OBVIOUS
        <4>2. x \in 1..m /\ y \in 1..m /\ i = n + x /\ k = n + y
          BY <3>4, <4>1
        <4>3. order[x] = order[y]
          BY <1>7, <2>1, <4>2
        <4>4. x = y
          BY <1>2, <4>2, <4>3
        <4> QED BY <4>2, <4>4
      <3> QED BY <1>8, <3>1, <3>2, <3>3, <3>4
    <2>2. ASSUME NEW i \in VirtualIn(new), KeyOf(new[i]) \in keys
          PROVE  \E k \in DOMAIN new :
                     /\ k > i /\ new[k].owner = "provider"
                     /\ KeyOf(new[k]) = KeyOf(new[i])
      <3>1. i \in VirtualIn(srv)
        <4>1. ~(i - n \in 1..m /\ i = n + (i - n))
          BY <1>7, <2>2
        <4> QED BY <1>8, <4>1
      <3>2. i \in 1..n /\ new[i] = srv[i]
        BY <1>6, <3>1
      <3>3. PICK k \in DOMAIN srv :
                /\ k > i /\ srv[k].owner = "provider"
                /\ KeyOf(srv[k]) = KeyOf(srv[i])
        BY <2>2, <3>1, <3>2 DEF ServerInv, Once
      <3>4. k \in DOMAIN new /\ new[k] = srv[k]
        BY <1>2, <1>3
      <3> QED BY <3>2, <3>3, <3>4
    <2> QED BY <2>1, <2>2 DEF Once
  <1>13. VirtualKeys(new) = VirtualKeys(srv) \cup made
    <2>1. ASSUME NEW key \in VirtualKeys(new)
          PROVE  key \in VirtualKeys(srv) \cup made
      <3>1. PICK i \in VirtualIn(new) : key = KeyOf(new[i])
        BY DEF VirtualKeys
      <3>2. CASE i \in VirtualIn(srv)
        BY <1>6, <1>9, <3>1, <3>2
      <3>3. CASE i - n \in 1..m /\ i = n + (i - n)
        BY <1>7, <3>1, <3>3
      <3> QED BY <1>8, <3>2, <3>3
    <2>2. ASSUME NEW key \in VirtualKeys(srv)
          PROVE  key \in VirtualKeys(new)
      BY <1>6 DEF VirtualKeys
    <2>3. ASSUME NEW key \in made
          PROVE  key \in VirtualKeys(new)
      <3>1. PICK i \in 1..m : order[i] = key
        BY <1>2
      <3> QED BY <1>7, <3>1 DEF VirtualKeys
    <2> QED BY <2>1, <2>2, <2>3
  <1>14. ServerInv(new, keys)
    BY <1>10, <1>11, <1>12 DEF ServerInv
  <1> QED BY <1>13, <1>14 DEF new

-----------------------------------------------------------------------------
(* enrich's order and what it makes. *)

\* A kind's rank is the place of its first entrance.
LEMMA RankFacts ==
    ASSUME IsSeq(entrances), NEW kind \in Kinds
    PROVE  Rank(kind) \in Nat /\ Rank(kind) \in DOMAIN entrances
           /\ entrances[Rank(kind)].kind = kind
  <1> DEFINE A == {i \in DOMAIN entrances : entrances[i].kind = kind}
  <1>1. DOMAIN entrances = 1..Len(entrances) /\ Len(entrances) \in Nat
    BY DEF IsSeq
  <1>2. A \in SUBSET Nat /\ A # {}
    BY <1>1 DEF Kinds
  <1>3. PICK i \in A : \A k \in A : i <= k
    <2> HIDE DEF A
    <2> QED BY <1>2, LeastElement
  <1> DEFINE First(j) == entrances[j].kind = kind /\ \A k \in DOMAIN entrances :
                              entrances[k].kind = kind => j <= k
  <1>4. i \in DOMAIN entrances /\ First(i)
    BY <1>3
  <1>5. Rank(kind) = CHOOSE j \in DOMAIN entrances : First(j)
    BY DEF Rank
  <1>6. Rank(kind) \in DOMAIN entrances /\ First(Rank(kind))
    <2> HIDE DEF First
    <2> QED BY <1>4, <1>5
  <1> QED BY <1>1, <1>6

\* virtuals yields the missing versions one after the other.
LEMMA YieldedOrder ==
    ASSUME IsSeq(entrances), Versioned(registry), NEW S \in SUBSET Missing
    PROVE  StrictOrder(S, {p \in S \X S : Yielded(p[1], p[2])})
  <1> DEFINE before == {p \in S \X S : Yielded(p[1], p[2])}
  <1>1. ASSUME NEW x \in S
        PROVE  /\ x = <<x[1], x[2]>> /\ x[2] \in Nat
               /\ Rank(x[1]) \in Nat /\ entrances[Rank(x[1])].kind = x[1]
    BY RankFacts DEF Versioned, Missing
  <1>2. ASSUME NEW x \in S, NEW y \in S
        PROVE  <<x, y>> \in before <=> Yielded(x, y)
    OBVIOUS
  <1>3. ASSUME NEW x \in S
        PROVE  <<x, x>> \notin before
    <2>1. PICK r, v : r = Rank(x[1]) /\ v = x[2]
      OBVIOUS
    <2>2. r \in Nat /\ v \in Nat
      BY <1>1, <2>1
    <2>3. ~Yielded(x, x)
      BY <2>1, <2>2 DEF Yielded
    <2> QED BY <1>2, <2>3
  <1>4. ASSUME NEW x \in S, NEW y \in S, x # y
        PROVE  <<x, y>> \in before \/ <<y, x>> \in before
    <2>1. PICK r, s, v, w : r = Rank(x[1]) /\ s = Rank(y[1]) /\ v = x[2] /\ w = y[2]
      OBVIOUS
    <2>2. r \in Nat /\ s \in Nat /\ v \in Nat /\ w \in Nat
      BY <1>1, <2>1
    <2>3. r = s => x[1] = y[1]
      <3>1. entrances[r].kind = x[1] /\ entrances[s].kind = y[1]
        BY <1>1, <2>1
      <3> QED BY <3>1
    <2>4. x[1] = y[1] => v # w
      BY <1>1, <1>4, <2>1
    <2>5. r < s \/ s < r \/ (x[1] = y[1] /\ (v < w \/ w < v))
      BY <2>2, <2>3, <2>4
    <2>6. Yielded(x, y) \/ Yielded(y, x)
      BY <2>1, <2>5 DEF Yielded
    <2> QED BY <1>2, <2>6
  <1>5. ASSUME NEW x \in S, NEW y \in S, NEW z \in S,
               <<x, y>> \in before, <<y, z>> \in before
        PROVE  <<x, z>> \in before
    <2>1. PICK r, s, t, u, v, w :
              /\ r = Rank(x[1]) /\ s = Rank(y[1]) /\ t = Rank(z[1])
              /\ u = x[2] /\ v = y[2] /\ w = z[2]
      OBVIOUS
    <2>2. /\ r \in Nat /\ s \in Nat /\ t \in Nat
          /\ u \in Nat /\ v \in Nat /\ w \in Nat
      BY <1>1, <2>1
    <2>3. Yielded(x, y) /\ Yielded(y, z)
      BY <1>2, <1>5
    <2>4. /\ r < s \/ (x[1] = y[1] /\ u < v)
          /\ s < t \/ (y[1] = z[1] /\ v < w)
      BY <2>1, <2>3 DEF Yielded
    <2>5. (x[1] = y[1] => r = s) /\ (y[1] = z[1] => s = t)
      BY <2>1
    <2>6. r < t \/ (x[1] = z[1] /\ u < w)
      BY <2>2, <2>4, <2>5
    <2>7. Yielded(x, z)
      BY <2>1, <2>6 DEF Yielded
    <2> QED BY <1>2, <2>7
  <1> HIDE DEF before
  <1>6. StrictOrder(S, before)
    BY <1>3, <1>4, <1>5 DEF StrictOrder
  <1> QED BY <1>6 DEF before

\* The component made of a missing version has its key, and its target's
\* handler if there is one.
LEMMA VirtualFacts ==
    ASSUME Versioned(registry), NEW key \in Missing
    PROVE  MadeOf(Virtual(key), key)
  <1> DEFINE target == Target(key[1])
             c == Virtual(key)
  <1>1. key = <<key[1], key[2]>> /\ key[2] \in Nat
    BY DEF Versioned, Missing
  <1>2. /\ c.virtual = TRUE /\ c.kind = key[1] /\ c.version = key[2]
        /\ c.target = target /\ c.handler = Anchor(key[1], target)
        /\ c.anchored = (<<key[1], target>> \in Keys)
    BY DEF Virtual
  <1> HIDE DEF c, target
  <1>3. KeyOf(c) = key
    BY <1>1, <1>2 DEF KeyOf
  <1>4. ASSUME <<key[1], target>> \in Keys
        PROVE  Anchor(key[1], target) = target
    <2>1. PICK i \in DOMAIN entrances :
              entrances[i].kind = key[1] /\ entrances[i].version = target
      BY <1>4 DEF Keys, KeyOf
    <2>2. target \in HandlersOf(key[1])
      BY <2>1 DEF HandlersOf
    <2> QED BY <2>2 DEF Anchor
  <1>5. c.anchored => c.handler = c.target
    BY <1>2, <1>4
  <1>6. MadeOf(c, key)
    BY <1>1, <1>2, <1>3, <1>5 DEF MadeOf
  <1> QED BY <1>6 DEF c

\* What enrich leaves on the server after making some of the missing versions.
LEMMA MaterializedFacts ==
    ASSUME ProviderInv, NEW made \in SUBSET Missing
    PROVE  /\ ServerInv(Materialized(made), Keys)
           /\ VirtualKeys(Materialized(made)) = VirtualKeys(server) \cup made
  <1> DEFINE before == {p \in made \X made : Yielded(p[1], p[2])}
             order == InOrder(made, before)
             n == Cardinality(made)
             t == [i \in DOMAIN order |-> Virtual(order[i])]
  <1>1. IsSeq(entrances) /\ Versioned(registry)
    BY DEF ProviderInv, Agreeing
  <1>2. IsFiniteSet(made)
    <2>1. made \in SUBSET registry /\ IsFiniteSet(registry)
      BY <1>1 DEF Versioned, Missing
    <2> QED BY <2>1, FS_Subset
  <1>3. StrictOrder(made, before)
    BY <1>1, YieldedOrder
  <1> HIDE DEF before
  <1>4. /\ n \in Nat /\ order \in [1..n -> made]
        /\ \A x \in made : \E i \in 1..n : order[i] = x
        /\ \A i, j \in 1..n : order[i] = order[j] => i = j
    BY <1>2, <1>3, InOrderFacts
  <1> HIDE DEF order, n
  <1>5. /\ DOMAIN order = 1..n
        /\ t = [i \in 1..n |-> t[i]]
        /\ \A i \in 1..n : t[i] = Virtual(order[i])
    BY <1>4
  <1> HIDE DEF t
  <1>6. IsSeq(t) /\ DOMAIN t = 1..n
    BY <1>4, <1>5, SeqOfFunction
  <1>7. \A i \in DOMAIN t : order[i] \in made /\ MadeOf(t[i], order[i])
    BY <1>1, <1>4, <1>5, <1>6, VirtualFacts
  <1>8. made \cap Keys = {} /\ made \cap VirtualKeys(server) = {}
    BY DEF Missing, ProviderInv
  <1>9. ServerInv(server, Keys)
    BY DEF ProviderInv
  <1>10. /\ ServerInv(server \o t, Keys)
         /\ VirtualKeys(server \o t) = VirtualKeys(server) \cup made
    <2>1. Lists(t, order, made)
      BY <1>4, <1>6, <1>7 DEF Lists
    <2> QED BY <1>8, <1>9, <2>1, VirtualsAdded
  <1>11. Materialized(made) = server \o t
    BY DEF Materialized, t, order, before
  <1> QED BY <1>10, <1>11

-----------------------------------------------------------------------------
(* Indexing. *)

\* The entrance a component is stored as.
Entrance(c, explicit) ==
    [ kind |-> c.kind, version |-> c.version, source |-> c.family,
      policy |-> PolicyOf(c, explicit), explicit |-> explicit ]

\* Storing an admitted component keeps the agreement and adds its key only.
LEMMA StoredFacts ==
    ASSUME NEW es, Agreeing(es), NEW c, NEW explicit, Admitted(es, c, explicit)
    PROVE  /\ Agreeing(Stored(es, c, explicit))
           /\ KeysIn(Stored(es, c, explicit)) = KeysIn(es) \cup {KeyOf(c)}
  <1> DEFINE e == Entrance(c, explicit)
             at == {i \in DOMAIN es : KeyOf(es[i]) = KeyOf(c)}
             new == Stored(es, c, explicit)
             n == Len(es)
  <1>1. /\ e.kind = c.kind /\ e.policy = PolicyOf(c, explicit) /\ KeyOf(e) = KeyOf(c)
    BY DEF Entrance, KeyOf
  <1>2. /\ n \in Nat /\ DOMAIN es = 1..n /\ IsSeq(es)
        /\ \A i, k \in 1..n : es[i].kind = es[k].kind => es[i].policy = es[k].policy
    BY DEF Agreeing, IsSeq
  <1>3. \A i \in 1..n : es[i].kind = e.kind => es[i].policy = e.policy
    BY <1>1, <1>2 DEF Admitted
  <1>4. new = IF at = {} THEN Append(es, e)
              ELSE [i \in DOMAIN es |-> IF i \in at THEN e ELSE es[i]]
    BY DEF Stored, Entrance
  <1> HIDE DEF e, new, n
  <1>5. CASE at = {}
    <2>1. new = Append(es, e)
      BY <1>4, <1>5
    <2>2. /\ IsSeq(new) /\ DOMAIN new = 1..(n + 1)
          /\ \A i \in 1..n : new[i] = es[i]
          /\ new[n + 1] = e
      BY <1>2, <2>1, AppendIsSeq DEF n
    <2>3. \A i \in 1..(n + 1) : i \in 1..n \/ i = n + 1
      BY <1>2
    <2>4. \A i \in 1..n : i \in 1..(n + 1)
      BY <1>2
    <2>5. n + 1 \in 1..(n + 1)
      BY <1>2
    <2>6. Agreeing(new)
      <3>1. ASSUME NEW i \in 1..(n + 1), NEW k \in 1..(n + 1), new[i].kind = new[k].kind
            PROVE  new[i].policy = new[k].policy
        <4>1. i \in 1..n \/ new[i] = e
          BY <2>2, <2>3
        <4>2. k \in 1..n \/ new[k] = e
          BY <2>2, <2>3
        <4> QED BY <1>2, <1>3, <2>2, <3>1, <4>1, <4>2
      <3> QED BY <2>2, <3>1 DEF Agreeing
    <2>7. KeysIn(new) = KeysIn(es) \cup {KeyOf(c)}
      <3>1. ASSUME NEW key \in KeysIn(new)
            PROVE  key \in KeysIn(es) \cup {KeyOf(c)}
        <4>1. PICK i \in 1..(n + 1) : key = KeyOf(new[i])
          BY <2>2 DEF KeysIn
        <4>2. CASE i \in 1..n
          BY <1>2, <2>2, <4>1, <4>2 DEF KeysIn
        <4>3. CASE i = n + 1
          BY <1>1, <2>2, <4>1, <4>3
        <4> QED BY <2>3, <4>2, <4>3
      <3>2. ASSUME NEW key \in KeysIn(es)
            PROVE  key \in KeysIn(new)
        <4>1. PICK i \in 1..n : key = KeyOf(es[i])
          BY <1>2 DEF KeysIn
        <4> QED BY <2>2, <2>4, <4>1 DEF KeysIn
      <3>3. KeyOf(c) \in KeysIn(new)
        BY <1>1, <2>2, <2>5 DEF KeysIn
      <3> QED BY <3>1, <3>2, <3>3
    <2> QED BY <2>6, <2>7 DEF new
  <1>6. CASE at # {}
    <2>1. new = [i \in 1..n |-> IF i \in at THEN e ELSE es[i]]
      BY <1>2, <1>4, <1>6
    <2>2. /\ DOMAIN new = 1..n /\ new = [i \in 1..n |-> new[i]]
          /\ \A i \in 1..n : IF i \in at THEN new[i] = e ELSE new[i] = es[i]
      BY <2>1
    <2>3. IsSeq(new)
      BY <1>2, <2>2, SeqOfFunction
    <2>4. Agreeing(new)
      <3>1. ASSUME NEW i \in 1..n, NEW k \in 1..n, new[i].kind = new[k].kind
            PROVE  new[i].policy = new[k].policy
        <4>1. new[i] = es[i] \/ new[i] = e
          BY <2>2
        <4>2. new[k] = es[k] \/ new[k] = e
          BY <2>2
        <4> QED BY <1>2, <1>3, <3>1, <4>1, <4>2
      <3> QED BY <2>2, <2>3, <3>1 DEF Agreeing
    <2>5. \A i \in 1..n : KeyOf(new[i]) = KeyOf(es[i])
      BY <1>1, <1>2, <2>2
    <2>6. KeysIn(new) = KeysIn(es) /\ KeyOf(c) \in KeysIn(es)
      BY <1>2, <1>6, <2>2, <2>5 DEF KeysIn
    <2> QED BY <2>4, <2>6 DEF new
  <1> QED BY <1>5, <1>6

\* Registering one more version.
LEMMA VersionedAdd ==
    ASSUME NEW ms, Versioned(ms), NEW m, m = <<m[1], m[2]>>, m[2] \in Nat
    PROVE  Versioned(ms \cup {m})
  <1>1. IsFiniteSet(ms)
    BY DEF Versioned
  <1>2. IsFiniteSet(ms \cup {m})
    BY <1>1, FS_AddElement
  <1> QED BY <1>2 DEF Versioned

\* The key of a component is a version of its kind.
LEMMA VersionedKey ==
    ASSUME NEW ms, Versioned(ms), NEW c, c.version \in Nat
    PROVE  Versioned(ms \cup {KeyOf(c)})
  <1>1. PICK m : m = KeyOf(c)
    OBVIOUS
  <1>2. m = <<m[1], m[2]>> /\ m[2] \in Nat
    BY <1>1 DEF KeyOf
  <1> QED BY <1>1, <1>2, VersionedAdd

\* What a turn of the loop may leave: no projected key became an entrance.
Sound(st) ==
    /\ Agreeing(st.entrances)
    /\ Versioned(st.models)
    /\ KeysIn(st.entrances) \cap projected \subseteq Keys

\* One turn.
LEMMA IndexedSound ==
    ASSUME NEW family, NEW before, Sound(before), NEW c, c.version \in Nat
    PROVE  Sound(Indexed(family, before, c))
  <1> DEFINE after == Indexed(family, before, c)
  <1>1. CASE before.raised \/ ~Listed(family, c) \/ Skipped(before.entrances, c)
    <2>1. after = before
      BY <1>1 DEF Indexed
    <2> HIDE DEF after
    <2> QED BY <2>1 DEF after
  <1>2. CASE /\ ~(before.raised \/ ~Listed(family, c) \/ Skipped(before.entrances, c))
             /\ Admitted(before.entrances, c, FALSE)
    <2>1. after = [ entrances |-> Stored(before.entrances, c, FALSE),
                    models |-> before.models \cup {KeyOf(c)}, raised |-> FALSE ]
      BY <1>2 DEF Indexed
    <2> HIDE DEF after
    <2>2. /\ after.entrances = Stored(before.entrances, c, FALSE)
          /\ after.models = before.models \cup {KeyOf(c)}
      BY <2>1
    <2>3. KeyOf(c) \notin projected
      BY <1>2 DEF Skipped
    <2>4. Agreeing(before.entrances) /\ Versioned(before.models)
      BY DEF Sound
    <2>5. /\ Agreeing(after.entrances)
          /\ KeysIn(after.entrances) = KeysIn(before.entrances) \cup {KeyOf(c)}
      <3>1. PICK es : es = before.entrances
        OBVIOUS
      <3>2. Agreeing(es) /\ Admitted(es, c, FALSE) /\ after.entrances = Stored(es, c, FALSE)
        BY <1>2, <2>2, <2>4, <3>1
      <3>3. /\ Agreeing(Stored(es, c, FALSE))
            /\ KeysIn(Stored(es, c, FALSE)) = KeysIn(es) \cup {KeyOf(c)}
        BY <3>2, StoredFacts
      <3> QED BY <3>1, <3>2, <3>3
    <2>6. Versioned(after.models)
      BY <2>2, <2>4, VersionedKey
    <2>7. KeysIn(after.entrances) \cap projected \subseteq Keys
      BY <2>3, <2>5 DEF Sound
    <2>8. Sound(after)
      BY <2>5, <2>6, <2>7 DEF Sound
    <2> QED BY <2>8 DEF after
  <1>3. CASE /\ ~(before.raised \/ ~Listed(family, c) \/ Skipped(before.entrances, c))
             /\ ~Admitted(before.entrances, c, FALSE)
    <2>1. after = [before EXCEPT !.raised = TRUE]
      BY <1>3 DEF Indexed
    <2> HIDE DEF after
    <2>2. after.entrances = before.entrances /\ after.models = before.models
      BY <2>1
    <2>3. Sound(after)
      BY <2>2 DEF Sound
    <2> QED BY <2>3 DEF after
  <1> QED BY <1>1, <1>2, <1>3

\* What the loop starts from.
Unindexed == [entrances |-> entrances, models |-> registry, raised |-> FALSE]

\* f is the loop over the first m components.
IsIndex(family, m, f) ==
    f = [n \in 0..m |-> IF n = 0 THEN Unindexed ELSE Indexed(family, f[n - 1], server[n])]

\* The loop exists however far it goes.
LEMMA IndexExists ==
    ASSUME NEW family, NEW len \in Nat
    PROVE  \E f : IsIndex(family, len, f)
  <1> DEFINE Loop(m, f) == IsIndex(family, m, f)
             S == {m \in Nat : \E f : Loop(m, f)}
  <1>1. 0 \in S
    <2> DEFINE g == [n \in 0..0 |-> Unindexed]
    <2>1. \A n \in 0..0 :
              g[n] = IF n = 0 THEN Unindexed ELSE Indexed(family, g[n - 1], server[n])
      OBVIOUS
    <2>2. g = [n \in 0..0 |-> g[n]]
      OBVIOUS
    <2> HIDE DEF g
    <2>3. Loop(0, g)
      BY <2>1, <2>2 DEF IsIndex
    <2> QED BY <2>3
  <1>2. ASSUME NEW m \in Nat, m \in S
        PROVE  m + 1 \in S
    <2>1. PICK f : Loop(m, f)
      BY <1>2
    <2> DEFINE last == Indexed(family, f[m], server[m + 1])
               g == [n \in 0..(m + 1) |-> IF n = m + 1 THEN last ELSE f[n]]
    <2>2. ASSUME NEW n \in 0..(m + 1)
          PROVE  g[n] = IF n = 0 THEN Unindexed ELSE Indexed(family, g[n - 1], server[n])
      <3>1. CASE n = 0
        <4>1. n # m + 1 /\ n \in 0..m
          BY <3>1
        <4>2. g[n] = f[n]
          BY <4>1
        <4>3. f[n] = Unindexed
          BY <2>1, <3>1, <4>1 DEF IsIndex
        <4> QED BY <3>1, <4>2, <4>3
      <3>2. CASE n # 0 /\ n <= m
        <4>1. n # m + 1 /\ n \in 0..m /\ n - 1 # m + 1 /\ n - 1 \in 0..(m + 1)
          BY <3>2
        <4>2. g[n] = f[n] /\ g[n - 1] = f[n - 1]
          BY <4>1
        <4> HIDE DEF g
        <4>3. f[n] = Indexed(family, f[n - 1], server[n])
          BY <2>1, <3>2, <4>1 DEF IsIndex
        <4> QED BY <3>2, <4>2, <4>3
      <3>3. CASE n = m + 1
        <4>1. n - 1 = m /\ m # m + 1 /\ m \in 0..(m + 1) /\ n # 0
          BY <3>3
        <4>2. g[n] = last /\ g[n - 1] = f[m]
          BY <3>3, <4>1
        <4> HIDE DEF g
        <4> QED BY <3>3, <4>1, <4>2
      <3> QED BY <3>1, <3>2, <3>3
    <2>3. Loop(m + 1, g)
      <3>1. g = [n \in 0..(m + 1) |-> g[n]]
        OBVIOUS
      <3> HIDE DEF g
      <3> QED BY <2>2, <3>1 DEF IsIndex
    <2>4. m + 1 \in Nat
      OBVIOUS
    <2> QED BY <2>3, <2>4
  <1>3. Nat \subseteq S
    <2> HIDE DEF S
    <2> QED BY <1>1, <1>2, SetInduction
  <1> QED BY <1>3

\* Indexing a family leaves a sound index.
LEMMA IndexFacts ==
    ASSUME ProviderInv, NEW family
    PROVE  Sound(Index(family))
  <1> DEFINE n == Len(server)
             F == CHOOSE f : IsIndex(family, n, f)
  <1>1. Index(family) = F[n]
    BY DEF Index, IsIndex, Unindexed
  <1>2. n \in Nat /\ DOMAIN server = 1..n /\ \A i \in 1..n : server[i].version \in Nat
    BY DEF ProviderInv, ServerInv, Numbered, IsSeq
  <1> HIDE DEF n
  <1>3. IsIndex(family, n, F)
    <2>1. \E f : IsIndex(family, n, f)
      BY <1>2, IndexExists
    <2> QED BY <2>1
  <1> HIDE DEF F
  <1>4. F[0] = Unindexed
    BY <1>2, <1>3 DEF IsIndex
  <1>5. ASSUME NEW i \in 1..n
        PROVE  F[i] = Indexed(family, F[i - 1], server[i])
    <2>1. i \in 0..n /\ i # 0
      BY <1>2
    <2> QED BY <1>3, <2>1 DEF IsIndex
  <1> DEFINE S == {i \in Nat : i <= n => Sound(F[i])}
  <1>6. 0 \in S
    <2>1. Unindexed.entrances = entrances /\ Unindexed.models = registry
      BY DEF Unindexed
    <2>2. Sound(Unindexed)
      BY <2>1 DEF Sound, ProviderInv, KeysIn, Keys
    <2> QED BY <1>4, <2>2
  <1>7. ASSUME NEW i \in Nat, i \in S
        PROVE  i + 1 \in S
    <2> SUFFICES ASSUME i + 1 <= n PROVE Sound(F[i + 1])
      OBVIOUS
    <2>1. i <= n /\ i + 1 \in 1..n /\ (i + 1) - 1 = i
      BY <1>2
    <2>2. Sound(F[i])
      BY <1>7, <2>1
    <2>3. F[i + 1] = Indexed(family, F[i], server[i + 1])
      BY <1>5, <2>1
    <2> QED BY <1>2, <2>1, <2>2, <2>3, IndexedSound
  <1>8. Nat \subseteq S
    <2> HIDE DEF S
    <2> QED BY <1>6, <1>7, SetInduction
  <1>9. Sound(F[n])
    BY <1>2, <1>8
  <1> QED BY <1>1, <1>9

\* What sync keeps of the entrances.
LEMMA ExplicitFacts ==
    ASSUME Agreeing(entrances)
    PROVE  Agreeing(Explicit) /\ KeysIn(Explicit) \subseteq Keys
  <1> DEFINE kept == {i \in DOMAIN entrances : entrances[i].explicit}
             before == {p \in kept \X kept : p[1] < p[2]}
             order == InOrder(kept, before)
             new == [i \in DOMAIN order |-> entrances[order[i]]]
             len == Len(entrances)
             n == Cardinality(kept)
  <1>1. len \in Nat /\ DOMAIN entrances = 1..len
    BY DEF Agreeing, IsSeq
  <1>2. IsFiniteSet(kept)
    <2>1. IsFiniteSet(1..len)
      BY <1>1, FS_Interval
    <2>2. kept \in SUBSET (1..len)
      BY <1>1
    <2> HIDE DEF kept, len
    <2> QED BY <2>1, <2>2, FS_Subset
  <1>3. kept \subseteq Nat /\ kept \subseteq DOMAIN entrances
    BY <1>1
  <1> HIDE DEF kept
  <1>4. StrictOrder(kept, before)
    <2>1. \A x, y \in kept : <<x, y>> \in before <=> x < y
      OBVIOUS
    <2> HIDE DEF before
    <2> QED BY <1>3, <2>1 DEF StrictOrder
  <1> HIDE DEF before
  <1>5. n \in Nat /\ order \in [1..n -> kept]
    BY <1>2, <1>4, InOrderFacts
  <1> HIDE DEF order, n
  <1>6. /\ DOMAIN new = 1..n /\ new = [i \in 1..n |-> new[i]]
        /\ \A i \in 1..n : new[i] = entrances[order[i]] /\ order[i] \in DOMAIN entrances
    BY <1>3, <1>5
  <1>7. Explicit = new
    BY DEF Explicit, order, kept, before
  <1> HIDE DEF new
  <1>8. IsSeq(new)
    BY <1>5, <1>6, SeqOfFunction
  <1>9. Agreeing(new)
    BY <1>6, <1>8 DEF Agreeing
  <1>10. KeysIn(new) \subseteq Keys
    BY <1>6 DEF KeysIn, Keys
  <1> QED BY <1>7, <1>9, <1>10

-----------------------------------------------------------------------------
(* The steps. *)

\* The account under primes, as the steps use it.
LEMMA NextServer ==
    ASSUME NEW s, server' = s, NEW es, entrances' = es
    PROVE  /\ ServerInv(server, Keys)' <=> ServerInv(s, KeysIn(es))
           /\ VirtualKeys(server)' = VirtualKeys(s)
           /\ Agreeing(entrances)' <=> Agreeing(es)
  BY DEF ServerInv, Numbered, WellAnchored, Once, VirtualIn, VirtualKeys, Agreeing, IsSeq,
         KeyOf, Keys, KeysIn

\* The entrances as they are.
LEMMA SameKeys == KeysIn(entrances) = Keys
  BY DEF KeysIn, Keys

\* HostAdd.
LEMMA HostAddKeeps == ASSUME ProviderInv, HostAdd PROVE ProviderInv'
  <1>1. PICK c \in site.components : server' = Append(server, Physical(c, "host"))
    BY DEF HostAdd
  <1> DEFINE s == Append(server, Physical(c, "host"))
  <1>2. /\ site' = site /\ registry' = registry /\ entrances' = entrances
        /\ projected' = projected /\ lost' = lost /\ hooked' = hooked
    BY DEF HostAdd
  <1>3. /\ site \in Sites /\ Agreeing(entrances) /\ Versioned(registry)
        /\ ServerInv(server, Keys) /\ hooked \in {0, 1}
        /\ projected = lost \cup VirtualKeys(server)
    BY DEF ProviderInv
  <1>4. c.version \in Nat
    BY <1>3, SitesAssumption
  <1>5. ServerInv(s, Keys) /\ VirtualKeys(s) = VirtualKeys(server)
    BY <1>3, <1>4, PhysicalAdded
  <1> HIDE DEF s
  <1>6. server' = s
    BY <1>1 DEF s
  <1>7. ServerInv(server, Keys)' /\ VirtualKeys(server)' = VirtualKeys(s) /\ Agreeing(entrances)'
    BY <1>2, <1>3, <1>5, <1>6, NextServer, SameKeys
  <1>8. Versioned(registry)'
    BY <1>2, <1>3 DEF Versioned
  <1> QED BY <1>2, <1>3, <1>5, <1>7, <1>8 DEF ProviderInv

\* OwnAdd.
LEMMA OwnAddKeeps == ASSUME ProviderInv, OwnAdd PROVE ProviderInv'
  <1>1. PICK c \in site.own :
            /\ server' = Append(server, Physical(c, "provider"))
            /\ LET indexed == c.version # 0 /\ Admitted(entrances, c, TRUE)
               IN  /\ entrances' = IF indexed THEN Stored(entrances, c, TRUE) ELSE entrances
                   /\ registry' = IF indexed THEN registry \cup {KeyOf(c)} ELSE registry
    BY DEF OwnAdd
  <1> DEFINE s == Append(server, Physical(c, "provider"))
  <1>2. /\ site' = site /\ projected' = projected /\ lost' = lost /\ hooked' = hooked
    BY DEF OwnAdd
  <1>3. /\ site \in Sites /\ Agreeing(entrances) /\ Versioned(registry)
        /\ ServerInv(server, Keys) /\ hooked \in {0, 1}
        /\ projected = lost \cup VirtualKeys(server)
    BY DEF ProviderInv
  <1>4. c.version \in Nat
    BY <1>3, SitesAssumption
  <1>5. PICK es, ms :
            /\ entrances' = es /\ registry' = ms
            /\ Agreeing(es) /\ Versioned(ms) /\ KeysIn(es) \subseteq Keys \cup {KeyOf(c)}
    <2>1. CASE c.version # 0 /\ Admitted(entrances, c, TRUE)
      <3>1. entrances' = Stored(entrances, c, TRUE) /\ registry' = registry \cup {KeyOf(c)}
        BY <1>1, <2>1
      <3>2. /\ Agreeing(Stored(entrances, c, TRUE))
            /\ KeysIn(Stored(entrances, c, TRUE)) = Keys \cup {KeyOf(c)}
        BY <1>3, <2>1, StoredFacts, SameKeys
      <3>3. Versioned(registry \cup {KeyOf(c)})
        BY <1>3, <1>4, VersionedKey
      <3> QED BY <3>1, <3>2, <3>3
    <2>2. CASE ~(c.version # 0 /\ Admitted(entrances, c, TRUE))
      <3>1. entrances' = entrances /\ registry' = registry
        BY <1>1, <2>2
      <3> QED BY <1>3, <3>1, SameKeys
    <2> QED BY <2>1, <2>2
  <1>6. ServerInv(s, KeysIn(es)) /\ VirtualKeys(s) = VirtualKeys(server)
    BY <1>3, <1>4, <1>5, PhysicalAdded
  <1> HIDE DEF s
  <1>7. server' = s
    BY <1>1 DEF s
  <1>8. ServerInv(server, Keys)' /\ VirtualKeys(server)' = VirtualKeys(s) /\ Agreeing(entrances)'
    BY <1>5, <1>6, <1>7, NextServer
  <1>9. Versioned(registry)'
    BY <1>5 DEF Versioned
  <1> QED BY <1>2, <1>3, <1>6, <1>8, <1>9 DEF ProviderInv

\* A step that leaves the server and what is projected alone.
LEMMA ServerAlone ==
    ASSUME ProviderInv, NEW es, NEW ms, entrances' = es, registry' = ms,
           Agreeing(es), Versioned(ms), KeysIn(es) \cap projected \subseteq Keys,
           UNCHANGED <<site, server, projected, lost, hooked>>
    PROVE  ProviderInv'
  <1>1. /\ site \in Sites /\ hooked \in {0, 1}
        /\ ServerInv(server, Keys)
        /\ projected = lost \cup VirtualKeys(server)
    BY DEF ProviderInv
  <1>2. ServerInv(server, KeysIn(es))
    <2>1. KeysIn(es) \cap VirtualKeys(server) \subseteq Keys
      BY <1>1
    <2> QED BY <1>1, <2>1, OnceNarrowed
  <1>3. ServerInv(server, Keys)' /\ VirtualKeys(server)' = VirtualKeys(server)
        /\ Agreeing(entrances)'
    <2>1. PICK s : s = server /\ server' = s
      OBVIOUS
    <2> QED BY <1>2, <2>1, NextServer
  <1>4. Versioned(registry)'
    BY DEF Versioned
  <1> QED BY <1>1, <1>3, <1>4 DEF ProviderInv

\* Declare.
LEMMA DeclareKeeps == ASSUME ProviderInv, Declare PROVE ProviderInv'
  <1>1. PICK m \in site.late : registry' = registry \cup {m}
    BY DEF Declare
  <1>2. site \in Sites /\ Agreeing(entrances) /\ Versioned(registry)
    BY DEF ProviderInv
  <1>3. m = <<m[1], m[2]>> /\ m[2] \in Nat
    BY <1>2, SitesAssumption
  <1>4. Versioned(registry \cup {m})
    BY <1>2, <1>3, VersionedAdd
  <1>5. PICK es, ms : es = entrances /\ ms = registry \cup {m}
    OBVIOUS
  <1>6. entrances' = es /\ registry' = ms /\ UNCHANGED <<site, server, projected, lost, hooked>>
    BY <1>1, <1>5 DEF Declare
  <1>7. Agreeing(es) /\ Versioned(ms) /\ KeysIn(es) \cap projected \subseteq Keys
    BY <1>2, <1>4, <1>5, SameKeys
  <1> QED BY <1>6, <1>7, ServerAlone

\* StartSync.
LEMMA StartSyncKeeps == ASSUME ProviderInv, NEW by, StartSync(by) PROVE ProviderInv'
  <1>1. Agreeing(entrances) /\ Versioned(registry)
    BY DEF ProviderInv
  <1>2. PICK es, ms : es = Explicit /\ ms = registry
    OBVIOUS
  <1>3. entrances' = es /\ registry' = ms /\ UNCHANGED <<site, server, projected, lost, hooked>>
    BY <1>2 DEF StartSync
  <1>4. Agreeing(es) /\ KeysIn(es) \cap projected \subseteq Keys
    BY <1>1, <1>2, ExplicitFacts
  <1> QED BY <1>1, <1>2, <1>3, <1>4, ServerAlone

\* SyncFamily.
LEMMA SyncFamilyKeeps == ASSUME ProviderInv, SyncFamily PROVE ProviderInv'
  <1>1. PICK st : st = Index(Head(phase.left))
    OBVIOUS
  <1>2. Sound(st)
    BY <1>1, IndexFacts
  <1>3. PICK es, ms : es = st.entrances /\ ms = st.models
    OBVIOUS
  <1>4. entrances' = es /\ registry' = ms /\ UNCHANGED <<site, server, projected, lost, hooked>>
    BY <1>1, <1>3 DEF SyncFamily
  <1>5. Agreeing(es) /\ Versioned(ms) /\ KeysIn(es) \cap projected \subseteq Keys
    BY <1>2, <1>3 DEF Sound
  <1> QED BY <1>4, <1>5, ServerAlone

\* An enrich, whether it goes through or not.
LEMMA MadeKeeps ==
    ASSUME ProviderInv, NEW made \in SUBSET Missing, NEW gone,
           server' = Materialized(made), projected' = projected \cup made \cup gone,
           lost' = lost \cup gone, hooked' \in {0, 1},
           UNCHANGED <<site, registry, entrances>>
    PROVE  /\ ProviderInv'
           /\ VirtualKeys(server)' = VirtualKeys(server) \cup made
  <1>1. /\ site \in Sites /\ Agreeing(entrances) /\ Versioned(registry)
        /\ projected = lost \cup VirtualKeys(server)
    BY DEF ProviderInv
  <1>2. PICK s : s = Materialized(made) /\ server' = s
    OBVIOUS
  <1>3. ServerInv(s, Keys) /\ VirtualKeys(s) = VirtualKeys(server) \cup made
    BY <1>2, MaterializedFacts
  <1>4. ServerInv(server, Keys)' /\ VirtualKeys(server)' = VirtualKeys(s) /\ Agreeing(entrances)'
    BY <1>1, <1>2, <1>3, NextServer, SameKeys
  <1>5. Versioned(registry)'
    BY <1>1 DEF Versioned
  <1>6. (projected = lost \cup VirtualKeys(server))'
    BY <1>1, <1>3, <1>4
  <1> QED BY <1>1, <1>3, <1>4, <1>5, <1>6 DEF ProviderInv

\* Enrich, and what it leaves served.
LEMMA EnrichKeeps ==
    ASSUME ProviderInv, NEW by, Enrich(by)
    PROVE  ProviderInv' /\ (site.virtuals => AllServed')
  <1>1. ToMake \in SUBSET Missing
    BY DEF ToMake
  <1>2. /\ server' = Materialized(ToMake) /\ projected' = projected \cup ToMake
        /\ lost' = lost /\ hooked' \in {0, 1} /\ UNCHANGED <<site, registry, entrances>>
    BY DEF Enrich, ProviderInv
  <1>3. ProviderInv' /\ VirtualKeys(server)' = VirtualKeys(server) \cup ToMake
    <2>1. PICK gone : gone = {}
      OBVIOUS
    <2>2. projected' = projected \cup ToMake \cup gone /\ lost' = lost \cup gone
      BY <1>2, <2>1
    <2> QED BY <1>1, <1>2, <2>2, MadeKeeps
  <1>4. ASSUME site.virtuals
        PROVE  AllServed'
    <2>1. ToMake = Missing
      BY <1>4 DEF ToMake
    <2>2. Kinds' = Kinds /\ Keys' = Keys
      BY <1>2 DEF Kinds, Keys, KeyOf
    <2>3. {KeyOf(server[i]) : i \in Virtuals}' = VirtualKeys(server)'
      BY DEF VirtualKeys, VirtualIn, Virtuals
    <2>4. projected = lost \cup VirtualKeys(server)
      BY DEF ProviderInv
    <2> SUFFICES ASSUME NEW m \in registry, m[1] \in Kinds
                 PROVE  m \in Keys \cup lost \cup VirtualKeys(server)'
      BY <1>2, <2>2, <2>3 DEF AllServed
    <2>5. m \in Keys \/ m \in projected \/ m \in Missing
      BY DEF Missing
    <2> QED BY <1>3, <2>1, <2>4, <2>5
  <1> QED BY <1>3, <1>4

\* EnrichFails.
LEMMA EnrichFailsKeeps == ASSUME ProviderInv, NEW by, EnrichFails(by) PROVE ProviderInv'
  <1>1. ToMake \in SUBSET Missing
    BY DEF ToMake
  <1>2. hooked' \in {0, 1} /\ UNCHANGED <<site, registry, entrances>>
    BY DEF EnrichFails, ProviderInv
  <1>3. PICK made, gone :
            /\ made \in SUBSET ToMake /\ server' = Materialized(made) /\ projected' = projected \cup made \cup gone
            /\ lost' = lost \cup gone
    <2>2. \/ /\ server' = Materialized({m \in ToMake : Reached(m[1])})
             /\ projected' = projected \cup {m \in ToMake : Reached(m[1])}
             /\ lost' = lost
          \/ \E m \in ToMake :
                /\ server' = Materialized({w \in ToMake : Yielded(w, m)})
                /\ projected' = projected \cup {w \in ToMake : Yielded(w, m)} \cup {m}
                /\ lost' = lost \cup {m}
      BY DEF EnrichFails
    <2>3. CASE /\ server' = Materialized({m \in ToMake : Reached(m[1])})
               /\ projected' = projected \cup {m \in ToMake : Reached(m[1])}
               /\ lost' = lost
      <3>1. PICK made : made = {m \in ToMake : Reached(m[1])}
        OBVIOUS
      <3>2. /\ made \in SUBSET ToMake /\ server' = Materialized(made)
            /\ projected' = projected \cup made /\ lost' = lost
        BY <2>3, <3>1
      <3>3. PICK gone : gone = {}
        OBVIOUS
      <3>4. projected' = projected \cup made \cup gone /\ lost' = lost \cup gone
        BY <3>2, <3>3
      <3> QED BY <3>2, <3>4
    <2>4. CASE \E m \in ToMake :
                  /\ server' = Materialized({w \in ToMake : Yielded(w, m)})
                  /\ projected' = projected \cup {w \in ToMake : Yielded(w, m)} \cup {m}
                  /\ lost' = lost \cup {m}
      <3>1. PICK m \in ToMake :
                /\ server' = Materialized({w \in ToMake : Yielded(w, m)})
                /\ projected' = projected \cup {w \in ToMake : Yielded(w, m)} \cup {m}
                /\ lost' = lost \cup {m}
        BY <2>4
      <3>2. PICK made, gone : made = {w \in ToMake : Yielded(w, m)} /\ gone = {m}
        OBVIOUS
      <3>3. /\ made \in SUBSET ToMake /\ server' = Materialized(made)
            /\ projected' = projected \cup made \cup gone /\ lost' = lost \cup gone
        BY <3>1, <3>2
      <3> QED BY <3>3
    <2> QED BY <2>2, <2>3, <2>4
  <1>4. made \in SUBSET Missing
    BY <1>1, <1>3
  <1> QED BY <1>2, <1>3, <1>4, MadeKeeps

\* Every step keeps the account.
LEMMA ProviderKept == ASSUME ProviderInv, [ProviderNext]_providerVars PROVE ProviderInv'
  <1>1. CASE HostAdd
    BY <1>1, HostAddKeeps
  <1>2. CASE OwnAdd
    BY <1>2, OwnAddKeeps
  <1>3. CASE Declare
    BY <1>3, DeclareKeeps
  <1>4. CASE SyncFamily
    BY <1>4, SyncFamilyKeeps
  <1>5. ASSUME UNCHANGED <<site, registry, server, entrances, projected, lost, hooked>>
        PROVE  ProviderInv'
    <2>1. PICK es, ms : es = entrances /\ ms = registry
      OBVIOUS
    <2>2. entrances' = es /\ registry' = ms /\ UNCHANGED <<site, server, projected, lost, hooked>>
      BY <1>5, <2>1
    <2>3. Agreeing(es) /\ Versioned(ms) /\ KeysIn(es) \cap projected \subseteq Keys
      BY <2>1, SameKeys DEF ProviderInv
    <2> QED BY <2>2, <2>3, ServerAlone
  <1>6. CASE Enter
    BY <1>5, <1>6 DEF Enter
  <1>7. CASE \E by \in {"host", "lifespan"} : StartSync(by) \/ Enrich(by) \/ EnrichFails(by)
    <2>1. PICK by : StartSync(by) \/ Enrich(by) \/ EnrichFails(by)
      BY <1>7
    <2> QED BY <2>1, StartSyncKeeps, EnrichKeeps, EnrichFailsKeeps
  <1>8. CASE UNCHANGED providerVars
    BY <1>5, <1>8 DEF providerVars
  <1> QED BY <1>1, <1>2, <1>3, <1>4, <1>6, <1>7, <1>8 DEF ProviderNext

\* The account holds at the start.
LEMMA ProviderStarts == ASSUME ProviderInit PROVE ProviderInv
  <1>1. /\ site \in Sites /\ registry = site.models /\ server = << >> /\ entrances = << >>
        /\ projected = {} /\ lost = {} /\ hooked = 0
    BY DEF ProviderInit
  <1>2. IsSeq(<< >>) /\ DOMAIN << >> = {}
    <2>1. << >> = [i \in 1..0 |-> << >>[i]] /\ 0 \in Nat /\ 1..0 = {}
      OBVIOUS
    <2> QED BY <2>1, SeqOfFunction
  <1>3. VirtualIn(server) = {} /\ DOMAIN server = {} /\ VirtualKeys(server) = {}
    BY <1>1, <1>2 DEF VirtualIn, VirtualKeys
  <1>4. ServerInv(server, Keys)
    BY <1>1, <1>2, <1>3 DEF ServerInv, Numbered, WellAnchored, Once
  <1>5. Agreeing(entrances)
    BY <1>1, <1>2 DEF Agreeing
  <1>6. Versioned(registry)
    BY <1>1, SitesAssumption DEF Versioned
  <1> QED BY <1>1, <1>3, <1>4, <1>5, <1>6 DEF ProviderInv

\* The account is kept.
LEMMA ProviderHolds == ProviderSpec => []ProviderInv
  <1>1. ProviderInit => ProviderInv
    BY ProviderStarts
  <1>2. ProviderInv /\ [ProviderNext]_providerVars => ProviderInv'
    BY ProviderKept
  <1> QED BY <1>1, <1>2, PTL DEF ProviderSpec

\* For every application and every order of its phases, the entrances of a kind
\* agree on its policy, and a virtual component hands its handler the version the
\* handler is of, wherever its target had a handler and the runner knows both.
THEOREM HandlersServed == ProviderSpec => []HandlersGetTheirVersion
  <1>1. ProviderInv => HandlersGetTheirVersion
    <2> SUFFICES ASSUME ProviderInv PROVE HandlersGetTheirVersion
      OBVIOUS
    <2>1. \A i, k \in DOMAIN entrances :
              entrances[i].kind = entrances[k].kind => entrances[i].policy = entrances[k].policy
      BY DEF ProviderInv, Agreeing
    <2>2. ASSUME NEW i \in Virtuals,
                 KeyOf(server[i]) \in snapshot,
                 <<server[i].kind, server[i].target>> \in snapshot,
                 server[i].anchored
          PROVE  Delegate(server[i]) = server[i].handler
      <3>1. server[i].handler = server[i].target
        BY <2>2 DEF ProviderInv, ServerInv, WellAnchored, VirtualIn, Virtuals
      <3>2. Delegate(server[i]) = server[i].target
        BY <2>2 DEF Delegate
      <3> QED BY <3>1, <3>2
    <2> QED BY <2>1, <2>2 DEF HandlersGetTheirVersion
  <1> QED BY <1>1, ProviderHolds, PTL

\* However often and in whatever order the phases run and whatever is added,
\* declared, hidden or refused in between, no version is served by two virtual
\* components, nor by one beside an earlier component of its own, and an enrich
\* that goes through leaves no version of an indexed kind unserved unless its
\* component was once refused.
THEOREM VersionsAlwaysServedOnce == ProviderSpec => VersionsServedOnce
  <1>1. ProviderInv => ServedOnce
    <2> SUFFICES ASSUME ProviderInv PROVE ServedOnce
      OBVIOUS
    <2>1. hooked <= 1
      BY DEF ProviderInv
    <2>2. Once(server, Keys)
      BY DEF ProviderInv, ServerInv
    <2> QED BY <2>1, <2>2 DEF ServedOnce, Once, VirtualIn, Virtuals
  <1>2. ProviderInv /\ ProviderInv' /\ [ProviderNext]_providerVars =>
            [ /\ ServedOnce'
              /\ site.virtuals /\ (Enrich("host") \/ Enrich("lifespan")) => AllServed'
            ]_providerVars
    <2> SUFFICES ASSUME ProviderInv, ProviderInv'
                 PROVE  /\ ServedOnce'
                        /\ site.virtuals /\ (Enrich("host") \/ Enrich("lifespan")) => AllServed'
      OBVIOUS
    <2>1. ServedOnce'
      BY <1>1, PTL
    <2>2. ASSUME site.virtuals, Enrich("host") \/ Enrich("lifespan")
          PROVE  AllServed'
      BY <2>2, EnrichKeeps
    <2> QED BY <2>1, <2>2
  <1> QED BY <1>2, ProviderHolds, PTL DEF ProviderSpec, VersionsServedOnce
=============================================================================
