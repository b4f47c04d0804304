-------------------------- MODULE PuppetPhase_proofs --------------------------
(***************************************************************************)
(* Proofs about PuppetPhase, for any nodes, tasks, plans, time-outs and    *)
(* number of agents' runs: success means that Puppet has enforced the task *)
(* (SuccessMeansEnforced), a phase leaves no task running (PhaseOutcome),  *)
(* and what earlier plans configured is kept (LastGoodKept).               *)
(***************************************************************************)
EXTENDS PuppetPhase, TLAPS

TaskState == {"initial", "running", "success", "failed", "stopped"}

-----------------------------------------------------------------------------
(* The plan and the steps of _apply_nodes *)

LEMMA CurrentFacts ==
    ASSUME TypeOK
    PROVE  /\ plan \in Seq(SUBSET (Task \ Old)) /\ plan # <<>>
           /\ phase \in 1..Len(plan) /\ Len(plan) \in Nat
           /\ \A i \in 1..Len(plan) : plan[i] \in SUBSET (Task \ Old)
           /\ Current \in SUBSET (Task \ Old)
           /\ \A i \in 1..Len(plan) : i # phase => plan[i] \cap Current = {}
<1>1. plan \in Seq(SUBSET (Task \ Old)) /\ plan # <<>>
  BY PuppetAssumption DEF TypeOK
<1>2. DOMAIN plan = 1..Len(plan) /\ Len(plan) \in Nat
  BY <1>1
<1>3. phase \in 1..Len(plan)
  BY <1>2 DEF TypeOK
<1>4. \A i \in 1..Len(plan) : plan[i] \in SUBSET (Task \ Old)
  BY <1>1
<1>5. \A i \in 1..Len(plan) : i # phase => plan[i] \cap Current = {}
  BY <1>2, <1>3, PuppetAssumption DEF TypeOK, Current
<1> QED
  BY <1>1, <1>2, <1>3, <1>4, <1>5 DEF Current

(* The one step of a sequence that writes the manifests *)
WritesAt(q, w) ==
    /\ q \in Seq(Step) /\ w \in DOMAIN q
    /\ \A i \in DOMAIN q : q[i].op = "write" <=> i = w

LEMMA WritesAtFront ==
    ASSUME NEW q, NEW w, WritesAt(q, w), NEW r \in Seq(Step),
           \A i \in DOMAIN r : r[i].op # "write"
    PROVE  WritesAt(q \o r, w)
<1>1. q \in Seq(Step) /\ Len(q) \in Nat /\ Len(r) \in Nat /\ w \in 1..Len(q)
      /\ DOMAIN q = 1..Len(q) /\ DOMAIN r = 1..Len(r)
  BY DEF WritesAt
<1>2. q \o r \in Seq(Step) /\ Len(q \o r) = Len(q) + Len(r) /\ DOMAIN (q \o r) = 1..Len(q \o r)
  BY <1>1
<1>3. \A i \in 1..Len(q) : (q \o r)[i] = q[i]
  BY <1>1
<1>4. \A i \in (Len(q) + 1)..(Len(q) + Len(r)) : (q \o r)[i] = r[i - Len(q)] /\ i - Len(q) \in 1..Len(r)
  BY <1>1
<1>5. ASSUME NEW i \in DOMAIN (q \o r) PROVE (q \o r)[i].op = "write" <=> i = w
  <2>1. CASE i \in 1..Len(q)
    BY <1>1, <1>3, <2>1 DEF WritesAt
  <2>2. CASE i \in (Len(q) + 1)..(Len(q) + Len(r))
    <3>1. (q \o r)[i].op # "write"
      BY <1>1, <1>4, <2>2
    <3>2. i # w
      BY <1>1, <2>2
    <3> QED
      BY <3>1, <3>2
  <2> QED
    BY <1>1, <1>2, <2>1, <2>2
<1>6. w \in DOMAIN (q \o r)
  BY <1>1, <1>2
<1> QED
  BY <1>2, <1>5, <1>6 DEF WritesAt

LEMMA StepsFacts ==
    ASSUME NEW R \in SUBSET Task
    PROVE  \E w \in Nat : WritesAt(Steps(R), w)
<1> DEFINE hosts == {NodeOf[t] : t \in R}
           on(op, S) == [op |-> op, hosts |-> S]
           before(S) == <<on("disable", S), on("kill", S), on("clean", S), on("write", S),
                          on("cache", {MS})>>
           apply(S) == <<on("enable", S), on("runonce", S)>>
           nodes == hosts \ {MS}
           some == IF nodes = {} THEN {MS} ELSE nodes
<1>1. hosts \in SUBSET Node /\ {MS} \in SUBSET Node
  BY PuppetAssumption
<1>2. nodes \in SUBSET Node /\ some \in SUBSET Node
  BY <1>1
<1>3. \A S \in SUBSET Node : \A op \in Operation : on(op, S) \in Step
  BY DEF Step
<1>4. \A S \in SUBSET Node : WritesAt(before(S), 4)
  <2> TAKE S \in SUBSET Node
  <2>1. /\ on("disable", S) \in Step /\ on("kill", S) \in Step /\ on("clean", S) \in Step
        /\ on("write", S) \in Step /\ on("cache", {MS}) \in Step
    BY <1>1, <1>3 DEF Operation
  <2>2. before(S) \in Seq(Step)
    BY <2>1
  <2>3. DOMAIN before(S) = 1..5
    OBVIOUS
  <2>4. /\ before(S)[1].op # "write" /\ before(S)[2].op # "write" /\ before(S)[3].op # "write"
        /\ before(S)[4].op = "write" /\ before(S)[5].op # "write"
    OBVIOUS
  <2> HIDE DEF before
  <2>5. \A i \in 1..5 : i = 1 \/ i = 2 \/ i = 3 \/ i = 4 \/ i = 5
    OBVIOUS
  <2> QED
    BY <2>2, <2>3, <2>4, <2>5 DEF WritesAt
<1>5. \A S \in SUBSET Node : apply(S) \in Seq(Step) /\ \A i \in DOMAIN apply(S) : apply(S)[i].op # "write"
  <2> TAKE S \in SUBSET Node
  <2>1. on("enable", S) \in Step /\ on("runonce", S) \in Step
    BY <1>3 DEF Operation
  <2> QED
    BY <2>1
<1>6. Steps(R) = IF MS \in hosts /\ nodes # {} THEN before(hosts) \o apply(nodes) \o apply({MS})
                 ELSE before(some) \o apply(some)
  BY DEF Steps
<1> HIDE DEF before, apply, hosts, nodes, some
<1>7. WritesAt(before(hosts) \o apply(nodes), 4)
  BY <1>1, <1>2, <1>4, <1>5, WritesAtFront
<1>8. WritesAt((before(hosts) \o apply(nodes)) \o apply({MS}), 4)
  BY <1>1, <1>5, <1>7, WritesAtFront
<1>9. WritesAt(before(some) \o apply(some), 4)
  BY <1>2, <1>4, <1>5, WritesAtFront
<1> QED
  BY <1>6, <1>8, <1>9

-----------------------------------------------------------------------------
(* Commands and the agents *)

(* An agent goes on as before, has been killed or begins a run with its manifest. *)
AgentMoves(n) ==
    \/ /\ agent'[n].applying = agent[n].applying /\ agent'[n].catalog = agent[n].catalog
       /\ agent'[n].ver = agent[n].ver /\ resources'[n] = resources[n]
    \/ /\ ~agent'[n].applying /\ agent'[n].catalog = {} /\ agent'[n].ver = 0
       /\ resources'[n] = resources[n]
    \/ /\ agent'[n].applying /\ agent'[n].catalog = manifest[n] /\ agent'[n].ver = version
       /\ resources'[n] = manifest[n]

LEMMA IdleType == Idle \in Agent /\ ~Idle.applying /\ Idle.catalog = {} /\ Idle.ver = 0
BY DEF Idle, Agent

LEMMA CommandMoves ==
    ASSUME TypeOK, NEW op, NEW S, agent' = Command(op, S),
           resources' = Compiled(S) \/ (op # "runonce" /\ resources' = resources)
    PROVE  /\ agent' \in [Node -> Agent] /\ resources' \in [Node -> SUBSET Resource]
           /\ \A n \in Node : AgentMoves(n)
<1>1. ASSUME NEW n \in Node
      PROVE  /\ agent'[n] \in Agent
             /\ \/ /\ agent'[n].applying = agent[n].applying /\ agent'[n].catalog = agent[n].catalog
                   /\ agent'[n].ver = agent[n].ver
                \/ ~agent'[n].applying /\ agent'[n].catalog = {} /\ agent'[n].ver = 0
                \/ /\ n \in S /\ op = "runonce" /\ ~agent[n].applying
                   /\ agent'[n].applying /\ agent'[n].catalog = manifest[n] /\ agent'[n].ver = version
  <2> DEFINE a == agent[n]
             new == CASE op = "disable" -> [a EXCEPT !.enabled = FALSE]
                      [] op = "enable" -> [a EXCEPT !.enabled = TRUE]
                      [] op = "kill" -> [Idle EXCEPT !.enabled = a.enabled]
                      [] op = "runonce" /\ a.enabled /\ ~a.applying ->
                           [a EXCEPT !.applying = TRUE, !.catalog = manifest[n], !.ver = version]
                      [] OTHER -> a
  <2>0. a \in Agent /\ manifest[n] \in SUBSET Resource /\ version \in Nat
    BY DEF TypeOK
  <2>1. agent'[n] = IF n \notin S THEN a ELSE new
    BY DEF Command
  <2>2. \/ agent'[n] = a
        \/ agent'[n] = [a EXCEPT !.enabled = FALSE]
        \/ agent'[n] = [a EXCEPT !.enabled = TRUE]
        \/ agent'[n] = [Idle EXCEPT !.enabled = a.enabled]
        \/ /\ n \in S /\ op = "runonce" /\ ~a.applying
           /\ agent'[n] = [a EXCEPT !.applying = TRUE, !.catalog = manifest[n], !.ver = version]
    <3>1. CASE n \notin S
      BY <2>1, <3>1
    <3>2. CASE n \in S
      <4>1. agent'[n] = new
        BY <2>1, <3>2
      <4>2. CASE op = "disable"
        BY <4>1, <4>2
      <4>3. CASE op = "enable"
        BY <4>1, <4>3
      <4>4. CASE op = "kill"
        BY <4>1, <4>4
      <4>5. CASE op = "runonce" /\ a.enabled /\ ~a.applying
        BY <4>1, <4>5, <3>2
      <4>6. CASE op # "disable" /\ op # "enable" /\ op # "kill"
                 /\ ~(op = "runonce" /\ a.enabled /\ ~a.applying)
        BY <4>1, <4>6
      <4> QED
        BY <4>2, <4>3, <4>4, <4>5, <4>6
    <3> QED
      BY <3>1, <3>2
  <2> HIDE DEF a
  <2>3. CASE agent'[n] = a
    BY <2>0, <2>3 DEF a
  <2>4. CASE agent'[n] = [a EXCEPT !.enabled = FALSE] \/ agent'[n] = [a EXCEPT !.enabled = TRUE]
    <3>1. agent'[n] \in Agent /\ agent'[n].applying = a.applying /\ agent'[n].catalog = a.catalog
          /\ agent'[n].ver = a.ver
      BY <2>0, <2>4 DEF Agent
    <3> QED
      BY <3>1 DEF a
  <2>5. CASE agent'[n] = [Idle EXCEPT !.enabled = a.enabled]
    <3>1. a.enabled \in BOOLEAN
      BY <2>0 DEF Agent
    <3>2. agent'[n] = [enabled |-> a.enabled, applying |-> FALSE, catalog |-> {}, ver |-> 0]
      BY <2>5 DEF Idle
    <3>3. agent'[n] \in Agent
      BY <3>1, <3>2 DEF Agent
    <3>4. ~agent'[n].applying /\ agent'[n].catalog = {} /\ agent'[n].ver = 0
      BY <3>2
    <3> QED
      BY <3>3, <3>4
  <2>6. CASE /\ n \in S /\ op = "runonce" /\ ~a.applying
             /\ agent'[n] = [a EXCEPT !.applying = TRUE, !.catalog = manifest[n], !.ver = version]
    <3>1. agent'[n] \in Agent /\ agent'[n].applying /\ agent'[n].catalog = manifest[n]
          /\ agent'[n].ver = version
      BY <2>0, <2>6 DEF Agent
    <3> QED
      BY <2>6, <3>1 DEF a
  <2> QED
    BY <2>2, <2>3, <2>4, <2>5, <2>6
<1>2. agent' \in [Node -> Agent]
  <2>1. agent' = [n \in Node |-> agent'[n]]
    BY DEF Command
  <2> QED
    BY <1>1, <2>1
<1>3. ASSUME NEW n \in Node
      PROVE  resources'[n] \in SUBSET Resource /\ AgentMoves(n)
  <2>1. manifest[n] \in SUBSET Resource /\ resources[n] \in SUBSET Resource
        /\ agent[n].applying \in BOOLEAN /\ agent'[n].applying \in BOOLEAN
    BY <1>2 DEF TypeOK, Agent
  <2>2. CASE resources' = Compiled(S)
    <3>1. resources'[n] = IF n \in S /\ agent'[n].applying /\ ~agent[n].applying
                          THEN manifest[n] ELSE resources[n]
      BY <2>2 DEF Compiled
    <3> QED
      BY <1>1, <2>1, <3>1 DEF AgentMoves
  <2>3. CASE op # "runonce" /\ resources' = resources
    BY <1>1, <2>1, <2>3 DEF AgentMoves
  <2> QED
    BY <2>2, <2>3
<1>4. resources' \in [Node -> SUBSET Resource]
  <2>1. resources' = [n \in Node |-> resources'[n]]
    BY DEF Compiled, TypeOK
  <2> QED
    BY <1>3, <2>1
<1> QED
  BY <1>2, <1>3, <1>4

-----------------------------------------------------------------------------
(* wait_for_phase *)

(* Each field of the PuppetManager can be set to a value of its type. *)
LEMMA FieldTypes ==
    ASSUME NEW p \in Manager
    PROVE  /\ \A x \in SUBSET Task : [p EXCEPT !.tasks = x] \in Manager
           /\ \A x \in SUBSET Task : [p EXCEPT !.reported = x] \in Manager
           /\ \A x \in SUBSET Node : [p EXCEPT !.processed = x] \in Manager
           /\ \A x \in SUBSET Node : [p EXCEPT !.processing = x] \in Manager
           /\ \A x \in BOOLEAN : [p EXCEPT !.complete = x] \in Manager
           /\ \A x \in BOOLEAN : [p EXCEPT !.success = x] \in Manager
           /\ \A x \in Nat : [p EXCEPT !.version = x] \in Manager
           /\ \A x \in SUBSET Node : [p EXCEPT !.waiting = x] \in Manager
           /\ \A x \in SUBSET Node : [p EXCEPT !.todo = x] \in Manager
           /\ \A x \in Int : [p EXCEPT !.timeout = x] \in Manager
           /\ \A x \in Int : [p EXCEPT !.polls = x] \in Manager
           /\ \A x \in Nat : [p EXCEPT !.retries = x] \in Manager
           /\ \A x \in Seq(Step) : [p EXCEPT !.steps = x] \in Manager
<1>1. \A x \in SUBSET Task : [p EXCEPT !.tasks = x] \in Manager
  BY DEF Manager
<1>2. \A x \in SUBSET Task : [p EXCEPT !.reported = x] \in Manager
  BY DEF Manager
<1>3. \A x \in SUBSET Node : [p EXCEPT !.processed = x] \in Manager
  BY DEF Manager
<1>4. \A x \in SUBSET Node : [p EXCEPT !.processing = x] \in Manager
  BY DEF Manager
<1>5. \A x \in BOOLEAN : [p EXCEPT !.complete = x] \in Manager
  BY DEF Manager
<1>6. \A x \in BOOLEAN : [p EXCEPT !.success = x] \in Manager
  BY DEF Manager
<1>7. \A x \in Nat : [p EXCEPT !.version = x] \in Manager
  BY DEF Manager
<1>8. \A x \in SUBSET Node : [p EXCEPT !.waiting = x] \in Manager
  BY DEF Manager
<1>9. \A x \in SUBSET Node : [p EXCEPT !.todo = x] \in Manager
  BY DEF Manager
<1>10. \A x \in Int : [p EXCEPT !.timeout = x] \in Manager
  BY DEF Manager
<1>11. \A x \in Int : [p EXCEPT !.polls = x] \in Manager
  BY DEF Manager
<1>12. \A x \in Nat : [p EXCEPT !.retries = x] \in Manager
  BY DEF Manager
<1>13. \A x \in Seq(Step) : [p EXCEPT !.steps = x] \in Manager
  BY DEF Manager
<1> QED
  BY <1>1, <1>2, <1>3, <1>4, <1>5, <1>6, <1>7, <1>8, <1>9, <1>10, <1>11, <1>12, <1>13

LEMMA NumberFields ==
    ASSUME NEW p \in Manager
    PROVE  p.timeout \in Int /\ p.polls \in Int
BY DEF Manager

LEMMA MinusOne == \A k \in Int : k - 1 \in Int
OBVIOUS

LEMMA CompleteFacts ==
    ASSUME NEW p \in Manager, NEW b \in BOOLEAN
    PROVE  LET q == CompletePhase(p, b)
           IN  /\ q \in Manager /\ q.complete /\ q.tasks = {} /\ q.success = b
               /\ q.processed = p.processed /\ q.processing = p.processing
               /\ q.version = p.version /\ q.waiting = p.waiting /\ q.steps = p.steps
               /\ q.timeout = p.timeout
<1> DEFINE q == CompletePhase(p, b)
<1>1. /\ q.complete /\ q.tasks = {} /\ q.success = b
      /\ q.processed = p.processed /\ q.processing = p.processing
      /\ q.version = p.version /\ q.waiting = p.waiting /\ q.steps = p.steps
      /\ q.timeout = p.timeout
  BY DEF CompletePhase, Manager
<1>2. q \in Manager
  BY FieldTypes DEF CompletePhase
<1> QED
  BY <1>1, <1>2

(* The end of the wait: fields that are reset, fields that stay *)
LEMMA ResetFacts ==
    ASSUME NEW p \in Manager
    PROVE  LET q == [p EXCEPT !.waiting = {}, !.timeout = 0, !.polls = 0, !.retries = 0]
           IN  /\ q \in Manager /\ q.version = p.version /\ q.processing = p.processing
               /\ q.steps = p.steps
<1> DEFINE q == [p EXCEPT !.waiting = {}, !.timeout = 0, !.polls = 0, !.retries = 0]
<1>1. q.version = p.version /\ q.processing = p.processing /\ q.steps = p.steps
  BY DEF Manager
<1> DEFINE a == [p EXCEPT !.waiting = {}]
           b == [a EXCEPT !.timeout = 0]
           c == [b EXCEPT !.polls = 0]
<1>2. a \in Manager
  BY FieldTypes
<1> HIDE DEF a
<1>3. b \in Manager
  BY <1>2, FieldTypes
<1> HIDE DEF b
<1>4. c \in Manager
  <2>1. \A x \in Int : [b EXCEPT !.polls = x] \in Manager
    BY <1>3, FieldTypes
  <2> QED
    BY <2>1
<1> HIDE DEF c
<1>5. [c EXCEPT !.retries = 0] \in Manager
  BY <1>4, FieldTypes
<1>6. q = [c EXCEPT !.retries = 0]
  BY DEF a, b, c
<1> QED
  BY <1>1, <1>5, <1>6

LEMMA TodoFacts ==
    ASSUME NEW p \in Manager, NEW S \in SUBSET Node
    PROVE  LET q == [p EXCEPT !.todo = S]
           IN  /\ q \in Manager /\ q.version = p.version /\ q.processing = p.processing
               /\ q.steps = p.steps /\ q.tasks = p.tasks /\ q.complete = p.complete
               /\ q.waiting = p.waiting /\ q.processed = p.processed /\ q.retries = p.retries
BY DEF Manager

LEMMA PollsFacts ==
    ASSUME NEW p \in Manager, NEW k \in Int
    PROVE  LET r == [p EXCEPT !.polls = k]
           IN  /\ r \in Manager /\ r.version = p.version /\ r.processing = p.processing
               /\ r.steps = p.steps /\ r.complete = p.complete /\ r.tasks = p.tasks
               /\ r.processed = p.processed /\ r.waiting = p.waiting
BY DEF Manager

LEMMA ContinueFacts ==
    ASSUME TypeOK, NEW p \in Manager, NEW s \in [Task -> TaskState], Continue(p, s)
    PROVE  /\ pm' \in Manager /\ state' \in [Task -> TaskState]
           /\ pm'.version = p.version /\ pm'.processing = p.processing /\ pm'.steps = p.steps
           /\ \/ /\ pc' = "feedback" /\ state' = s /\ result' = result
                 /\ pm'.tasks = p.tasks /\ pm'.complete = p.complete
                 /\ pm'.waiting = p.waiting /\ pm'.processed = p.processed
              \/ /\ pc' \in {"restore", "disable"} /\ result' \in {"error", "ok"} /\ ~Looping(p)
                 /\ \A t \in Task : \/ state'[t] = s[t]
                                    \/ t \in p.tasks /\ s[t] = "running" /\ state'[t] = "failed"
                 /\ ~p.complete /\ ~(p.timeout > 0) =>
                       \A t \in Task : t \in p.tasks => state'[t] # "running"
                 /\ result' = "ok" =>
                       \A t \in Current : state'[t] # "failed" /\ state'[t] # "stopped"
<1>1. CASE Looping(p)
  <2>1. /\ pm' = [p EXCEPT !.todo = p.processing] /\ state' = s /\ pc' = "feedback"
        /\ result' = result
    BY <1>1 DEF Continue
  <2>2. p.processing \in SUBSET Node
    BY DEF Manager
  <2> QED
    BY <2>1, <2>2, TodoFacts
<1>2. CASE ~Looping(p)
  <2> DEFINE q == IF p.complete THEN p ELSE CompletePhase(p, FALSE)
             late == IF p.complete \/ p.timeout > 0 THEN {} ELSE {t \in p.tasks : s[t] = "running"}
             end == [t \in Task |-> IF t \in late THEN "failed" ELSE s[t]]
             error == ~q.success \/ \E t \in Current : end[t] \in {"failed", "stopped"}
  <2>1. /\ pm' = [q EXCEPT !.waiting = {}, !.timeout = 0, !.polls = 0, !.retries = 0]
        /\ state' = end
        /\ result' = IF error THEN "error" ELSE "ok"
        /\ pc' = IF error THEN "restore" ELSE "disable"
    BY <1>2 DEF Continue
  <2>2. /\ q \in Manager /\ q.version = p.version /\ q.processing = p.processing
        /\ q.steps = p.steps
    BY CompleteFacts
  <2> HIDE DEF q
  <2>3. /\ pm' \in Manager /\ pm'.version = p.version /\ pm'.processing = p.processing
        /\ pm'.steps = p.steps
    BY <2>1, <2>2, ResetFacts
  <2>4. \A t \in Task : state'[t] = IF t \in late THEN "failed" ELSE s[t]
    BY <2>1
  <2>5. \A t \in late : t \in p.tasks /\ s[t] = "running"
    OBVIOUS
  <2>6. ~p.complete /\ ~(p.timeout > 0) => \A t \in p.tasks : s[t] = "running" => t \in late
    OBVIOUS
  <2>7. result' = "ok" => \A t \in Current : end[t] # "failed" /\ end[t] # "stopped"
    BY <2>1
  <2>8. result' \in {"error", "ok"} /\ pc' \in {"restore", "disable"}
    BY <2>1
  <2>9. state' \in [Task -> TaskState]
    BY <2>1 DEF TaskState
  <2>10. result' = "ok" => \A t \in Current : state'[t] # "failed" /\ state'[t] # "stopped"
    BY <2>1, <2>7
  <2> HIDE DEF late, end, error
  <2>11. \A t \in Task : \/ state'[t] = s[t]
                         \/ t \in p.tasks /\ s[t] = "running" /\ state'[t] = "failed"
    BY <2>4, <2>5
  <2>12. ~p.complete /\ ~(p.timeout > 0) => \A t \in Task : t \in p.tasks => state'[t] # "running"
    BY <2>4, <2>6
  <2> QED
    BY <1>2, <2>3, <2>8, <2>9, <2>10, <2>11, <2>12
<1> QED
  BY <1>1, <1>2

(* What the feedback of a node does to the state of the tasks and to the manager *)
FeedbackApplied(n, f) ==
    LET new == (f.ok \cup f.bad) \cap pm.tasks
    IN  /\ ~pm.complete /\ new # {}
        /\ pm'.processed = pm.processed \cup {NodeOf[t] : t \in new}
        /\ \A t \in Task :
              /\ state'[t] = "success" => state[t] = "success" \/ t \in f.ok
              /\ t \notin pm.tasks /\ t \notin Current => state'[t] = state[t]
              /\ state'[t] = "initial" => state[t] = "initial"
              /\ state'[t] = "running" => /\ state[t] = "running" /\ t \notin new
                                          /\ t \notin Missing(n, new)
        /\ \/ ~pm'.complete /\ pm'.tasks = pm.tasks
           \/ /\ pm'.complete
              /\ \/ \A t \in Task : t \in Current => state'[t] # "running"
                 \/ \A t \in Task : t \in pm.tasks => state'[t] # "running"

LEMMA TasklessFacts ==
    ASSUME NEW p \in Manager, NEW s \in [Task -> TaskState], TasklessFailure(p, s),
           ~p.complete
    PROVE  /\ pm' \in Manager /\ state' \in [Task -> TaskState]
           /\ pm'.version = p.version /\ pm'.processing = p.processing /\ pm'.steps = p.steps
           /\ pm'.waiting = p.waiting /\ pm'.processed = p.processed
           /\ \A t \in Task : \/ state'[t] = s[t]
                              \/ t \in Current /\ state'[t] = "failed"
           /\ \/ ~pm'.complete /\ pm'.tasks = p.tasks
              \/ pm'.complete /\ \A t \in Task : t \in Current => state'[t] # "running"
<1> DEFINE incomplete == {t \in Current : s[t] \in {"initial", "running"}}
           q == [p EXCEPT !.todo = {}]
<1>1. /\ q \in Manager /\ q.version = p.version /\ q.processing = p.processing
      /\ q.steps = p.steps /\ q.tasks = p.tasks /\ q.complete = p.complete
      /\ q.waiting = p.waiting /\ q.processed = p.processed /\ q.retries = p.retries
  BY TodoFacts
<1>2. IF p.retries > 0
      THEN pm' = [q EXCEPT !.retries = q.retries - 1] /\ state' = s
      ELSE /\ state' = [t \in Task |-> IF t \in incomplete THEN "failed" ELSE s[t]]
           /\ pm' = IF incomplete = {} THEN q ELSE CompletePhase(q, FALSE)
  BY DEF TasklessFailure
<1> HIDE DEF q
<1>3. CASE p.retries > 0
  <2>1. pm' = [q EXCEPT !.retries = q.retries - 1] /\ state' = s
    BY <1>2, <1>3
  <2>2. q.retries - 1 \in Nat
    BY <1>1, <1>3 DEF Manager
  <2>3. /\ pm' \in Manager /\ pm'.version = q.version /\ pm'.processing = q.processing
        /\ pm'.steps = q.steps /\ pm'.tasks = q.tasks /\ pm'.complete = q.complete
        /\ pm'.waiting = q.waiting /\ pm'.processed = q.processed
    BY <1>1, <2>1, <2>2 DEF Manager
  <2> QED
    BY <1>1, <2>1, <2>3
<1>4. CASE ~(p.retries > 0)
  <2>1. /\ state' = [t \in Task |-> IF t \in incomplete THEN "failed" ELSE s[t]]
        /\ pm' = IF incomplete = {} THEN q ELSE CompletePhase(q, FALSE)
    BY <1>2, <1>4
  <2>2. state' \in [Task -> TaskState]
    BY <2>1 DEF TaskState
  <2>3. \A t \in Task : state'[t] = s[t] \/ (t \in Current /\ state'[t] = "failed")
    BY <2>1
  <2>4. \A t \in Task : t \in Current => state'[t] # "running"
    BY <2>1
  <2>5. CASE incomplete = {}
    BY <1>1, <2>1, <2>2, <2>3, <2>5
  <2>6. CASE incomplete # {}
    <3>1. pm' = CompletePhase(q, FALSE)
      BY <2>1, <2>6
    <3> QED
      BY <1>1, <2>2, <2>3, <2>4, <3>1, CompleteFacts
  <2> QED
    BY <2>5, <2>6
<1> QED
  BY <1>3, <1>4

(* Feedback is either of no use or is applied as FeedbackApplied says. *)
LEMMA FeedbackFacts ==
    ASSUME TypeOK, NEW n \in Node, ProcessFeedback(n)
    PROVE  /\ pm' \in Manager /\ state' \in [Task -> TaskState] /\ pc' \in {"check", "feedback"}
           /\ pm'.version = pm.version /\ pm'.processing = pm.processing
           /\ pm'.steps = pm.steps /\ pm'.waiting = pm.waiting
           /\ \/ /\ state' = state /\ pm'.tasks = pm.tasks /\ pm'.complete = pm.complete
                 /\ pm'.processed = pm.processed
              \/ \E query \in BOOLEAN : \E found \in Found(n) : \E read \in Read(found) :
                    found # {} /\ FeedbackApplied(n, Feedback(n, query, read))
<1>1. pm \in Manager /\ state \in [Task -> TaskState] /\ NodeOf \in [Task -> Node]
  BY PuppetAssumption DEF TypeOK, TaskState
<1> DEFINE Arms(query, found, read) ==
             LET f == Feedback(n, query, read)
                 new == (f.ok \cup f.bad) \cap pm.tasks
                 changed == {t \in new : state[t] \in {"initial", "running", "failed"}}
                 missing == Missing(n, new)
                 s == [t \in Task |-> IF t \in changed THEN FeedbackToState(t \in f.ok)
                                      ELSE IF t \in missing THEN "failed" ELSE state[t]]
                 p == [pm EXCEPT !.todo = @ \ {n}, !.reported = @ \cup new,
                                 !.processed = @ \cup {NodeOf[t] : t \in new}]
             IN  CASE found = {} \/ pm.complete \/ new = {} ->
                        pm' = [pm EXCEPT !.todo = @ \ {n}] /\ UNCHANGED state
                   [] found # {} /\ ~pm.complete /\ new # {} /\ f.taskless -> TasklessFailure(p, s)
                   [] OTHER ->
                        /\ state' = s
                        /\ pm' = IF p.tasks # p.reported \/ ~(p.processing \subseteq p.processed) THEN p
                                 ELSE IF \A t \in p.tasks : s[t] = "success" THEN CompletePhase(p, TRUE)
                                 ELSE IF \A t \in p.tasks : s[t] # "running" THEN CompletePhase(p, FALSE)
                                 ELSE p
<1>2. \E query \in BOOLEAN : \E found \in Found(n) : \E read \in Read(found) : Arms(query, found, read)
  <2> DEFINE Q == {TRUE} \cup (IF "query" \in Faults THEN {FALSE} ELSE {})
  <2>1. \E query \in Q : \E found \in Found(n) : \E read \in Read(found) : Arms(query, found, read)
    BY Zenon DEF ProcessFeedback
  <2>2. Q \subseteq BOOLEAN
    OBVIOUS
  <2> HIDE DEF Q, Arms
  <2> QED
    BY <2>1, <2>2
<1>3. pc' \in {"check", "feedback"}
  BY DEF ProcessFeedback
<1>4. PICK query \in BOOLEAN : \E found \in Found(n) : \E read \in Read(found) : Arms(query, found, read)
  BY <1>2
<1>5. PICK found \in Found(n) : \E read \in Read(found) : Arms(query, found, read)
  BY <1>4
<1>6. PICK read \in Read(found) : Arms(query, found, read)
  BY <1>5
<1> DEFINE f == Feedback(n, query, read)
           new == (f.ok \cup f.bad) \cap pm.tasks
           changed == {t \in new : state[t] \in {"initial", "running", "failed"}}
           missing == Missing(n, new)
           s == [t \in Task |-> IF t \in changed THEN FeedbackToState(t \in f.ok)
                                ELSE IF t \in missing THEN "failed" ELSE state[t]]
           todo == pm.todo \ {n}
           reported == pm.reported \cup new
           processed == pm.processed \cup {NodeOf[t] : t \in new}
           p == [pm EXCEPT !.todo = todo, !.reported = reported, !.processed = processed]
<1>7. CASE found = {} \/ pm.complete \/ new = {}
  <2>1. pm' = [pm EXCEPT !.todo = todo] /\ state' = state
    BY <1>6, <1>7, Zenon
  <2>2. todo \in SUBSET Node
    BY <1>1 DEF Manager
  <2> QED
    BY <1>1, <1>3, <2>1, <2>2, TodoFacts
<1>8. CASE ~(found = {} \/ pm.complete \/ new = {})
  <2>1. \/ TasklessFailure(p, s)
        \/ /\ state' = s
           /\ pm' = IF p.tasks # p.reported \/ ~(p.processing \subseteq p.processed) THEN p
                    ELSE IF \A t \in p.tasks : s[t] = "success" THEN CompletePhase(p, TRUE)
                    ELSE IF \A t \in p.tasks : s[t] # "running" THEN CompletePhase(p, FALSE)
                    ELSE p
    BY <1>6, <1>8, Zenon
  <2>2. pm.tasks \subseteq Task /\ new \subseteq pm.tasks /\ new \subseteq Task
    BY <1>1 DEF Manager
  <2>3. missing \subseteq pm.tasks
    BY DEF Missing
  <2>4. s \in [Task -> TaskState]
    BY <1>1 DEF TaskState, FeedbackToState
  <2>5. \A t \in Task : s[t] = IF t \in changed THEN FeedbackToState(t \in f.ok)
                               ELSE IF t \in missing THEN "failed" ELSE state[t]
    OBVIOUS
  <2>6. \A t \in Task : t \in new => (t \in changed <=> state[t] \in {"initial", "running", "failed"})
    OBVIOUS
  <2>7. \A t \in Task : t \in changed => t \in new
    OBVIOUS
  <2>8. todo \in SUBSET Node /\ reported \in SUBSET Task /\ processed \in SUBSET Node
    BY <1>1, <2>2 DEF Manager
  <2> HIDE DEF new, changed, missing, f, s, todo, reported, processed
  <2>9. /\ p \in Manager /\ p.version = pm.version /\ p.processing = pm.processing
        /\ p.steps = pm.steps /\ p.waiting = pm.waiting /\ p.tasks = pm.tasks
        /\ p.complete = pm.complete /\ p.processed = processed
    <3> DEFINE a == [pm EXCEPT !.todo = todo]
               b == [a EXCEPT !.reported = reported]
    <3>1. a \in Manager
      BY <1>1, <2>8, TodoFacts
    <3>2. b \in Manager
      <4> HIDE DEF a
      <4> QED
        BY <2>8, <3>1, FieldTypes
    <3>3. [b EXCEPT !.processed = processed] \in Manager
      <4> HIDE DEF b
      <4> QED
        BY <2>8, <3>2, FieldTypes
    <3>4. p = [b EXCEPT !.processed = processed]
      OBVIOUS
    <3>5. /\ p.version = pm.version /\ p.processing = pm.processing
          /\ p.steps = pm.steps /\ p.waiting = pm.waiting /\ p.tasks = pm.tasks
          /\ p.complete = pm.complete /\ p.processed = processed
      BY <1>1 DEF Manager
    <3> QED
      BY <3>3, <3>4, <3>5
  <2> HIDE DEF p
  <2>10. \A t \in Task : /\ s[t] = "success" => state[t] = "success" \/ t \in f.ok
                         /\ t \notin pm.tasks => s[t] = state[t]
                         /\ s[t] = "initial" => state[t] = "initial"
    BY <2>2, <2>3, <2>5, <2>7 DEF FeedbackToState
  <2>11. \A t \in Task : s[t] = "running" => state[t] = "running" /\ t \notin new /\ t \notin missing
    <3> TAKE t \in Task
    <3>1. CASE t \in changed
      BY <2>5, <3>1 DEF FeedbackToState
    <3>2. CASE t \notin changed
      BY <2>5, <2>6, <3>2
    <3> QED
      BY <3>1, <3>2
  <2>12. /\ pm' \in Manager /\ state' \in [Task -> TaskState]
         /\ pm'.version = pm.version /\ pm'.processing = pm.processing
         /\ pm'.steps = pm.steps /\ pm'.waiting = pm.waiting /\ pm'.processed = processed
         /\ \A t \in Task : state'[t] = s[t] \/ (t \in Current /\ state'[t] = "failed")
         /\ \/ ~pm'.complete /\ pm'.tasks = pm.tasks
            \/ /\ pm'.complete
               /\ \/ \A t \in Task : t \in Current => state'[t] # "running"
                  \/ \A t \in Task : t \in pm.tasks => state'[t] # "running"
    <3>1. CASE TasklessFailure(p, s)
      BY <1>8, <2>4, <2>9, <3>1, TasklessFacts
    <3>2. CASE /\ state' = s
               /\ pm' = IF p.tasks # p.reported \/ ~(p.processing \subseteq p.processed) THEN p
                        ELSE IF \A t \in p.tasks : s[t] = "success" THEN CompletePhase(p, TRUE)
                        ELSE IF \A t \in p.tasks : s[t] # "running" THEN CompletePhase(p, FALSE)
                        ELSE p
      <4>1. \/ pm' = p
            \/ /\ pm' = CompletePhase(p, TRUE) \/ pm' = CompletePhase(p, FALSE)
               /\ \A t \in Task : t \in p.tasks => s[t] # "running"
        BY <3>2
      <4>2. CASE pm' = p
        BY <1>8, <2>4, <2>9, <3>2, <4>2
      <4>3. CASE /\ pm' = CompletePhase(p, TRUE) \/ pm' = CompletePhase(p, FALSE)
                 /\ \A t \in Task : t \in p.tasks => s[t] # "running"
        BY <2>4, <2>9, <3>2, <4>3, CompleteFacts
      <4> QED
        BY <4>1, <4>2, <4>3
    <3> QED
      BY <2>1, <3>1, <3>2
  <2>13. FeedbackApplied(n, f)
    <3>1. \A t \in Task :
              /\ state'[t] = "success" => state[t] = "success" \/ t \in f.ok
              /\ t \notin pm.tasks /\ t \notin Current => state'[t] = state[t]
              /\ state'[t] = "initial" => state[t] = "initial"
              /\ state'[t] = "running" => state[t] = "running" /\ t \notin new /\ t \notin missing
      BY <2>10, <2>11, <2>12
    <3> QED
      BY <1>8, <2>12, <3>1 DEF FeedbackApplied, new, missing, processed
  <2> QED
    BY <1>3, <1>8, <2>12, <2>13 DEF f
<1> QED
  BY <1>7, <1>8

LEMMA BeginWaitFacts ==
    ASSUME TypeOK, BeginWait
    PROVE  \/ /\ \A t \in Current : HasRun(t)
              /\ state' = state /\ pm' = pm
              /\ pc' \in {"restore", "disable"} /\ result' \in {"error", "ok"}
              /\ result' = "ok" => \A t \in Current : state[t] # "failed" /\ state[t] # "stopped"
           \/ \E p \in Manager :
                 /\ Continue(p, state)
                 /\ p.version = pm.version /\ p.processing = pm.processing /\ p.steps = pm.steps
                 /\ p.complete = pm.complete /\ p.tasks = pm.tasks /\ p.processed = pm.processed
                 /\ p.waiting = {NodeOf[t] : t \in {u \in Current : ~HasRun(u)}}
<1>1. CASE \A t \in Current : HasRun(t)
  <2> DEFINE error == \E t \in Current : state[t] \in {"failed", "stopped"}
  <2>1. /\ result' = (IF error THEN "error" ELSE "ok")
        /\ pc' = (IF error THEN "restore" ELSE "disable")
        /\ state' = state /\ pm' = pm
    BY <1>1 DEF BeginWait
  <2> QED
    BY <1>1, <2>1
<1>2. CASE ~\A t \in Current : HasRun(t)
  <2> DEFINE W == {NodeOf[t] : t \in {u \in Current : ~HasRun(u)}}
             a == [pm EXCEPT !.waiting = W]
             b == [a EXCEPT !.timeout = Timeout]
             c == [b EXCEPT !.polls = PollCount]
             p == [c EXCEPT !.retries = TasklessRetries]
             q == [pm EXCEPT !.waiting = W, !.timeout = Timeout, !.polls = PollCount,
                             !.retries = TasklessRetries]
  <2>1. Continue(q, state)
    BY <1>2 DEF BeginWait
  <2>2. W \in SUBSET Node
    BY CurrentFacts, PuppetAssumption
  <2>3. Timeout \in Int /\ PollCount \in Int /\ TasklessRetries \in Nat
    BY PuppetAssumption
  <2>4. pm \in Manager
    BY DEF TypeOK
  <2> HIDE DEF W
  <2>5. /\ q.version = pm.version /\ q.processing = pm.processing /\ q.steps = pm.steps
        /\ q.complete = pm.complete /\ q.tasks = pm.tasks /\ q.processed = pm.processed
        /\ q.waiting = W
    BY <2>4 DEF Manager
  <2>6. q = p
    OBVIOUS
  <2> HIDE DEF q
  <2>7. a \in Manager
    BY <2>2, <2>4, FieldTypes
  <2> HIDE DEF a
  <2>8. b \in Manager
    BY <2>3, <2>7, FieldTypes
  <2> HIDE DEF b
  <2>9. c \in Manager
    <3>1. \A x \in Int : [b EXCEPT !.polls = x] \in Manager
      BY <2>8, FieldTypes
    <3> QED
      BY <2>3, <3>1
  <2> HIDE DEF c
  <2>10. p \in Manager
    BY <2>3, <2>9, FieldTypes
  <2> HIDE DEF p
  <2> QED
    BY <2>1, <2>5, <2>6, <2>10 DEF W
<1> QED
  BY <1>1, <1>2

LEMMA CheckFacts ==
    ASSUME TypeOK, Check
    PROVE  \E p \in Manager : \E s \in [Task -> TaskState] :
              /\ Continue(p, s)
              /\ p.version = pm.version /\ p.processing = pm.processing /\ p.steps = pm.steps
              /\ \/ pm.complete /\ p.complete /\ s = state
                 \/ /\ ~pm.complete /\ p.complete
                    /\ s = Set(InState(pm.tasks, "running"), "failed")
                 \/ /\ ~pm.complete /\ ~p.complete /\ s = state
                    /\ p.tasks = pm.tasks /\ p.processed = pm.processed
                    /\ p.waiting = pm.waiting \ pm.processed
<1>1. pm \in Manager /\ state \in [Task -> TaskState] /\ PollCount \in Int
  BY PuppetAssumption DEF TypeOK, TaskState
<1> DEFINE W == pm.waiting \ pm.processed
           p == [pm EXCEPT !.waiting = W, !.timeout = @ - 1]
<1>2. PICK poll \in {"not due", "alive", "dead"} :
         LET dead == poll # "not due" /\ ~IsPuppetAlive(poll, p.waiting)
             q == CASE dead -> [p EXCEPT !.polls = @ - 1]
                    [] IsPuppetAlive(poll, p.waiting) -> [p EXCEPT !.polls = PollCount]
                    [] OTHER -> p
         IN  IF pm.complete THEN Continue(pm, state)
             ELSE IF dead /\ q.polls <= 0
             THEN Continue(CompletePhase(q, FALSE), Set(InState(pm.tasks, "running"), "failed"))
             ELSE Continue(q, state)
  BY DEF Check
<1> DEFINE dead == poll # "not due" /\ ~IsPuppetAlive(poll, p.waiting)
           q == CASE dead -> [p EXCEPT !.polls = @ - 1]
                  [] IsPuppetAlive(poll, p.waiting) -> [p EXCEPT !.polls = PollCount]
                  [] OTHER -> p
           failed == Set(InState(pm.tasks, "running"), "failed")
<1>3. \/ pm.complete /\ Continue(pm, state)
      \/ ~pm.complete /\ Continue(CompletePhase(q, FALSE), failed)
      \/ ~pm.complete /\ Continue(q, state)
  BY <1>2, Zenon
<1>4. \/ q = [p EXCEPT !.polls = @ - 1]
      \/ q = [p EXCEPT !.polls = PollCount]
      \/ q = p
  <2>1. CASE dead
    BY <2>1, Zenon
  <2>2. CASE ~dead /\ IsPuppetAlive(poll, p.waiting)
    BY <2>2, Zenon
  <2>3. CASE ~dead /\ ~IsPuppetAlive(poll, p.waiting)
    BY <2>3, Zenon
  <2> QED
    BY <2>1, <2>2, <2>3
<1> HIDE DEF q
<1>5. failed \in [Task -> TaskState]
  BY <1>1 DEF Set, TaskState
<1> HIDE DEF failed
<1>6. W \in SUBSET Node
  BY <1>1 DEF Manager
<1> HIDE DEF W
<1>7. /\ p \in Manager /\ p.version = pm.version /\ p.processing = pm.processing
      /\ p.steps = pm.steps /\ p.complete = pm.complete /\ p.tasks = pm.tasks
      /\ p.processed = pm.processed /\ p.waiting = W
  <2> DEFINE a == [pm EXCEPT !.waiting = W]
  <2>1. a \in Manager
    BY <1>1, <1>6, FieldTypes
  <2>2. p = [a EXCEPT !.timeout = a.timeout - 1]
    BY <1>1 DEF Manager
  <2>3. /\ p.version = pm.version /\ p.processing = pm.processing
        /\ p.steps = pm.steps /\ p.complete = pm.complete /\ p.tasks = pm.tasks
        /\ p.processed = pm.processed /\ p.waiting = W
    BY <1>1 DEF Manager
  <2> HIDE DEF a, p
  <2>4. a.timeout - 1 \in Int
    <3>1. a.timeout \in Int
      BY <2>1, NumberFields
    <3> QED
      BY <3>1, MinusOne, Zenon
  <2>5. p \in Manager
    BY <2>1, <2>2, <2>4, FieldTypes
  <2> QED
    BY <2>3, <2>5
<1> HIDE DEF p
<1>8. /\ q \in Manager /\ q.version = pm.version /\ q.processing = pm.processing
      /\ q.steps = pm.steps /\ q.complete = pm.complete /\ q.tasks = pm.tasks
      /\ q.processed = pm.processed /\ q.waiting = W
  <2>1. p.polls - 1 \in Int
    <3>1. p.polls \in Int
      BY <1>7, NumberFields
    <3> QED
      BY <3>1, MinusOne, Zenon
  <2>2. \A k \in Int : LET r == [p EXCEPT !.polls = k]
                       IN  /\ r \in Manager /\ r.version = p.version /\ r.processing = p.processing
                           /\ r.steps = p.steps /\ r.complete = p.complete /\ r.tasks = p.tasks
                           /\ r.processed = p.processed /\ r.waiting = p.waiting
    BY <1>7, PollsFacts
  <2>3. CASE q = [p EXCEPT !.polls = @ - 1]
    BY <1>7, <2>1, <2>2, <2>3
  <2>4. CASE q = [p EXCEPT !.polls = PollCount]
    BY <1>1, <1>7, <2>2, <2>4
  <2>5. CASE q = p
    BY <1>7, <2>5
  <2> QED
    BY <1>4, <2>3, <2>4, <2>5
<1>9. CASE pm.complete /\ Continue(pm, state)
  BY <1>1, <1>9
<1>10. CASE ~pm.complete /\ Continue(CompletePhase(q, FALSE), failed)
  <2> DEFINE r == CompletePhase(q, FALSE)
  <2>1. /\ r \in Manager /\ r.complete
        /\ r.version = pm.version /\ r.processing = pm.processing /\ r.steps = pm.steps
    BY <1>8, CompleteFacts
  <2> HIDE DEF r
  <2>2. Continue(r, failed)
    BY <1>10 DEF r
  <2> QED
    BY <1>5, <1>10, <2>1, <2>2 DEF failed
<1>11. CASE ~pm.complete /\ Continue(q, state)
  BY <1>1, <1>8, <1>11 DEF W
<1> QED
  BY <1>3, <1>9, <1>10, <1>11


-----------------------------------------------------------------------------
(* The actions that change the manager otherwise *)

LEMMA AddPhaseFacts ==
    ASSUME TypeOK, AddPhase
    PROVE  /\ pm' \in Manager /\ pm'.tasks = Current /\ ~pm'.complete /\ pm'.processed = {}
           /\ pm'.processing = {NodeOf[t] : t \in Current} /\ pm'.version = pm.version
           /\ \E w \in Nat : WritesAt(pm'.steps, w)
           /\ \E s \in {"running", "stopped"} : state' = Set(Current, s)
           /\ state' \in [Task -> TaskState]
           /\ persisted' \in [Node -> SUBSET Task] /\ backup' \in [Task -> SUBSET Task]
<1>1. /\ pm \in Manager /\ state \in [Task -> TaskState] /\ NodeOf \in [Task -> Node]
      /\ persisted \in [Node -> SUBSET Task] /\ backup \in [Task -> SUBSET Task]
  BY PuppetAssumption DEF TypeOK, TaskState
<1>2. Current \in SUBSET Task
  BY CurrentFacts
<1> DEFINE S == {"running"} \cup (IF "stop" \in Faults THEN {"stopped"} ELSE {})
           H == {NodeOf[t] : t \in Current}
           M(q) == [pm EXCEPT !.tasks = Current, !.complete = FALSE, !.processed = {},
                              !.processing = H, !.steps = q]
<1>3. PICK s \in S : /\ state' = Set(Current, s)
                     /\ pm' = M(Steps(IF s = "running" THEN Current ELSE {}))
  BY DEF AddPhase
<1>4. s \in {"running", "stopped"}
  BY <1>3
<1>5. state' \in [Task -> TaskState]
  BY <1>1, <1>3, <1>4 DEF Set, TaskState
<1>6. \E R \in SUBSET Task : pm' = M(Steps(R))
  BY <1>2, <1>3
<1>7. PICK R \in SUBSET Task : pm' = M(Steps(R))
  BY <1>6
<1>8. PICK w \in Nat : WritesAt(Steps(R), w)
  BY StepsFacts
<1>9. Steps(R) \in Seq(Step)
  BY <1>8 DEF WritesAt
<1>10. H \in SUBSET Node
  BY <1>1, <1>2
<1> DEFINE q == Steps(R)
<1>11. pm' = M(q) /\ q \in Seq(Step) /\ WritesAt(q, w)
  BY <1>7, <1>8, <1>9
<1> HIDE DEF q, H
<1>12. /\ pm'.tasks = Current /\ ~pm'.complete /\ pm'.processed = {} /\ pm'.processing = H
       /\ pm'.version = pm.version /\ pm'.steps = q
  BY <1>1, <1>11 DEF Manager
<1>13. pm' \in Manager
  <2> DEFINE a == [pm EXCEPT !.tasks = Current]
             b == [a EXCEPT !.complete = FALSE]
             c == [b EXCEPT !.processed = {}]
             d == [c EXCEPT !.processing = H]
  <2>1. pm' = [d EXCEPT !.steps = q]
    BY <1>11
  <2>2. a \in Manager
    BY <1>1, <1>2, FieldTypes
  <2> HIDE DEF a
  <2>3. b \in Manager
    BY <2>2, FieldTypes
  <2> HIDE DEF b
  <2>4. c \in Manager
    BY <2>3, FieldTypes
  <2> HIDE DEF c
  <2>5. d \in Manager
    BY <1>10, <2>4, FieldTypes
  <2> HIDE DEF d
  <2>6. \A x \in Seq(Step) : [d EXCEPT !.steps = x] \in Manager
    BY <2>5, FieldTypes
  <2>7. q \in Seq(Step)
    BY <1>11
  <2> QED
    BY <2>1, <2>6, <2>7
<1>14. persisted' \in [Node -> SUBSET Task]
  <2>1. persisted' = [n \in Node |-> Added(n)]
    BY DEF AddPhase
  <2>2. \A n \in Node : Added(n) \subseteq Task
    BY <1>1, <1>2 DEF Added
  <2> QED
    BY <2>1, <2>2
<1>15. backup' \in [Task -> SUBSET Task]
  <2>1. backup' = [t \in Task |-> IF t \in Current THEN backup[t] \cup ReplacedBy(t) ELSE backup[t]]
    BY DEF AddPhase
  <2>2. \A t \in Task : ReplacedBy(t) \subseteq Task
    BY <1>1 DEF ReplacedBy
  <2> QED
    BY <1>1, <2>1, <2>2
<1> QED
  BY <1>3, <1>4, <1>5, <1>11, <1>12, <1>13, <1>14, <1>15 DEF H

(* What is left of the manager after a step of _apply_nodes *)
Advanced ==
    /\ pm' \in Manager /\ pm'.steps = Tail(pm.steps)
    /\ pm'.tasks = pm.tasks /\ pm'.complete = pm.complete /\ pm'.processed = pm.processed
    /\ pm'.processing = pm.processing /\ pm'.waiting = pm.waiting

LEMMA ApplyStepFacts ==
    ASSUME TypeOK, ApplyStep
    PROVE  /\ Advanced /\ pm.steps \in Seq(Step) /\ pm.steps # <<>>
           /\ agent' \in [Node -> Agent] /\ resources' \in [Node -> SUBSET Resource]
           /\ \A n \in Node : AgentMoves(n)
           /\ \/ /\ Head(pm.steps).op = "write"
                 /\ manifest' = [n \in Node |-> IF n \in Head(pm.steps).hosts THEN persisted[n]
                                                ELSE manifest[n]]
                 /\ version' = version + 1 /\ pm'.version = version + 1
                 /\ reports' = [n \in Node |-> {OldReport}]
              \/ /\ Head(pm.steps).op # "write"
                 /\ pm'.version = pm.version
                 /\ manifest' = manifest /\ version' = version /\ reports' = reports
<1>1. pm \in Manager /\ pm.steps \in Seq(Step) /\ version \in Nat /\ pm.steps # <<>>
  BY DEF TypeOK, Manager, ApplyStep
<1>2. Tail(pm.steps) \in Seq(Step) /\ version + 1 \in Nat
  BY <1>1
<1>3. PICK op, hosts : op = Head(pm.steps).op /\ hosts = Head(pm.steps).hosts
  OBVIOUS
<1>4. agent' = Command(op, hosts) /\ resources' = Compiled(hosts)
  BY <1>3 DEF ApplyStep
<1>5. /\ agent' \in [Node -> Agent] /\ resources' \in [Node -> SUBSET Resource]
      /\ \A n \in Node : AgentMoves(n)
  BY <1>4, CommandMoves
<1>6. CASE op = "write"
  <2>1. WriteTemplates(Head(pm.steps).hosts)
    BY <1>3, <1>6 DEF ApplyStep
  <2>2. pm' = [pm EXCEPT !.version = version + 1, !.steps = Tail(pm.steps)]
    BY <2>1 DEF WriteTemplates
  <2>3. PICK v \in Nat, r \in Seq(Step) : v = version + 1 /\ r = Tail(pm.steps)
    BY <1>2
  <2>4. pm' = [pm EXCEPT !.version = v, !.steps = r]
    BY <2>2, <2>3
  <2> DEFINE a == [pm EXCEPT !.version = v]
  <2>5. a \in Manager
    BY <1>1, FieldTypes
  <2>6. pm' = [a EXCEPT !.steps = r]
    BY <2>4
  <2>7. /\ pm'.steps = r /\ pm'.tasks = pm.tasks /\ pm'.complete = pm.complete
        /\ pm'.processed = pm.processed /\ pm'.version = v
        /\ pm'.processing = pm.processing /\ pm'.waiting = pm.waiting
    BY <1>1, <2>4 DEF Manager
  <2> HIDE DEF a
  <2>8. pm' \in Manager
    BY <2>5, <2>6, FieldTypes
  <2>9. Advanced /\ pm'.version = version + 1
    BY <2>3, <2>7, <2>8 DEF Advanced
  <2> QED
    BY <1>1, <1>3, <1>5, <1>6, <2>1, <2>9 DEF WriteTemplates
<1>7. CASE op # "write"
  <2>1. /\ pm' = [pm EXCEPT !.steps = Tail(pm.steps)]
        /\ manifest' = manifest /\ version' = version /\ reports' = reports
    BY <1>3, <1>7 DEF ApplyStep
  <2>2. PICK r \in Seq(Step) : r = Tail(pm.steps)
    BY <1>2
  <2>3. pm' = [pm EXCEPT !.steps = r]
    BY <2>1, <2>2
  <2>4. pm' \in Manager
    BY <1>1, <2>3, FieldTypes
  <2>5. /\ pm'.steps = r /\ pm'.tasks = pm.tasks /\ pm'.complete = pm.complete
        /\ pm'.processed = pm.processed /\ pm'.version = pm.version
        /\ pm'.processing = pm.processing /\ pm'.waiting = pm.waiting
    BY <1>1, <2>3 DEF Manager
  <2>6. Advanced /\ pm'.version = pm.version
    BY <2>2, <2>4, <2>5 DEF Advanced
  <2> QED
    BY <1>1, <1>3, <1>5, <1>7, <2>1, <2>6
<1> QED
  BY <1>6, <1>7

(* A report of a run that ends, and what the run has enforced *)
LEMMA AgentEndsFacts ==
    ASSUME TypeOK, NEW n \in Node, AgentEnds(n)
    PROVE  /\ agent[n].applying
           /\ agent' \in [Node -> Agent] /\ \A m \in Node \ {n} : agent'[m] = agent[m]
           /\ ~agent'[n].applying /\ agent'[n].catalog = {} /\ agent'[n].ver = 0
           /\ \E r \in Report :
                 /\ r.ver = agent[n].ver /\ r.bad \subseteq agent[n].catalog
                 /\ r.ok \subseteq agent[n].catalog \ r.bad
                 /\ reports' = [reports EXCEPT ![n] = @ \cup {r}]
                 /\ enforced' = enforced \cup (agent[n].catalog \ r.bad)
<1>1. agent \in [Node -> Agent] /\ agent[n] \in Agent
  BY DEF TypeOK
<1>2. PICK a \in Agent : a = agent[n]
  BY <1>1
<1>3. /\ a.enabled \in BOOLEAN /\ a.catalog \in SUBSET Resource /\ a.ver \in Nat
  BY DEF Agent
<1>4. PICK i \in Agent : i = [Idle EXCEPT !.enabled = a.enabled]
  BY <1>3, IdleType DEF Agent
<1>5. ~i.applying /\ i.catalog = {} /\ i.ver = 0
  BY <1>4 DEF Idle
<1>6. agent' = [agent EXCEPT ![n] = i]
  BY <1>2, <1>4 DEF AgentEnds
<1>7. /\ agent' \in [Node -> Agent] /\ \A m \in Node \ {n} : agent'[m] = agent[m]
      /\ agent'[n] = i
  BY <1>1, <1>6
<1>8. \E bad \in SUBSET a.catalog : \E ok \in {{}, a.catalog \ bad} : \E taskless \in BOOLEAN :
          /\ reports' = [reports EXCEPT ![n] = @ \cup
                {[ver |-> a.ver, ok |-> ok, bad |-> bad, taskless |-> taskless]}]
          /\ enforced' = enforced \cup (a.catalog \ bad)
  BY <1>2 DEF AgentEnds
<1>9. PICK bad \in SUBSET a.catalog, taskless \in BOOLEAN :
         \E ok \in {{}, a.catalog \ bad} :
          /\ reports' = [reports EXCEPT ![n] = @ \cup
                {[ver |-> a.ver, ok |-> ok, bad |-> bad, taskless |-> taskless]}]
          /\ enforced' = enforced \cup (a.catalog \ bad)
  BY <1>8
<1>10. PICK ok \in {{}, a.catalog \ bad} :
          /\ reports' = [reports EXCEPT ![n] = @ \cup
                {[ver |-> a.ver, ok |-> ok, bad |-> bad, taskless |-> taskless]}]
          /\ enforced' = enforced \cup (a.catalog \ bad)
  BY <1>9
<1>11. bad \in SUBSET Resource /\ ok \in SUBSET Resource /\ ok \subseteq a.catalog \ bad
  BY <1>3
<1>12. PICK r : r = [ver |-> a.ver, ok |-> ok, bad |-> bad, taskless |-> taskless]
  OBVIOUS
<1>13. r \in Report /\ r.ver = a.ver /\ r.ok = ok /\ r.bad = bad
  BY <1>3, <1>11, <1>12 DEF Report
<1>14. /\ r.ver = agent[n].ver /\ r.bad \subseteq agent[n].catalog
       /\ r.ok \subseteq agent[n].catalog \ r.bad
       /\ reports' = [reports EXCEPT ![n] = @ \cup {r}]
       /\ enforced' = enforced \cup (agent[n].catalog \ r.bad)
  BY <1>2, <1>10, <1>11, <1>12, <1>13
<1>15. agent[n].applying
  BY DEF AgentEnds
<1> QED
  BY <1>5, <1>7, <1>13, <1>14, <1>15

-----------------------------------------------------------------------------
(* Type correctness *)

LEMMA InitType == Init => TypeOK
<1> SUFFICES ASSUME Init PROVE TypeOK
  OBVIOUS
<1>1. plan \in Seq(SUBSET (Task \ Old)) /\ plan # <<>>
  BY PuppetAssumption DEF Init
<1>2. phase \in DOMAIN plan
  BY <1>1 DEF Init
<1>3. pm \in Manager
  <2>1. <<>> \in Seq(Step)
    OBVIOUS
  <2> QED
    BY <2>1 DEF Init, Manager
<1>4. Old \subseteq Resource
  BY PuppetAssumption DEF Old, Resource
<1>5. OldReport \in Report
  BY DEF OldReport, Report
<1>6. state \in [Task -> {"initial", "running", "success", "failed", "stopped"}]
  BY DEF Init
<1>7. /\ persisted \in [Node -> SUBSET Task] /\ backup \in [Task -> SUBSET Task]
      /\ resources \in [Node -> SUBSET Resource] /\ manifest \in [Node -> SUBSET Resource]
  BY PuppetAssumption DEF Init, Resource
<1>8. agent \in [Node -> Agent] /\ reports \in [Node -> SUBSET Report]
  BY <1>5, IdleType DEF Init
<1> QED
  BY <1>1, <1>2, <1>3, <1>4, <1>6, <1>7, <1>8 DEF Init, TypeOK

LEMMA WorkerType ==
    ASSUME TypeOK, Worker
    PROVE  TypeOK'
<1>1. CASE AddPhase
  <2>1. /\ UNCHANGED <<manifest, version, agent, reports, resources, enforced, plan, phase, result, runs>>
        /\ pc' = "apply"
    BY <1>1 DEF AddPhase, puppet
  <2> QED
    BY <1>1, <2>1, AddPhaseFacts DEF TypeOK, TaskState
<1>2. CASE ApplyStep
  <2>1. UNCHANGED <<state, persisted, backup, enforced, plan, pc, phase, result, runs>>
    BY <1>2 DEF ApplyStep, work
  <2>2. manifest' \in [Node -> SUBSET Resource] /\ version' \in Nat
    BY <1>2, ApplyStepFacts DEF TypeOK, Resource
  <2>3. reports' \in [Node -> SUBSET Report]
    <3>1. OldReport \in Report
      BY DEF OldReport, Report
    <3> QED
      BY <1>2, <3>1, ApplyStepFacts DEF TypeOK
  <2>4. pm' \in Manager /\ agent' \in [Node -> Agent] /\ resources' \in [Node -> SUBSET Resource]
    BY <1>2, ApplyStepFacts DEF Advanced
  <2> QED
    BY <2>1, <2>2, <2>3, <2>4 DEF TypeOK
<1>3. CASE ApplyFails
  <2>1. UNCHANGED <<persisted, backup, manifest, version, reports, enforced, pm, plan, phase, runs>>
    BY <1>3 DEF ApplyFails
  <2>2. PICK op, done : agent' = Command(op, done) /\ resources' = Compiled(done)
    BY <1>3 DEF ApplyFails
  <2>3. agent' \in [Node -> Agent] /\ resources' \in [Node -> SUBSET Resource]
    BY <2>2, CommandMoves
  <2>4. /\ state' \in [Task -> {"initial", "running", "success", "failed", "stopped"}]
        /\ result' = "mco" /\ pc' = "ended"
    BY <1>3 DEF ApplyFails, Set, TypeOK
  <2> QED
    BY <2>1, <2>3, <2>4 DEF TypeOK
<1>4. CASE BeginWait
  <2>1. UNCHANGED <<persisted, backup, manifest, version, agent, reports, resources, enforced,
                    plan, phase, runs>>
    BY <1>4 DEF BeginWait, puppet
  <2>2. state \in [Task -> TaskState] /\ pm \in Manager
    BY DEF TypeOK, TaskState
  <2>3. /\ pm' \in Manager /\ state' \in [Task -> TaskState]
        /\ pc' \in {"feedback", "restore", "disable"} /\ result' \in {result, "error", "ok"}
    <3>1. CASE \E p \in Manager : Continue(p, state)
      BY <2>2, <3>1, ContinueFacts
    <3>2. CASE ~\E p \in Manager : Continue(p, state)
      BY <1>4, <2>2, <3>2, BeginWaitFacts
    <3> QED
      BY <3>1, <3>2
  <2> QED
    BY <2>1, <2>3 DEF TypeOK, TaskState
<1>5. CASE Check
  <2>1. UNCHANGED <<persisted, backup, manifest, version, agent, reports, resources, enforced,
                    plan, phase, runs>>
    BY <1>5 DEF Check, puppet
  <2>2. PICK p \in Manager, s \in [Task -> TaskState] : Continue(p, s)
    BY <1>5, CheckFacts
  <2>3. /\ pm' \in Manager /\ state' \in [Task -> TaskState]
        /\ pc' \in {"feedback", "restore", "disable"} /\ result' \in {result, "error", "ok"}
    BY <2>2, ContinueFacts
  <2> QED
    BY <2>1, <2>3 DEF TypeOK, TaskState
<1>6. CASE \E n \in Node : ProcessFeedback(n)
  <2> PICK n \in Node : ProcessFeedback(n)
    BY <1>6
  <2>1. UNCHANGED <<persisted, backup, manifest, version, agent, reports, resources, enforced,
                    plan, phase, result, runs>>
    BY DEF ProcessFeedback, puppet
  <2>2. pm' \in Manager /\ state' \in [Task -> TaskState] /\ pc' \in {"check", "feedback"}
    BY FeedbackFacts
  <2> QED
    BY <2>1, <2>2 DEF TypeOK, TaskState
<1>7. CASE DisableAfterPhase \/ DisableAfterPhaseFails
  <2>1. UNCHANGED <<state, persisted, backup, manifest, version, reports, resources, enforced, pm,
                    plan, phase, runs>>
    BY <1>7 DEF DisableAfterPhase, DisableAfterPhaseFails
  <2>2. PICK done : agent' = Command("disable", done)
    BY <1>7 DEF DisableAfterPhase, DisableAfterPhaseFails
  <2>3. agent' \in [Node -> Agent]
    BY <2>1, <2>2, CommandMoves
  <2>4. pc' \in {"restore", "ended"} /\ result' \in {result, "mco"}
    BY <1>7 DEF DisableAfterPhase, DisableAfterPhaseFails
  <2> QED
    BY <2>1, <2>3, <2>4 DEF TypeOK
<1>8. CASE RestoreBackedUpTasks
  <2>1. /\ UNCHANGED <<state, manifest, version, agent, reports, resources, enforced, pm, plan,
                       phase, result, runs>>
        /\ pc' = "ended" /\ backup' = [t \in Task |-> {}]
        /\ persisted' = [n \in Node |-> IF n \in pm.processing THEN Restored(n) ELSE persisted[n]]
    BY <1>8 DEF RestoreBackedUpTasks, puppet
  <2>2. \A n \in Node : Restored(n) \subseteq Task
    BY DEF TypeOK, Restored
  <2>3. persisted' \in [Node -> SUBSET Task] /\ backup' \in [Task -> SUBSET Task]
    BY <2>1, <2>2 DEF TypeOK
  <2> QED
    BY <2>1, <2>3 DEF TypeOK
<1>9. CASE NextPhase
  <2>1. /\ UNCHANGED <<plan, state, persisted, backup, manifest, version, agent, reports, resources,
                       enforced, pm, runs>>
        /\ phase < Len(plan) /\ phase' = phase + 1 /\ pc' = "start" /\ result' = "none"
    BY <1>9 DEF NextPhase, puppet
  <2>2. phase' \in DOMAIN plan
    BY <2>1, CurrentFacts
  <2> QED
    BY <2>1, <2>2 DEF TypeOK
<1>10. CASE EndPlan
  <2>1. /\ UNCHANGED <<state, backup, reports, resources, enforced, pm, plan, phase, result, runs>>
        /\ pc' = "over" /\ persisted' = Staying
    BY <1>10 DEF EndPlan
  <2>2. persisted' \in [Node -> SUBSET Task]
    BY <2>1 DEF TypeOK, Staying
  <2>3. PICK written :
            /\ manifest' = [n \in Node |-> IF n \in written THEN Staying[n] ELSE manifest[n]]
            /\ version' = IF written = {} THEN version ELSE version + 1
            /\ agent' = [n \in Node |-> IF n \in written THEN Idle
                                        ELSE [agent[n] EXCEPT !.enabled = TRUE]]
    BY <1>10 DEF EndPlan, ApplyRemoval
  <2>4. agent' \in [Node -> Agent]
    <3>1. \A n \in Node : [agent[n] EXCEPT !.enabled = TRUE] \in Agent
      BY DEF TypeOK, Agent
    <3> QED
      BY <2>3, <3>1, IdleType
  <2>5. manifest' \in [Node -> SUBSET Resource] /\ version' \in Nat
    <3>1. Staying \in [Node -> SUBSET Resource]
      BY DEF TypeOK, Staying, Resource
    <3> QED
      BY <2>3, <3>1 DEF TypeOK
  <2> QED
    BY <2>1, <2>2, <2>4, <2>5 DEF TypeOK
<1> QED
  BY <1>1, <1>2, <1>3, <1>4, <1>5, <1>6, <1>7, <1>8, <1>9, <1>10 DEF Worker

LEMMA OthersType ==
    ASSUME TypeOK, \/ ResumePlan \/ NeighbourWrites \/ UNCHANGED vars
                   \/ \E n \in Node : AgentStarts(n) \/ AgentEnds(n)
    PROVE  TypeOK'
<1>1. CASE ResumePlan
  <2>1. /\ UNCHANGED <<persisted, manifest, version, agent, reports, resources, enforced, pm, plan,
                       phase>>
        /\ runs' = runs + 1 /\ pc' = "start" /\ result' = "none"
        /\ state' = Set(InState(Current, "failed"), "initial")
        /\ backup' = backup \/ backup' = [t \in Task |-> {}]
    BY <1>1 DEF ResumePlan, puppet
  <2>2. /\ state' \in [Task -> {"initial", "running", "success", "failed", "stopped"}]
        /\ backup' \in [Task -> SUBSET Task] /\ runs' \in Nat
    BY <2>1 DEF TypeOK, Set
  <2> QED
    BY <2>1, <2>2 DEF TypeOK
<1>2. CASE NeighbourWrites
  BY <1>2 DEF NeighbourWrites, TypeOK, puppet, work
<1>3. CASE UNCHANGED vars
  BY <1>3 DEF vars, TypeOK, puppet, work
<1>4. CASE \E n \in Node : AgentStarts(n)
  <2> PICK n \in Node : AgentStarts(n)
    BY <1>4
  <2>1. UNCHANGED <<state, persisted, backup, manifest, version, reports, enforced, pm, plan, pc,
                    phase, result, runs>>
    BY DEF AgentStarts, work
  <2>2. agent' \in [Node -> Agent] /\ resources' \in [Node -> SUBSET Resource]
    BY CommandMoves DEF AgentStarts
  <2> QED
    BY <2>1, <2>2 DEF TypeOK
<1>5. CASE \E n \in Node : AgentEnds(n)
  <2> PICK n \in Node : AgentEnds(n)
    BY <1>5
  <2>1. UNCHANGED <<state, persisted, backup, manifest, version, resources, pm, plan, pc,
                    phase, result, runs>>
    BY DEF AgentEnds, work
  <2>2. agent[n].catalog \in SUBSET Resource
    BY DEF TypeOK, Agent
  <2>3. agent' \in [Node -> Agent] /\ reports' \in [Node -> SUBSET Report] /\ enforced' \subseteq Resource
    BY <2>2, AgentEndsFacts DEF TypeOK
  <2> QED
    BY <2>1, <2>3 DEF TypeOK
<1> QED
  BY <1>1, <1>2, <1>3, <1>4, <1>5

LEMMA NextType ==
    ASSUME TypeOK, [Next]_vars
    PROVE  TypeOK'
BY WorkerType, OthersType DEF Next

(* The PuppetManager, the agents, the reports and the manifests keep their types. *)
THEOREM TypeCorrect == Spec => []TypeOK
BY InitType, NextType, PTL DEF Spec

-----------------------------------------------------------------------------
(* Success means that Puppet has enforced the task *)

(* The manifests of the phase have been written: its reports can be told from others. *)
Written ==
    \/ pc \in {"feedback", "check"}
    \/ pc = "apply" /\ \A i \in DOMAIN pm.steps : pm.steps[i].op # "write"

(* _apply_nodes writes the manifests once. *)
WritesOnce ==
    \A i, j \in DOMAIN pm.steps :
        pm.steps[i].op = "write" /\ pm.steps[j].op = "write" => i = j

(* No version that the manager or an agent knows is ahead of litp_config_version. *)
VersionsBehind == pm.version <= version /\ \A n \in Node : agent[n].ver <= version

(* What a report of the phase says of the manifest of its node is true. *)
ReportTrue(n, r) ==
    /\ r.ok \subseteq enforced
    /\ manifest[n] \ r.bad \subseteq enforced
    /\ resources[n] = manifest[n]

(* Once the manifests are written, reports and runs with the version of the phase, or a
   later one, are of the manifests. *)
RunsCurrent ==
    Written =>
        \A n \in Node :
            /\ \A r \in reports[n] : r.ver >= pm.version => ReportTrue(n, r)
            /\ agent[n].applying /\ agent[n].ver >= pm.version =>
                  agent[n].catalog = manifest[n] /\ resources[n] = manifest[n]

EnforcedInv ==
    /\ TypeOK /\ WritesOnce /\ VersionsBehind /\ RunsCurrent
    /\ SuccessMeansEnforced

LEMMA SameAgent ==
    ASSUME agent' = agent, resources' = resources, NEW n \in Node
    PROVE  AgentMoves(n)
BY DEF AgentMoves

LEMMA VersionsKept ==
    ASSUME TypeOK, TypeOK', VersionsBehind, pm'.version = pm.version,
           version' = version \/ version' = version + 1,
           \A n \in Node : agent'[n].ver \in {agent[n].ver, 0, version}
    PROVE  VersionsBehind'
<1>1. /\ version \in Nat /\ version' \in Nat /\ pm.version \in Nat
      /\ \A n \in Node : agent[n].ver \in Nat
  BY DEF TypeOK, Manager, Agent
<1>2. version <= version'
  BY <1>1
<1>3. ASSUME NEW n \in Node PROVE agent'[n].ver <= version'
  <2>1. agent[n].ver <= version
    BY DEF VersionsBehind
  <2>2. agent'[n].ver \in {agent[n].ver, 0, version}
    OBVIOUS
  <2> QED
    BY <1>1, <1>2, <2>1, <2>2
<1>4. pm'.version <= version'
  BY <1>1, <1>2 DEF VersionsBehind
<1> QED
  BY <1>3, <1>4 DEF VersionsBehind

LEMMA SuccessKept ==
    ASSUME SuccessMeansEnforced, \A t \in Task : state'[t] = "success" => state[t] = "success",
           enforced \subseteq enforced'
    PROVE  SuccessMeansEnforced'
BY DEF SuccessMeansEnforced

LEMMA WritesOnceKept ==
    ASSUME WritesOnce, pm'.steps = pm.steps
    PROVE  WritesOnce'
BY DEF WritesOnce

(* Agents that go on, are killed or begin a run do no harm. *)
LEMMA RunsKept ==
    ASSUME TypeOK, TypeOK', VersionsBehind, RunsCurrent,
           manifest' = manifest, reports' = reports, enforced' = enforced,
           version' = version \/ version' = version + 1,
           pm'.version = pm.version, Written' => Written, \A n \in Node : AgentMoves(n)
    PROVE  RunsCurrent' /\ VersionsBehind'
<1>1. VersionsBehind'
  <2>1. \A n \in Node : agent'[n].ver \in {agent[n].ver, 0, version}
    BY DEF AgentMoves
  <2> QED
    BY <2>1, VersionsKept
<1>2. SUFFICES ASSUME Written', NEW n \in Node
               PROVE  /\ \A r \in reports[n] : r.ver >= pm.version => ReportTrue(n, r)'
                      /\ agent'[n].applying /\ agent'[n].ver >= pm.version =>
                            agent'[n].catalog = manifest[n] /\ resources'[n] = manifest[n]
  <2>1. \A m \in Node : \A r \in reports[m] : ReportTrue(m, r)' <=> /\ r.ok \subseteq enforced
                                                        /\ manifest[m] \ r.bad \subseteq enforced
                                                        /\ resources'[m] = manifest[m]
    BY DEF ReportTrue
  <2> QED
    BY <1>1, <1>2, <2>1 DEF RunsCurrent, ReportTrue
<1>3. /\ \A r \in reports[n] : r.ver >= pm.version => ReportTrue(n, r)
      /\ agent[n].applying /\ agent[n].ver >= pm.version =>
            agent[n].catalog = manifest[n] /\ resources[n] = manifest[n]
  BY <1>2 DEF RunsCurrent
<1>4. resources'[n] = resources[n] \/ resources'[n] = manifest[n]
  BY DEF AgentMoves
<1>5. \A r \in reports[n] : r.ver >= pm.version => ReportTrue(n, r)'
  BY <1>3, <1>4 DEF ReportTrue
<1>6. agent'[n].applying /\ agent'[n].ver >= pm.version =>
            agent'[n].catalog = manifest[n] /\ resources'[n] = manifest[n]
  <2>1. AgentMoves(n)
    OBVIOUS
  <2> QED
    BY <1>3, <2>1 DEF AgentMoves
<1> QED
  BY <1>5, <1>6

LEMMA InitEnforced == Init => EnforcedInv
<1> SUFFICES ASSUME Init PROVE EnforcedInv
  OBVIOUS
<1>1. TypeOK
  BY InitType
<1>2. WritesOnce /\ VersionsBehind /\ ~Written
  BY IdleType DEF Init, WritesOnce, VersionsBehind, Written
<1>3. SuccessMeansEnforced
  BY DEF Init, SuccessMeansEnforced
<1> QED
  BY <1>1, <1>2, <1>3 DEF EnforcedInv, RunsCurrent

(* A step that writes the manifests, or one before or after it *)
LEMMA ApplyStepEnforced ==
    ASSUME EnforcedInv, TypeOK', ApplyStep
    PROVE  EnforcedInv'
<1>0. TypeOK /\ WritesOnce /\ VersionsBehind /\ RunsCurrent /\ SuccessMeansEnforced
  BY DEF EnforcedInv
<1>1. pm.steps \in Seq(Step) /\ pm.steps # <<>> /\ pm'.steps = Tail(pm.steps)
  BY <1>0, ApplyStepFacts DEF Advanced
<1>2. PICK k \in Nat : k = Len(pm.steps)
  BY <1>1
<1>3. /\ k > 0 /\ DOMAIN pm.steps = 1..k /\ DOMAIN pm'.steps = 1..(k - 1)
      /\ \A i \in 1..(k - 1) : pm'.steps[i] = pm.steps[i + 1]
      /\ Head(pm.steps) = pm.steps[1]
  BY <1>1, <1>2
<1>4. \A i \in 1..(k - 1) : i + 1 \in 1..k /\ i + 1 # 1
  OBVIOUS
<1>5. WritesOnce'
  <2> SUFFICES ASSUME NEW i \in 1..(k - 1), NEW j \in 1..(k - 1),
                      pm'.steps[i].op = "write", pm'.steps[j].op = "write"
               PROVE  i = j
    BY <1>3 DEF WritesOnce
  <2>1. i + 1 = j + 1
    BY <1>0, <1>3, <1>4 DEF WritesOnce
  <2> QED
    BY <2>1
<1>6. SuccessMeansEnforced'
  BY <1>0 DEF ApplyStep, SuccessMeansEnforced
<1>7. RunsCurrent' /\ VersionsBehind'
  <2>1. CASE Head(pm.steps).op = "write"
    <3>1. /\ version' = version + 1 /\ pm'.version = version + 1
          /\ reports' = [n \in Node |-> {OldReport}]
      BY <1>0, <2>1, ApplyStepFacts
    <3>2. version \in Nat /\ \A n \in Node : agent[n].ver \in Nat
      BY <1>0 DEF TypeOK, Agent
    <3>3. ASSUME NEW n \in Node PROVE agent'[n].ver \in Nat /\ agent'[n].ver <= version
      <4>1. agent'[n].ver \in {agent[n].ver, 0, version}
        BY <1>0, ApplyStepFacts DEF AgentMoves
      <4>2. agent[n].ver <= version
        BY <1>0 DEF VersionsBehind
      <4> QED
        BY <3>2, <4>1, <4>2
    <3>4. VersionsBehind'
      BY <3>1, <3>2, <3>3 DEF VersionsBehind
    <3>5. \A n \in Node : ~(agent'[n].ver >= pm'.version)
      BY <3>1, <3>2, <3>3
    <3>6. \A n \in Node : \A r \in reports'[n] : ~(r.ver >= pm'.version)
      BY <3>1, <3>2 DEF OldReport
    <3> QED
      BY <3>4, <3>5, <3>6 DEF RunsCurrent
  <2>2. CASE Head(pm.steps).op # "write"
    <3>1. pm'.version = pm.version /\ manifest' = manifest /\ version' = version /\ reports' = reports
      BY <1>0, <2>2, ApplyStepFacts
    <3>2. \A n \in Node : AgentMoves(n)
      BY <1>0, ApplyStepFacts
    <3>3. enforced' = enforced /\ pc = "apply" /\ pc' = "apply"
      BY DEF ApplyStep, work
    <3>4. Written' => Written
      <4> SUFFICES ASSUME \A i \in 1..(k - 1) : pm'.steps[i].op # "write", NEW i \in 1..k
                   PROVE  pm.steps[i].op # "write"
        BY <1>3, <3>3 DEF Written
      <4>1. CASE i = 1
        BY <1>3, <2>2, <4>1
      <4>2. CASE i # 1
        <5>1. i - 1 \in 1..(k - 1) /\ (i - 1) + 1 = i
          BY <4>2
        <5>2. pm'.steps[i - 1] = pm.steps[(i - 1) + 1]
          BY <1>3, <5>1
        <5> QED
          BY <5>1, <5>2
      <4> QED
        BY <4>1, <4>2
    <3> QED
      BY <1>0, <3>1, <3>2, <3>3, <3>4, RunsKept
  <2> QED
    BY <2>1, <2>2
<1> QED
  BY <1>5, <1>6, <1>7 DEF EnforcedInv

(* Feedback of a node *)
LEMMA FeedbackEnforced ==
    ASSUME "events" \notin Faults,
           EnforcedInv, TypeOK', NEW n \in Node, ProcessFeedback(n)
    PROVE  EnforcedInv'
<1>0. TypeOK /\ WritesOnce /\ VersionsBehind /\ RunsCurrent /\ SuccessMeansEnforced
  BY DEF EnforcedInv
<1>1. /\ UNCHANGED <<manifest, version, agent, reports, resources, enforced>>
      /\ pc = "feedback"
  BY DEF ProcessFeedback, puppet
<1>2. Written
  BY <1>1 DEF Written
<1>3. pm'.version = pm.version /\ pm'.steps = pm.steps
  BY <1>0, FeedbackFacts
<1>4. RunsCurrent' /\ VersionsBehind'
  BY <1>0, <1>1, <1>2, <1>3, RunsKept, SameAgent
<1>5. WritesOnce'
  BY <1>0, <1>3, WritesOnceKept
<1>6. \A t \in Task : state'[t] = "success" => state[t] = "success" \/ t \in enforced
  <2>1. CASE state' = state
    BY <2>1
  <2>2. CASE \E query \in BOOLEAN : \E found \in Found(n) : \E read \in Read(found) :
                found # {} /\ FeedbackApplied(n, Feedback(n, query, read))
    <3>1. PICK query \in BOOLEAN, found \in Found(n) :
             /\ found # {}
             /\ \E read \in Read(found) : FeedbackApplied(n, Feedback(n, query, read))
      BY <2>2
    <3>2. FeedbackApplied(n, Feedback(n, query, found))
      BY <3>1 DEF Read
    <3>3. found \subseteq GetReports(n)
      BY DEF Found
    <3>4. \A r \in found : ReportTrue(n, r)
      BY <1>0, <1>2, <3>3 DEF GetReports, RunsCurrent
    <3> DEFINE bad == UNION {r.bad : r \in found}
               known == bad \cup UNION {r.ok : r \in found}
               silent == IF query /\ \E t \in Current : t \notin known THEN resources[n] \ known ELSE {}
    <3>5. Feedback(n, query, found).ok = (known \ bad) \cup silent
      BY DEF Feedback
    <3>6. known \ bad \subseteq enforced
      BY <3>4 DEF ReportTrue
    <3>7. silent \subseteq enforced
      <4>1. PICK r \in found : TRUE
        BY <3>1
      <4>2. resources[n] = manifest[n] /\ manifest[n] \ r.bad \subseteq enforced
        BY <3>4 DEF ReportTrue
      <4>3. r.bad \subseteq known
        OBVIOUS
      <4> HIDE DEF known
      <4> QED
        BY <4>2, <4>3
    <3>8. Feedback(n, query, found).ok \subseteq enforced
      <4> HIDE DEF known, bad, silent
      <4> QED
        BY <3>5, <3>6, <3>7
    <3> QED
      BY <3>2, <3>8 DEF FeedbackApplied
  <2> QED
    BY <1>0, <2>1, <2>2, FeedbackFacts
<1>7. SuccessMeansEnforced'
  BY <1>0, <1>1, <1>6 DEF SuccessMeansEnforced
<1> QED
  BY <1>4, <1>5, <1>7 DEF EnforcedInv

(* A run that ends puts its report beside those of its node. *)
LEMMA AgentEndsEnforced ==
    ASSUME EnforcedInv, TypeOK', NEW n \in Node, AgentEnds(n)
    PROVE  EnforcedInv'
<1>0. TypeOK /\ WritesOnce /\ VersionsBehind /\ RunsCurrent /\ SuccessMeansEnforced
  BY DEF EnforcedInv
<1>1. UNCHANGED <<state, manifest, version, resources, pm, pc>>
  BY DEF AgentEnds, work
<1>2. /\ agent[n].applying /\ \A m \in Node \ {n} : agent'[m] = agent[m]
      /\ ~agent'[n].applying /\ agent'[n].ver = 0
  BY <1>0, AgentEndsFacts
<1>3. PICK r \in Report :
         /\ r.ver = agent[n].ver /\ r.bad \subseteq agent[n].catalog
         /\ r.ok \subseteq agent[n].catalog \ r.bad
         /\ reports' = [reports EXCEPT ![n] = @ \cup {r}]
         /\ enforced' = enforced \cup (agent[n].catalog \ r.bad)
  BY <1>0, AgentEndsFacts
<1>4. VersionsBehind'
  BY <1>0, <1>1, <1>2, VersionsKept
<1>5. WritesOnce' /\ SuccessMeansEnforced'
  BY <1>0, <1>1, <1>3, WritesOnceKept, SuccessKept
<1>6. RunsCurrent'
  <2> SUFFICES ASSUME Written, NEW m \in Node
               PROVE  /\ \A s \in reports'[m] : s.ver >= pm.version => ReportTrue(m, s)'
                      /\ agent'[m].applying /\ agent'[m].ver >= pm.version =>
                            agent'[m].catalog = manifest[m] /\ resources[m] = manifest[m]
    BY <1>1 DEF RunsCurrent, Written
  <2>1. /\ \A s \in reports[m] : s.ver >= pm.version => ReportTrue(m, s)
        /\ agent[m].applying /\ agent[m].ver >= pm.version =>
              agent[m].catalog = manifest[m] /\ resources[m] = manifest[m]
    BY <1>0 DEF RunsCurrent
  <2>2. \A s \in reports[m] : s.ver >= pm.version => ReportTrue(m, s)'
    BY <1>1, <1>3, <2>1 DEF ReportTrue
  <2>3. CASE m # n
    <3>1. reports'[m] = reports[m]
      BY <1>0, <1>3, <2>3 DEF TypeOK
    <3> QED
      BY <1>2, <2>1, <2>2, <2>3, <3>1
  <2>4. CASE m = n
    <3>1. reports'[n] = reports[n] \cup {r}
      BY <1>0, <1>3 DEF TypeOK
    <3>2. r.ver >= pm.version => ReportTrue(n, r)'
      BY <1>1, <1>2, <1>3, <2>1, <2>4 DEF ReportTrue
    <3> QED
      BY <1>2, <2>2, <2>4, <3>1, <3>2
  <2> QED
    BY <2>3, <2>4
<1> QED
  BY <1>4, <1>5, <1>6 DEF EnforcedInv

LEMMA NextEnforced ==
    ASSUME "events" \notin Faults, EnforcedInv, [Next]_vars
    PROVE  EnforcedInv'
<1>0. TypeOK /\ WritesOnce /\ VersionsBehind /\ RunsCurrent /\ SuccessMeansEnforced
  BY DEF EnforcedInv
<1>t. TypeOK'
  BY <1>0, NextType
<1>s. state \in [Task -> TaskState]
  BY <1>0 DEF TypeOK, TaskState
<1>1. CASE AddPhase
  <2>1. /\ UNCHANGED <<version, agent, enforced>> /\ pc' = "apply"
    BY <1>1 DEF AddPhase, puppet
  <2>2. PICK w \in Nat : WritesAt(pm'.steps, w)
    BY <1>0, <1>1, AddPhaseFacts
  <2>3. WritesOnce' /\ ~Written'
    BY <2>1, <2>2 DEF WritesAt, WritesOnce, Written
  <2>4. VersionsBehind'
    BY <1>0, <1>t, <1>1, <2>1, AddPhaseFacts, VersionsKept
  <2>5. PICK s \in {"running", "stopped"} : state' = Set(Current, s)
    BY <1>0, <1>1, AddPhaseFacts
  <2>6. \A t \in Task : state'[t] = "success" => state[t] = "success"
    BY <2>5 DEF Set
  <2>7. SuccessMeansEnforced'
    BY <1>0, <2>1, <2>6, SuccessKept
  <2> QED
    BY <1>t, <2>3, <2>4, <2>7 DEF EnforcedInv, RunsCurrent
<1>2. CASE ApplyStep
  BY <1>t, <1>2, ApplyStepEnforced
<1>3. CASE ApplyFails
  <2>1. UNCHANGED <<version, pm, enforced>> /\ pc' = "ended"
        /\ state' = Set(InState(pm.tasks, "running"), "failed")
    BY <1>3 DEF ApplyFails
  <2>2. PICK op, done : agent' = Command(op, done) /\ resources' = Compiled(done)
    BY <1>3 DEF ApplyFails
  <2>3. \A n \in Node : agent'[n].ver \in {agent[n].ver, 0, version}
    BY <1>0, <2>2, CommandMoves DEF AgentMoves
  <2>4. VersionsBehind'
    BY <1>0, <1>t, <2>1, <2>3, VersionsKept
  <2>5. \A t \in Task : state'[t] = "success" => state[t] = "success"
    BY <2>1 DEF Set
  <2>6. SuccessMeansEnforced' /\ WritesOnce' /\ ~Written'
    BY <1>0, <2>1, <2>5, SuccessKept, WritesOnceKept DEF Written
  <2> QED
    BY <1>t, <2>4, <2>6 DEF EnforcedInv, RunsCurrent
<1>4. CASE BeginWait \/ Check
  <2>1. UNCHANGED <<manifest, version, agent, reports, resources, enforced>>
    BY <1>4 DEF BeginWait, Check, puppet
  <2>2. Written
    <3>1. CASE BeginWait
      <4>1. pc = "apply" /\ pm.steps = <<>>
        BY <3>1 DEF BeginWait
      <4>2. DOMAIN pm.steps = {}
        BY <4>1
      <4> QED
        BY <4>1, <4>2 DEF Written
    <3>2. CASE Check
      BY <3>2 DEF Check, Written
    <3> QED
      BY <1>4, <3>1, <3>2
  <2>3. /\ pm'.version = pm.version /\ pm'.steps = pm.steps
        /\ \A t \in Task : state'[t] = "success" => state[t] = "success"
    <3>1. CASE state' = state /\ pm' = pm
      BY <3>1
    <3>2. CASE \E p \in Manager : \E s \in [Task -> TaskState] :
                  /\ Continue(p, s) /\ p.version = pm.version /\ p.steps = pm.steps
                  /\ s = state \/ s = Set(InState(pm.tasks, "running"), "failed")
      <4>1. PICK p \in Manager, s \in [Task -> TaskState] :
                  /\ Continue(p, s) /\ p.version = pm.version /\ p.steps = pm.steps
                  /\ s = state \/ s = Set(InState(pm.tasks, "running"), "failed")
        BY <3>2
      <4>2. \A t \in Task : s[t] = "success" => state[t] = "success"
        BY <4>1 DEF Set
      <4>3. /\ pm'.version = p.version /\ pm'.steps = p.steps
            /\ \A t \in Task : state'[t] = "success" => s[t] = "success"
        BY <1>0, <4>1, ContinueFacts
      <4> QED
        BY <4>1, <4>2, <4>3
    <3>3. CASE BeginWait
      BY <1>0, <1>s, <3>1, <3>2, <3>3, BeginWaitFacts
    <3>4. CASE Check
      BY <1>0, <3>2, <3>4, CheckFacts
    <3> QED
      BY <1>4, <3>3, <3>4
  <2>4. RunsCurrent' /\ VersionsBehind'
    BY <1>0, <1>t, <2>1, <2>2, <2>3, RunsKept, SameAgent
  <2>5. WritesOnce' /\ SuccessMeansEnforced'
    BY <1>0, <2>1, <2>3, WritesOnceKept, SuccessKept
  <2> QED
    BY <1>t, <2>4, <2>5 DEF EnforcedInv
<1>5. CASE \E n \in Node : ProcessFeedback(n)
  BY <1>t, <1>5, FeedbackEnforced
<1>6. CASE DisableAfterPhase \/ DisableAfterPhaseFails
  <2>1. UNCHANGED <<state, version, resources, enforced, pm>> /\ pc' \in {"restore", "ended"}
    BY <1>6 DEF DisableAfterPhase, DisableAfterPhaseFails
  <2>2. PICK done : agent' = Command("disable", done)
    BY <1>6 DEF DisableAfterPhase, DisableAfterPhaseFails
  <2>3. \A n \in Node : agent'[n].ver \in {agent[n].ver, 0, version}
    BY <1>0, <2>1, <2>2, CommandMoves DEF AgentMoves
  <2>4. VersionsBehind'
    BY <1>0, <1>t, <2>1, <2>3, VersionsKept
  <2>5. SuccessMeansEnforced' /\ WritesOnce' /\ ~Written'
    BY <1>0, <2>1, SuccessKept, WritesOnceKept DEF Written
  <2> QED
    BY <1>t, <2>4, <2>5 DEF EnforcedInv, RunsCurrent
<1>7. CASE RestoreBackedUpTasks \/ NextPhase \/ ResumePlan
  <2>1. UNCHANGED <<version, agent, enforced, pm>> /\ pc' \in {"ended", "start"}
    BY <1>7 DEF RestoreBackedUpTasks, NextPhase, ResumePlan, puppet
  <2>2. \A t \in Task : state'[t] = "success" => state[t] = "success"
    BY <1>7 DEF RestoreBackedUpTasks, NextPhase, ResumePlan, Set
  <2>3. VersionsBehind'
    BY <1>0, <1>t, <2>1, VersionsKept
  <2>4. SuccessMeansEnforced' /\ WritesOnce' /\ ~Written'
    BY <1>0, <2>1, <2>2, SuccessKept, WritesOnceKept DEF Written
  <2> QED
    BY <1>t, <2>3, <2>4 DEF EnforcedInv, RunsCurrent
<1>8. CASE EndPlan
  <2>1. UNCHANGED <<state, enforced, pm>> /\ pc' = "over"
    BY <1>8 DEF EndPlan
  <2>2. PICK written :
            /\ manifest' = [n \in Node |-> IF n \in written THEN Staying[n] ELSE manifest[n]]
            /\ version' = IF written = {} THEN version ELSE version + 1
            /\ agent' = [n \in Node |-> IF n \in written THEN Idle
                                        ELSE [agent[n] EXCEPT !.enabled = TRUE]]
    BY <1>8 DEF EndPlan, ApplyRemoval
  <2>3. version' = version \/ version' = version + 1
    BY <2>2
  <2>4. \A n \in Node : agent'[n].ver \in {agent[n].ver, 0, version}
    <3>1. \A n \in Node : [agent[n] EXCEPT !.enabled = TRUE].ver = agent[n].ver
      BY <1>0 DEF TypeOK, Agent
    <3> QED
      BY <2>2, <3>1, IdleType
  <2>5. VersionsBehind'
    BY <1>0, <1>t, <2>1, <2>3, <2>4, VersionsKept
  <2>6. SuccessMeansEnforced' /\ WritesOnce' /\ ~Written'
    BY <1>0, <2>1, SuccessKept, WritesOnceKept DEF Written
  <2> QED
    BY <1>t, <2>5, <2>6 DEF EnforcedInv, RunsCurrent
<1>9. CASE NeighbourWrites \/ UNCHANGED vars
  <2>1. /\ UNCHANGED <<state, manifest, agent, reports, resources, enforced, pm, pc>>
        /\ version' = version \/ version' = version + 1
    BY <1>9 DEF NeighbourWrites, vars, puppet, work
  <2>2. Written' => Written
    BY <2>1 DEF Written
  <2>3. RunsCurrent' /\ VersionsBehind'
    BY <1>0, <1>t, <2>1, <2>2, RunsKept, SameAgent
  <2>4. SuccessMeansEnforced' /\ WritesOnce'
    BY <1>0, <2>1, SuccessKept, WritesOnceKept
  <2> QED
    BY <1>t, <2>3, <2>4 DEF EnforcedInv
<1>10. CASE \E n \in Node : AgentStarts(n)
  <2> PICK n \in Node : AgentStarts(n)
    BY <1>10
  <2>1. UNCHANGED <<state, manifest, version, reports, enforced, pm, pc>>
    BY DEF AgentStarts, work
  <2>2. \A m \in Node : AgentMoves(m)
    BY <1>0, CommandMoves DEF AgentStarts
  <2>3. Written' => Written
    BY <2>1 DEF Written
  <2>4. RunsCurrent' /\ VersionsBehind'
    BY <1>0, <1>t, <2>1, <2>2, <2>3, RunsKept
  <2>5. SuccessMeansEnforced' /\ WritesOnce'
    BY <1>0, <2>1, SuccessKept, WritesOnceKept
  <2> QED
    BY <1>t, <2>4, <2>5 DEF EnforcedInv
<1>11. CASE \E n \in Node : AgentEnds(n)
  BY <1>t, <1>11, AgentEndsEnforced
<1> QED
  BY <1>1, <1>2, <1>3, <1>4, <1>5, <1>6, <1>7, <1>8, <1>9, <1>10, <1>11 DEF Next, Worker

(* Whatever the agents do on their own, however the neighbour moves the version and
   whichever commands or queries for reports fail: as long as PuppetDB answers the queries
   for the events of the reports it has found, _process_feedbacks calls a task successful
   only after a Puppet run has enforced it. *)
THEOREM SuccessIsEnforced ==
    ASSUME "events" \notin Faults
    PROVE  Spec => []SuccessMeansEnforced
<1>1. EnforcedInv => SuccessMeansEnforced
  BY DEF EnforcedInv
<1>2. EnforcedInv /\ [Next]_vars => EnforcedInv'
  BY NextEnforced
<1> QED
  BY <1>1, <1>2, InitEnforced, PTL DEF Spec

-----------------------------------------------------------------------------
(* The outcome of a phase *)

Working == pc \in {"apply", "feedback", "check"}
Waiting == pc \in {"feedback", "check"}
Running == InState(Task, "running")
OfNode(S, n) == \A t \in Task : t \in S => NodeOf[t] = n

(* What is persisted, compiled or reported for a node are tasks of that node. *)
OnNodes ==
    /\ \A n \in Node : /\ OfNode(persisted[n], n) /\ OfNode(manifest[n], n)
                       /\ OfNode(resources[n], n) /\ OfNode(agent[n].catalog, n)
                       /\ \A r \in reports[n] : OfNode(r.ok, n) /\ OfNode(r.bad, n)
    /\ \A t \in Task : OfNode(backup[t], NodeOf[t])

(* Only tasks of the phase run, and only while the phase is at work. *)
RunningCurrent ==
    /\ Working => Running \subseteq Current
    /\ ~Working => Running = {}
    /\ pc # "start" => \A t \in Current : state[t] # "initial"

(* The manager knows the tasks that run, and waits for their nodes. *)
ManagerCurrent ==
    /\ Working /\ ~pm.complete => pm.tasks = Current
    /\ pc = "apply" => ~pm.complete /\ pm.processed = {}
    /\ Waiting /\ pm.complete => Running = {}
    /\ Waiting => \A t \in Running : NodeOf[t] \in pm.waiting \ pm.processed
    /\ Working \/ pc \in {"disable", "restore"} => pm.processing = {NodeOf[t] : t \in Current}

OkMeansSuccess ==
    pc \in {"disable", "restore", "ended", "over"} /\ result = "ok" =>
        \A t \in Current : state[t] = "success"

PhaseInv == RunningCurrent /\ ManagerCurrent /\ OkMeansSuccess

OutcomeInv == TypeOK /\ OnNodes /\ PhaseInv

LEMMA NodesKept ==
    ASSUME OnNodes, UNCHANGED <<persisted, manifest, backup, reports>>,
           \A n \in Node : AgentMoves(n)
    PROVE  OnNodes'
<1>1. ASSUME NEW n \in Node
      PROVE  OfNode(resources'[n], n) /\ OfNode(agent'[n].catalog, n)
  <2>1. AgentMoves(n)
    OBVIOUS
  <2>2. OfNode(manifest[n], n) /\ OfNode(resources[n], n) /\ OfNode(agent[n].catalog, n)
        /\ OfNode({}, n)
    BY DEF OnNodes, OfNode
  <2> QED
    BY <2>1, <2>2 DEF AgentMoves
<1>2. \A n \in Node : /\ OfNode(persisted[n], n) /\ OfNode(manifest[n], n)
                      /\ \A r \in reports[n] : OfNode(r.ok, n) /\ OfNode(r.bad, n)
  BY DEF OnNodes
<1>3. \A t \in Task : OfNode(backup[t], NodeOf[t])
  BY DEF OnNodes
<1> QED
  BY <1>1, <1>2, <1>3 DEF OnNodes, OfNode

LEMMA InitOutcome == Init => OutcomeInv
<1> SUFFICES ASSUME Init PROVE OutcomeInv
  OBVIOUS
<1>1. TypeOK
  BY InitType
<1>2. OnNodes
  <2>1. \A n \in Node : OfNode(Persisted[n], n) /\ OfNode(NoFile, n) /\ OfNode({}, n)
    BY PuppetAssumption DEF OfNode
  <2>2. \A n \in Node : /\ persisted[n] = Persisted[n] /\ resources[n] = Persisted[n]
                        /\ manifest[n] \in {NoFile, Persisted[n]} /\ agent[n].catalog = {}
                        /\ reports[n] = {OldReport}
    BY IdleType, PuppetAssumption DEF Init
  <2>3. \A n \in Node : OfNode(OldReport.ok, n) /\ OfNode(OldReport.bad, n)
    BY DEF OldReport, OfNode
  <2>4. \A t \in Task : OfNode(backup[t], NodeOf[t])
    BY DEF Init, OfNode
  <2>5. ASSUME NEW n \in Node
        PROVE  /\ OfNode(persisted[n], n) /\ OfNode(manifest[n], n)
               /\ OfNode(resources[n], n) /\ OfNode(agent[n].catalog, n)
               /\ \A r \in reports[n] : OfNode(r.ok, n) /\ OfNode(r.bad, n)
    <3>1. OfNode(persisted[n], n) /\ OfNode(resources[n], n) /\ OfNode(agent[n].catalog, n)
      BY <2>1, <2>2
    <3>2. OfNode(manifest[n], n)
      BY <2>1, <2>2, Zenon
    <3>3. \A r \in reports[n] : r = OldReport
      BY <2>2
    <3> QED
      BY <2>3, <3>1, <3>2, <3>3
  <2> QED
    BY <2>4, <2>5 DEF OnNodes
<1>3. PhaseInv
  BY DEF Init, PhaseInv, RunningCurrent, ManagerCurrent, OkMeansSuccess, Working, Waiting,
         Running, InState
<1> QED
  BY <1>1, <1>2, <1>3 DEF OutcomeInv

LEMMA WorkerNodes ==
    ASSUME OutcomeInv, Worker
    PROVE  OnNodes'
<1>0. TypeOK /\ OnNodes
  BY DEF OutcomeInv
<1>p. NodeOf \in [Task -> Node]
  BY PuppetAssumption
<1>n. \A n \in Node : /\ OfNode(persisted[n], n) /\ OfNode(manifest[n], n)
                      /\ OfNode(resources[n], n) /\ OfNode(agent[n].catalog, n)
                      /\ \A r \in reports[n] : OfNode(r.ok, n) /\ OfNode(r.bad, n)
  BY <1>0 DEF OnNodes
<1>b. \A t \in Task : OfNode(backup[t], NodeOf[t])
  BY <1>0 DEF OnNodes
<1>1. CASE AddPhase
  <2>1. /\ UNCHANGED <<manifest, agent, reports, resources>>
        /\ persisted' = [n \in Node |-> Added(n)]
        /\ backup' = [t \in Task |-> IF t \in Current THEN backup[t] \cup ReplacedBy(t) ELSE backup[t]]
    BY <1>1 DEF AddPhase, puppet
  <2>2. \A n \in Node : OfNode(Added(n), n)
    BY <1>n DEF Added, OfNode
  <2>3. \A t \in Task : OfNode(ReplacedBy(t), NodeOf[t])
    BY <1>n, <1>p DEF ReplacedBy, OfNode
  <2>4. \A t \in Task : OfNode(backup'[t], NodeOf[t])
    BY <1>b, <2>1, <2>3 DEF OfNode
  <2>5. \A n \in Node : persisted'[n] = Added(n)
    BY <2>1
  <2>6. \A n \in Node : /\ OfNode(persisted'[n], n) /\ OfNode(manifest'[n], n)
                        /\ OfNode(resources'[n], n) /\ OfNode(agent'[n].catalog, n)
                        /\ \A r \in reports'[n] : OfNode(r.ok, n) /\ OfNode(r.bad, n)
    BY <1>n, <2>1, <2>2, <2>5
  <2> QED
    BY <2>4, <2>6 DEF OnNodes, OfNode
<1>2. CASE ApplyStep
  <2>1. UNCHANGED <<persisted, backup>>
    BY <1>2 DEF ApplyStep
  <2>2. \A n \in Node : AgentMoves(n)
    BY <1>0, <1>2, ApplyStepFacts
  <2>3. ASSUME NEW n \in Node PROVE OfNode(resources'[n], n) /\ OfNode(agent'[n].catalog, n)
    <3>1. AgentMoves(n) /\ OfNode({}, n)
      BY <2>2 DEF OfNode
    <3> QED
      BY <1>n, <3>1 DEF AgentMoves
  <2>4. ASSUME NEW n \in Node
        PROVE  /\ OfNode(manifest'[n], n)
               /\ \A r \in reports'[n] : OfNode(r.ok, n) /\ OfNode(r.bad, n)
    <3>1. manifest'[n] \in {manifest[n], persisted[n]}
      BY <1>0, <1>2, ApplyStepFacts
    <3>2. reports'[n] = reports[n] \/ reports'[n] = {OldReport}
      BY <1>0, <1>2, ApplyStepFacts
    <3>3. OfNode(OldReport.ok, n) /\ OfNode(OldReport.bad, n)
      BY DEF OldReport, OfNode
    <3> QED
      BY <1>n, <3>1, <3>2, <3>3
  <2>5. \A n \in Node : /\ OfNode(persisted'[n], n) /\ OfNode(manifest'[n], n)
                        /\ OfNode(resources'[n], n) /\ OfNode(agent'[n].catalog, n)
                        /\ \A r \in reports'[n] : OfNode(r.ok, n) /\ OfNode(r.bad, n)
    BY <1>n, <2>1, <2>3, <2>4
  <2> QED
    BY <1>b, <2>1, <2>5 DEF OnNodes, OfNode
<1>3. CASE ApplyFails
  <2>1. PICK op, done : agent' = Command(op, done) /\ resources' = Compiled(done)
    BY <1>3 DEF ApplyFails
  <2> QED
    BY <1>0, <1>3, <2>1, CommandMoves, NodesKept DEF ApplyFails
<1>4. CASE BeginWait \/ Check \/ (\E n \in Node : ProcessFeedback(n)) \/ NextPhase
  <2>1. UNCHANGED <<persisted, backup, manifest, agent, reports, resources>>
    BY <1>4 DEF BeginWait, Check, ProcessFeedback, NextPhase, puppet
  <2> QED
    BY <1>0, <2>1, NodesKept, SameAgent
<1>5. CASE DisableAfterPhase \/ DisableAfterPhaseFails
  <2>1. PICK done : agent' = Command("disable", done)
    BY <1>5 DEF DisableAfterPhase, DisableAfterPhaseFails
  <2>2. UNCHANGED <<persisted, backup, manifest, reports, resources>>
    BY <1>5 DEF DisableAfterPhase, DisableAfterPhaseFails
  <2> QED
    BY <1>0, <2>1, <2>2, CommandMoves, NodesKept
<1>6. CASE RestoreBackedUpTasks
  <2>1. /\ UNCHANGED <<manifest, agent, reports, resources>> /\ backup' = [t \in Task |-> {}]
        /\ persisted' = [n \in Node |-> IF n \in pm.processing THEN Restored(n) ELSE persisted[n]]
    BY <1>6 DEF RestoreBackedUpTasks, puppet
  <2>2. \A n \in Node : OfNode(Restored(n), n)
    <3> SUFFICES ASSUME NEW n \in Node, NEW t \in Task, t \in Restored(n) PROVE NodeOf[t] = n
      BY DEF OfNode
    <3>1. PICK u \in persisted[n] : t = u \/ t \in backup[u]
      BY DEF Restored
    <3>2. u \in Task /\ NodeOf[u] = n
      BY <1>0, <1>n DEF TypeOK, OfNode
    <3> QED
      BY <1>b, <3>1, <3>2 DEF OfNode
  <2>3. \A t \in Task : OfNode(backup'[t], NodeOf[t])
    BY <2>1 DEF OfNode
  <2>4. \A n \in Node : OfNode(persisted'[n], n)
    BY <1>n, <2>1, <2>2
  <2>5. \A n \in Node : /\ OfNode(persisted'[n], n) /\ OfNode(manifest'[n], n)
                        /\ OfNode(resources'[n], n) /\ OfNode(agent'[n].catalog, n)
                        /\ \A r \in reports'[n] : OfNode(r.ok, n) /\ OfNode(r.bad, n)
    BY <1>n, <2>1, <2>4
  <2> QED
    BY <2>3, <2>5 DEF OnNodes, OfNode
<1>7. CASE EndPlan
  <2>1. UNCHANGED <<backup, reports, resources>> /\ persisted' = Staying
    BY <1>7 DEF EndPlan
  <2>2. PICK written :
            /\ manifest' = [n \in Node |-> IF n \in written THEN Staying[n] ELSE manifest[n]]
            /\ version' = IF written = {} THEN version ELSE version + 1
            /\ agent' = [n \in Node |-> IF n \in written THEN Idle
                                        ELSE [agent[n] EXCEPT !.enabled = TRUE]]
    BY <1>7 DEF EndPlan, ApplyRemoval
  <2>3. \A n \in Node : OfNode(Staying[n], n) /\ OfNode({}, n)
    BY <1>n DEF Staying, OfNode
  <2>4. \A n \in Node : manifest'[n] \in {manifest[n], Staying[n]}
    BY <1>0, <2>2 DEF TypeOK
  <2>5. \A n \in Node : agent'[n].catalog \in {{}, agent[n].catalog}
    <3>1. \A n \in Node : [agent[n] EXCEPT !.enabled = TRUE].catalog = agent[n].catalog
      BY <1>0 DEF TypeOK, Agent
    <3> QED
      BY <2>2, <3>1, IdleType
  <2>6. \A n \in Node : /\ OfNode(persisted'[n], n) /\ OfNode(manifest'[n], n)
                        /\ OfNode(resources'[n], n) /\ OfNode(agent'[n].catalog, n)
                        /\ \A r \in reports'[n] : OfNode(r.ok, n) /\ OfNode(r.bad, n)
    BY <1>n, <2>1, <2>3, <2>4, <2>5
  <2> QED
    BY <1>b, <2>1, <2>6 DEF OnNodes, OfNode
<1> QED
  BY <1>1, <1>2, <1>3, <1>4, <1>5, <1>6, <1>7 DEF Worker

LEMMA OthersNodes ==
    ASSUME OutcomeInv, \/ ResumePlan \/ NeighbourWrites \/ UNCHANGED vars
                       \/ \E n \in Node : AgentStarts(n) \/ AgentEnds(n)
    PROVE  OnNodes'
<1>0. TypeOK /\ OnNodes
  BY DEF OutcomeInv
<1>1. CASE ResumePlan
  <2>1. /\ UNCHANGED <<persisted, manifest, agent, reports, resources>>
        /\ backup' = backup \/ backup' = [t \in Task |-> {}]
    BY <1>1 DEF ResumePlan, puppet
  <2>2. \A t \in Task : OfNode(backup'[t], NodeOf[t])
    BY <1>0, <2>1 DEF OnNodes, OfNode
  <2>3. \A n \in Node : /\ OfNode(persisted'[n], n) /\ OfNode(manifest'[n], n)
                        /\ OfNode(resources'[n], n) /\ OfNode(agent'[n].catalog, n)
                        /\ \A r \in reports'[n] : OfNode(r.ok, n) /\ OfNode(r.bad, n)
    BY <1>0, <2>1 DEF OnNodes
  <2> QED
    BY <2>2, <2>3 DEF OnNodes, OfNode
<1>2. CASE NeighbourWrites \/ UNCHANGED vars
  <2>1. UNCHANGED <<persisted, backup, manifest, agent, reports, resources>>
    BY <1>2 DEF NeighbourWrites, vars, puppet
  <2> QED
    BY <1>0, <2>1, NodesKept, SameAgent
<1>3. CASE \E n \in Node : AgentStarts(n)
  BY <1>0, <1>3, CommandMoves, NodesKept DEF AgentStarts
<1>4. CASE \E n \in Node : AgentEnds(n)
  <2> PICK n \in Node : AgentEnds(n)
    BY <1>4
  <2>1. UNCHANGED <<persisted, backup, manifest, resources>>
    BY DEF AgentEnds
  <2>2. PICK r \in Report :
           /\ r.bad \subseteq agent[n].catalog /\ r.ok \subseteq agent[n].catalog \ r.bad
           /\ reports' = [reports EXCEPT ![n] = @ \cup {r}]
    BY <1>0, AgentEndsFacts
  <2>3. agent'[n].catalog = {} /\ \A m \in Node \ {n} : agent'[m] = agent[m]
    BY <1>0, AgentEndsFacts
  <2>4. OfNode(r.ok, n) /\ OfNode(r.bad, n)
    BY <1>0, <2>2 DEF OnNodes, OfNode
  <2>5. \A m \in Node : reports'[m] = IF m = n THEN reports[m] \cup {r} ELSE reports[m]
    BY <1>0, <2>2 DEF TypeOK
  <2>6. \A m \in Node : \A x \in reports'[m] : OfNode(x.ok, m) /\ OfNode(x.bad, m)
    BY <1>0, <2>4, <2>5 DEF OnNodes
  <2>7. \A m \in Node : OfNode(agent'[m].catalog, m)
    <3>1. OfNode({}, n)
      BY DEF OfNode
    <3> QED
      BY <1>0, <2>3, <3>1 DEF OnNodes
  <2>8. \A m \in Node : /\ OfNode(persisted'[m], m) /\ OfNode(manifest'[m], m)
                        /\ OfNode(resources'[m], m)
    BY <1>0, <2>1 DEF OnNodes
  <2> QED
    BY <1>0, <2>1, <2>6, <2>7, <2>8 DEF OnNodes, OfNode
<1> QED
  BY <1>1, <1>2, <1>3, <1>4

(* The end of an iteration of wait_for_phase, or of the wait *)
LEMMA ContinueOutcome ==
    ASSUME TypeOK, NEW p \in Manager, NEW s \in [Task -> TaskState], Continue(p, s),
           plan' = plan, phase' = phase,
           \A t \in Task : s[t] = "running" => /\ t \in Current /\ ~p.complete
                                               /\ NodeOf[t] \in p.waiting \ p.processed,
           \A t \in Current : s[t] # "initial",
           ~p.complete => p.tasks = Current,
           p.processing = {NodeOf[t] : t \in Current}
    PROVE  PhaseInv'
<1>0. Current' = Current /\ Current \subseteq Task
  BY CurrentFacts DEF Current
<1>1. pm'.processing = {NodeOf[t] : t \in Current} /\ state' \in [Task -> TaskState]
  BY ContinueFacts
<1>2. \A t \in Task : t \in Running' <=> state'[t] = "running"
  BY DEF Running, InState
<1>r. Running' \subseteq Task
  BY DEF Running, InState
<1>3. CASE /\ pc' = "feedback" /\ state' = s /\ result' = result
           /\ pm'.tasks = p.tasks /\ pm'.complete = p.complete
           /\ pm'.waiting = p.waiting /\ pm'.processed = p.processed
  <2>1. RunningCurrent'
    BY <1>0, <1>2, <1>r, <1>3 DEF RunningCurrent, Working
  <2>2. ManagerCurrent'
    <3>1. ~pm'.complete => pm'.tasks = Current'
      BY <1>0, <1>3
    <3>2. \A t \in Running' : ~pm'.complete /\ NodeOf[t] \in pm'.waiting \ pm'.processed
      BY <1>2, <1>r, <1>3
    <3>3. pm'.processing = {NodeOf[t] : t \in Current'}
      BY <1>0, <1>1
    <3> QED
      BY <1>3, <3>1, <3>2, <3>3 DEF ManagerCurrent, Waiting
  <2> QED
    BY <1>3, <2>1, <2>2 DEF PhaseInv, OkMeansSuccess
<1>4. CASE /\ pc' \in {"restore", "disable"} /\ result' \in {"error", "ok"} /\ ~Looping(p)
           /\ \A t \in Task : \/ state'[t] = s[t]
                              \/ t \in p.tasks /\ s[t] = "running" /\ state'[t] = "failed"
           /\ ~p.complete /\ ~(p.timeout > 0) =>
                 \A t \in Task : t \in p.tasks => state'[t] # "running"
           /\ result' = "ok" => \A t \in Current : state'[t] # "failed" /\ state'[t] # "stopped"
  <2>1. \A t \in Task : state'[t] # "running"
    <3> SUFFICES ASSUME NEW t \in Task, state'[t] = "running" PROVE FALSE
      OBVIOUS
    <3>1. s[t] = "running"
      BY <1>4
    <3>2. t \in Current /\ ~p.complete /\ p.waiting # {}
      BY <3>1
    <3>3. ~(p.timeout > 0)
      BY <1>4, <3>2 DEF Looping
    <3> QED
      BY <1>4, <3>2, <3>3
  <2>2. Running' = {}
    BY <1>2, <1>r, <2>1
  <2>3. \A t \in Current : state'[t] # "initial"
    BY <1>0, <1>4
  <2>4. result' = "ok" => \A t \in Current : state'[t] = "success"
    BY <1>0, <1>1, <1>4, <2>1, <2>3 DEF TaskState
  <2>5. RunningCurrent' /\ OkMeansSuccess'
    BY <1>0, <1>4, <2>2, <2>3, <2>4 DEF RunningCurrent, OkMeansSuccess, Working
  <2>6. ManagerCurrent'
    BY <1>0, <1>1, <1>4 DEF ManagerCurrent, Working, Waiting
  <2> QED
    BY <2>5, <2>6 DEF PhaseInv
<1> QED
  BY <1>3, <1>4, ContinueFacts

LEMMA BeginWaitOutcome ==
    ASSUME OutcomeInv, BeginWait
    PROVE  PhaseInv'
<1>0. TypeOK /\ RunningCurrent /\ ManagerCurrent
  BY DEF OutcomeInv, PhaseInv
<1>1. pc = "apply" /\ plan' = plan /\ phase' = phase
  BY DEF BeginWait
<1>2. /\ Current \subseteq Task /\ state \in [Task -> TaskState]
      /\ \A t \in Current : state[t] # "initial"
  BY <1>0, <1>1, CurrentFacts DEF TypeOK, TaskState, RunningCurrent
<1>3. \A t \in Task : state[t] = "running" => t \in Current
  BY <1>0, <1>1 DEF RunningCurrent, Working, Running, InState
<1>4. /\ ~pm.complete /\ pm.tasks = Current /\ pm.processed = {}
      /\ pm.processing = {NodeOf[t] : t \in Current}
  BY <1>0, <1>1 DEF ManagerCurrent, Working
<1>5. CASE /\ \A t \in Current : HasRun(t)
           /\ state' = state /\ pm' = pm
           /\ pc' \in {"restore", "disable"} /\ result' \in {"error", "ok"}
           /\ result' = "ok" => \A t \in Current : state[t] # "failed" /\ state[t] # "stopped"
  <2>1. \A t \in Current : state[t] \notin {"initial", "running"}
    BY <1>5 DEF HasRun
  <2>2. Running' = {}
    BY <1>3, <1>5, <2>1 DEF Running, InState
  <2>3. Current' = Current
    BY <1>1 DEF Current
  <2>4. result' = "ok" => \A t \in Current : state[t] = "success"
    BY <1>2, <1>5, <2>1 DEF TaskState
  <2>5. RunningCurrent' /\ OkMeansSuccess'
    BY <1>2, <1>5, <2>2, <2>3, <2>4 DEF RunningCurrent, OkMeansSuccess, Working
  <2>6. ManagerCurrent'
    BY <1>4, <1>5, <2>3 DEF ManagerCurrent, Working, Waiting
  <2> QED
    BY <2>5, <2>6 DEF PhaseInv
<1>6. CASE \E p \in Manager :
              /\ Continue(p, state)
              /\ p.processing = pm.processing
              /\ p.complete = pm.complete /\ p.tasks = pm.tasks /\ p.processed = pm.processed
              /\ p.waiting = {NodeOf[t] : t \in {u \in Current : ~HasRun(u)}}
  <2> PICK p \in Manager :
              /\ Continue(p, state)
              /\ p.processing = pm.processing
              /\ p.complete = pm.complete /\ p.tasks = pm.tasks /\ p.processed = pm.processed
              /\ p.waiting = {NodeOf[t] : t \in {u \in Current : ~HasRun(u)}}
    BY <1>6
  <2>1. ASSUME NEW t \in Task, state[t] = "running"
        PROVE  t \in Current /\ ~p.complete /\ NodeOf[t] \in p.waiting \ p.processed
    <3>1. t \in Current /\ ~HasRun(t)
      BY <1>3, <2>1 DEF HasRun
    <3> QED
      BY <1>4, <3>1
  <2> QED
    BY <1>0, <1>1, <1>2, <1>4, <2>1, ContinueOutcome
<1> QED
  BY <1>0, <1>5, <1>6, BeginWaitFacts

LEMMA CheckOutcome ==
    ASSUME OutcomeInv, Check
    PROVE  PhaseInv'
<1>0. TypeOK /\ RunningCurrent /\ ManagerCurrent
  BY DEF OutcomeInv, PhaseInv
<1>1. pc = "check" /\ plan' = plan /\ phase' = phase
  BY DEF Check
<1>2. /\ Current \subseteq Task /\ state \in [Task -> TaskState]
      /\ \A t \in Current : state[t] # "initial"
  BY <1>0, <1>1, CurrentFacts DEF TypeOK, TaskState, RunningCurrent
<1>3. \A t \in Task : state[t] = "running" => /\ t \in Current /\ ~pm.complete
                                              /\ NodeOf[t] \in pm.waiting \ pm.processed
  BY <1>0, <1>1 DEF RunningCurrent, ManagerCurrent, Working, Waiting, Running, InState
<1>4. /\ ~pm.complete => pm.tasks = Current
      /\ pm.processing = {NodeOf[t] : t \in Current}
  BY <1>0, <1>1 DEF ManagerCurrent, Working
<1>5. PICK p \in Manager, s \in [Task -> TaskState] :
         /\ Continue(p, s) /\ p.processing = pm.processing
         /\ \/ pm.complete /\ p.complete /\ s = state
            \/ /\ ~pm.complete /\ p.complete
               /\ s = Set(InState(pm.tasks, "running"), "failed")
            \/ /\ ~pm.complete /\ ~p.complete /\ s = state
               /\ p.tasks = pm.tasks /\ p.processed = pm.processed
               /\ p.waiting = pm.waiting \ pm.processed
  BY <1>0, CheckFacts
<1>6. CASE /\ s = state
           /\ \/ pm.complete /\ p.complete
              \/ /\ ~pm.complete /\ ~p.complete
                 /\ p.tasks = pm.tasks /\ p.processed = pm.processed
                 /\ p.waiting = pm.waiting \ pm.processed
  <2>1. \A t \in Task : s[t] = "running" => /\ t \in Current /\ ~p.complete
                                            /\ NodeOf[t] \in p.waiting \ p.processed
    BY <1>3, <1>6
  <2>2. ~p.complete => p.tasks = Current
    BY <1>4, <1>6
  <2> QED
    BY <1>0, <1>1, <1>2, <1>4, <1>5, <1>6, <2>1, <2>2, ContinueOutcome
<1>7. CASE ~pm.complete /\ p.complete /\ s = Set(InState(pm.tasks, "running"), "failed")
  <2>1. \A t \in Task : s[t] = IF t \in Current /\ state[t] = "running" THEN "failed" ELSE state[t]
    BY <1>4, <1>7 DEF Set, InState
  <2>2. \A t \in Task : s[t] # "running"
    BY <1>3, <2>1
  <2>3. \A t \in Current : s[t] # "initial"
    BY <1>2, <2>1
  <2> QED
    BY <1>0, <1>1, <1>4, <1>5, <1>7, <2>2, <2>3, ContinueOutcome
<1> QED
  BY <1>5, <1>6, <1>7

(* Feedback of a node: its tasks that run and that the reports do not mention fail. *)
LEMMA FeedbackOutcome ==
    ASSUME MixedCase = {}, OutcomeInv, NEW n \in Node, ProcessFeedback(n)
    PROVE  PhaseInv'
<1>0. TypeOK /\ OnNodes /\ RunningCurrent /\ ManagerCurrent
  BY DEF OutcomeInv, PhaseInv
<1>1. pc = "feedback" /\ UNCHANGED <<plan, phase, result>>
  BY DEF ProcessFeedback
<1>2. /\ Current \subseteq Task /\ \A t \in Current : state[t] # "initial"
      /\ Current' = Current
  BY <1>0, <1>1, CurrentFacts DEF RunningCurrent, Current
<1>3. \A t \in Task : state[t] = "running" => /\ t \in Current /\ ~pm.complete
                                              /\ NodeOf[t] \in pm.waiting \ pm.processed
  BY <1>0, <1>1 DEF RunningCurrent, ManagerCurrent, Working, Waiting, Running, InState
<1>4. /\ ~pm.complete => pm.tasks = Current
      /\ pm.processing = {NodeOf[t] : t \in Current}
  BY <1>0, <1>1 DEF ManagerCurrent, Working
<1>5. /\ pc' \in {"check", "feedback"} /\ pm'.processing = pm.processing
      /\ pm'.waiting = pm.waiting
  BY <1>0, FeedbackFacts
<1>6. /\ \A t \in Task : state'[t] = "running" => /\ t \in Current /\ ~pm'.complete
                                                  /\ NodeOf[t] \in pm.waiting \ pm'.processed
      /\ \A t \in Current : state'[t] # "initial"
      /\ ~pm'.complete => pm'.tasks = Current
  <2>1. CASE /\ state' = state /\ pm'.tasks = pm.tasks /\ pm'.complete = pm.complete
             /\ pm'.processed = pm.processed
    BY <1>2, <1>3, <1>4, <2>1
  <2>2. CASE \E query \in BOOLEAN : \E found \in Found(n) : \E read \in Read(found) :
                FeedbackApplied(n, Feedback(n, query, read))
    <3>1. PICK query \in BOOLEAN, found \in Found(n) :
             \E read \in Read(found) : FeedbackApplied(n, Feedback(n, query, read))
      BY <2>2
    <3>2. PICK read \in Read(found) : FeedbackApplied(n, Feedback(n, query, read))
      BY <3>1
    <3>3. read \subseteq reports[n]
      BY DEF Found, Read, GetReports
    <3> DEFINE f == Feedback(n, query, read)
               new == (f.ok \cup f.bad) \cap pm.tasks
               N == {NodeOf[t] : t \in new}
    <3>4. \A t \in Task : t \in f.ok \cup f.bad => NodeOf[t] = n
      <4> DEFINE bad == UNION {r.bad : r \in read}
                 ok == UNION {r.ok : r \in read}
                 known == bad \cup ok
                 silent == IF query /\ \E t \in Current : t \notin known THEN resources[n] \ known ELSE {}
      <4>1. f.ok = (known \ bad) \cup silent /\ f.bad = bad
        BY DEF Feedback
      <4>2. OfNode(bad, n) /\ OfNode(ok, n)
        BY <1>0, <3>3 DEF OnNodes, OfNode
      <4>3. OfNode(silent, n)
        BY <1>0 DEF OnNodes, OfNode
      <4> HIDE DEF bad, ok, silent, f
      <4> QED
        BY <4>1, <4>2, <4>3 DEF OfNode
    <3>5. /\ ~pm.complete /\ pm'.processed = pm.processed \cup N
          /\ \A t \in Task :
                /\ state'[t] = "initial" => state[t] = "initial"
                /\ state'[t] = "running" => /\ state[t] = "running" /\ t \notin new
                                            /\ t \notin Missing(n, new)
          /\ \/ ~pm'.complete /\ pm'.tasks = pm.tasks
             \/ /\ pm'.complete
                /\ \/ \A t \in Task : t \in Current => state'[t] # "running"
                   \/ \A t \in Task : t \in pm.tasks => state'[t] # "running"
      BY <3>2 DEF FeedbackApplied
    <3>6. pm.tasks = Current
      BY <1>4, <3>5
    <3>7. N \subseteq {n}
      BY <1>2, <3>4, <3>6
    <3>8. \A t \in Task : state[t] = "running" /\ NodeOf[t] = n /\ t \notin new =>
              t \in Missing(n, new)
      BY <1>3, <3>6 DEF Missing
    <3> HIDE DEF f, new, N
    <3>9. ASSUME NEW t \in Task, state'[t] = "running"
          PROVE  t \in Current /\ ~pm'.complete /\ NodeOf[t] \in pm.waiting \ pm'.processed
      <4>1. state[t] = "running" /\ t \notin new /\ t \notin Missing(n, new)
        BY <3>5, <3>9
      <4>2. t \in Current /\ NodeOf[t] \in pm.waiting \ pm.processed
        BY <1>3, <4>1
      <4>3. NodeOf[t] # n
        BY <3>8, <4>1
      <4>4. ~pm'.complete
        BY <3>5, <3>6, <3>9, <4>2
      <4> QED
        BY <3>5, <3>7, <4>2, <4>3, <4>4
    <3>10. \A t \in Current : state'[t] # "initial"
      BY <1>2, <3>5
    <3>11. ~pm'.complete => pm'.tasks = Current
      BY <3>5, <3>6
    <3> QED
      BY <3>9, <3>10, <3>11
  <2> QED
    BY <1>0, <2>1, <2>2, FeedbackFacts
<1>7. \A t \in Running' : t \in Task /\ state'[t] = "running"
  BY DEF Running, InState
<1>8. RunningCurrent'
  BY <1>2, <1>5, <1>6, <1>7 DEF RunningCurrent, Working
<1>9. ManagerCurrent'
  <2>1. \A t \in Running' : ~pm'.complete /\ NodeOf[t] \in pm'.waiting \ pm'.processed
    BY <1>5, <1>6, <1>7
  <2>2. pm'.processing = {NodeOf[t] : t \in Current'} /\ (~pm'.complete => pm'.tasks = Current')
    BY <1>2, <1>4, <1>5, <1>6
  <2> QED
    BY <1>5, <2>1, <2>2 DEF ManagerCurrent, Waiting
<1> QED
  BY <1>5, <1>8, <1>9 DEF PhaseInv, OkMeansSuccess

LEMMA NextPhaseInv ==
    ASSUME MixedCase = {}, OutcomeInv, [Next]_vars
    PROVE  PhaseInv'
<1>0. TypeOK /\ RunningCurrent /\ ManagerCurrent /\ OkMeansSuccess
  BY DEF OutcomeInv, PhaseInv
<1>c. Current \subseteq Task
  BY <1>0, CurrentFacts
<1>s. state \in [Task -> TaskState]
  BY <1>0 DEF TypeOK, TaskState
<1>1. CASE AddPhase
  <2>1. pc = "start" /\ pc' = "apply" /\ plan' = plan /\ phase' = phase
    BY <1>1 DEF AddPhase
  <2>2. /\ pm'.tasks = Current /\ ~pm'.complete /\ pm'.processed = {}
        /\ pm'.processing = {NodeOf[t] : t \in Current}
    BY <1>0, <1>1, AddPhaseFacts
  <2>3. PICK s \in {"running", "stopped"} : state' = Set(Current, s)
    BY <1>0, <1>1, AddPhaseFacts
  <2>4. \A t \in Task : state[t] # "running"
    BY <1>0, <2>1 DEF RunningCurrent, Working, Running, InState
  <2>5. Running' \subseteq Current /\ \A t \in Current : state'[t] # "initial"
    BY <1>c, <2>3, <2>4 DEF Set, Running, InState
  <2>6. Current' = Current
    BY <2>1 DEF Current
  <2> QED
    BY <2>1, <2>2, <2>5, <2>6
       DEF PhaseInv, RunningCurrent, ManagerCurrent, OkMeansSuccess, Working, Waiting
<1>2. CASE ApplyStep
  <2>1. pc = "apply" /\ UNCHANGED <<state, plan, pc, phase, result>>
    BY <1>2 DEF ApplyStep, work
  <2>2. /\ pm'.tasks = pm.tasks /\ pm'.complete = pm.complete /\ pm'.processed = pm.processed
        /\ pm'.processing = pm.processing
    BY <1>0, <1>2, ApplyStepFacts DEF Advanced
  <2>3. Running' = Running /\ Current' = Current
    BY <2>1 DEF Running, InState, Current
  <2> QED
    BY <1>0, <2>1, <2>2, <2>3
       DEF PhaseInv, RunningCurrent, ManagerCurrent, OkMeansSuccess, Working, Waiting
<1>3. CASE ApplyFails
  <2>1. /\ pc = "apply" /\ pc' = "ended" /\ result' = "mco" /\ plan' = plan /\ phase' = phase
        /\ state' = Set(InState(pm.tasks, "running"), "failed")
    BY <1>3 DEF ApplyFails
  <2>2. pm.tasks = Current /\ (\A t \in Current : state[t] # "initial")
        /\ \A t \in Task : state[t] = "running" => t \in Current
    BY <1>0, <2>1 DEF RunningCurrent, ManagerCurrent, Working, Running, InState
  <2>3. Running' = {} /\ \A t \in Current : state'[t] # "initial"
    BY <1>c, <2>1, <2>2 DEF Set, Running, InState
  <2>4. Current' = Current
    BY <2>1 DEF Current
  <2> QED
    BY <2>1, <2>3, <2>4
       DEF PhaseInv, RunningCurrent, ManagerCurrent, OkMeansSuccess, Working, Waiting
<1>4. CASE BeginWait
  BY <1>4, BeginWaitOutcome
<1>5. CASE Check
  BY <1>5, CheckOutcome
<1>6. CASE \E n \in Node : ProcessFeedback(n)
  BY <1>6, FeedbackOutcome
<1>7. CASE DisableAfterPhase \/ DisableAfterPhaseFails \/ RestoreBackedUpTasks \/ EndPlan
  <2>1. UNCHANGED <<state, pm, plan, phase>>
    BY <1>7 DEF DisableAfterPhase, DisableAfterPhaseFails, RestoreBackedUpTasks, EndPlan
  <2>2. /\ pc \in {"disable", "restore", "ended"} /\ pc' \in {"restore", "ended", "over"}
        /\ pc' = "restore" => pc = "disable"
        /\ result' = result \/ result' = "mco"
    BY <1>7 DEF DisableAfterPhase, DisableAfterPhaseFails, RestoreBackedUpTasks, EndPlan
  <2>3. Running' = Running /\ Current' = Current
    BY <2>1 DEF Running, InState, Current
  <2> QED
    BY <1>0, <2>1, <2>2, <2>3
       DEF PhaseInv, RunningCurrent, ManagerCurrent, OkMeansSuccess, Working, Waiting
<1>8. CASE NextPhase \/ ResumePlan
  <2>1. pc \in {"ended", "over"} /\ pc' = "start"
    BY <1>8 DEF NextPhase, ResumePlan
  <2>2. state' = state \/ state' = Set(InState(Current, "failed"), "initial")
    BY <1>8 DEF NextPhase, ResumePlan
  <2>3. Running = {}
    BY <1>0, <2>1 DEF RunningCurrent, Working
  <2>4. Running' = {}
    BY <2>2, <2>3 DEF Running, InState, Set
  <2> QED
    BY <2>1, <2>4
       DEF PhaseInv, RunningCurrent, ManagerCurrent, OkMeansSuccess, Working, Waiting
<1>9. CASE NeighbourWrites \/ (\E n \in Node : AgentStarts(n) \/ AgentEnds(n)) \/ UNCHANGED vars
  <2>1. UNCHANGED <<state, pm, plan, pc, phase, result>>
    BY <1>9 DEF NeighbourWrites, AgentStarts, AgentEnds, vars, work
  <2>2. Running' = Running /\ Current' = Current
    BY <2>1 DEF Running, InState, Current
  <2> QED
    BY <1>0, <2>1, <2>2
       DEF PhaseInv, RunningCurrent, ManagerCurrent, OkMeansSuccess, Working, Waiting
<1> QED
  BY <1>1, <1>2, <1>3, <1>4, <1>5, <1>6, <1>7, <1>8, <1>9 DEF Next, Worker

LEMMA NextOutcome ==
    ASSUME MixedCase = {}, OutcomeInv, [Next]_vars
    PROVE  OutcomeInv'
<1>1. TypeOK'
  BY NextType DEF OutcomeInv
<1>2. OnNodes'
  BY WorkerNodes, OthersNodes DEF Next
<1> QED
  BY <1>1, <1>2, NextPhaseInv DEF OutcomeInv

(* However a phase ends, wait_for_phase leaves none of its tasks running, and if it
   returns no error all of them are successful: for hostnames in lower case, for any
   failure of a command or a query, and for a stop that comes late. *)
THEOREM OutcomeIsFinal ==
    ASSUME MixedCase = {}
    PROVE  Spec => []PhaseOutcome
<1>1. OutcomeInv => PhaseOutcome
  BY DEF OutcomeInv, PhaseInv, RunningCurrent, OkMeansSuccess, PhaseOutcome, Working, Running
<1>2. OutcomeInv /\ [Next]_vars => OutcomeInv'
  BY NextOutcome
<1> QED
  BY <1>1, <1>2, InitOutcome, PTL DEF Spec

-----------------------------------------------------------------------------
(* What earlier plans have configured is kept *)

(* The tasks of the phases that are over *)
Before == UNION {plan[i] : i \in 1..(phase - 1)}
OldSuccessful == \A t \in Old : state[t] = "success"
Replacing(o, t) == Key[o] \in Taken(t)
NoneStopped == \A t \in Current : state[t] # "stopped"
Inside == Working \/ pc \in {"disable", "restore"}

(* What the first execution of the plan has persisted and backed up so far *)
FirstRun ==
    /\ \A t \in Before : state[t] = "success"
    /\ \A n \in Node : persisted[n] \subseteq
          Persisted[n] \cup Before \cup (IF pc = "start" THEN {} ELSE Current)
    /\ \A t \in Task : backup[t] \subseteq Old
    /\ pc = "start" \/ (pc = "ended" /\ result # "mco") => \A t \in Task : backup[t] = {}

(* A task of an earlier plan is persisted, or a task that has taken its place is: one that
   has succeeded or one that has a backup of it. *)
Covered(n, o) ==
    \/ o \in persisted[n]
    \/ \E t \in persisted[n] \cap Before : Replacing(o, t)
    \/ Inside /\ \E t \in persisted[n] \cap Current : Replacing(o, t) /\ o \in backup[t]
    \/ /\ pc = "ended"
       /\ \E t \in persisted[n] \cap Current : Replacing(o, t) /\ state[t] = "success"

Ordinary == pc = "ended" => result # "mco" /\ NoneStopped
AllCovered == \A n \in Node : \A o \in Persisted[n] : Covered(n, o)

FirstKept ==
    /\ FirstRun
    /\ Ordinary => AllCovered
    /\ pc = "ended" /\ Ordinary => FailedPersisted = {}

KeptInv ==
    /\ OutcomeInv /\ OldSuccessful /\ runs > 0
    /\ runs = 1 /\ pc # "over" => FirstKept

LEMMA BeforeFacts ==
    ASSUME TypeOK
    PROVE  /\ Before \subseteq Task \ Old /\ Before \cap Current = {}
           /\ \A t \in Before, u \in Current :
                 NodeOf[t] = NodeOf[u] => ~(Key[t] \in Taken(u))
<1>1. \A i \in 1..(phase - 1) : i \in 1..Len(plan) /\ i # phase
  BY CurrentFacts
<1>2. Before \subseteq Task \ Old /\ Before \cap Current = {}
  BY <1>1, CurrentFacts DEF Before
<1>3. ASSUME NEW t \in Before, NEW u \in Current, NodeOf[t] = NodeOf[u], Key[t] \in Taken(u)
      PROVE  FALSE
  <2>1. DOMAIN plan = 1..Len(plan)
    BY CurrentFacts
  <2>2. PICK i \in 1..Len(plan) : t \in plan[i]
    BY <1>1 DEF Before
  <2>3. u \in plan[phase] /\ phase \in 1..Len(plan)
    BY CurrentFacts DEF Current
  <2>4. t \in UNION ToSet(plan) /\ u \in UNION ToSet(plan)
    BY <2>1, <2>2, <2>3 DEF ToSet
  <2>5. t # u
    BY <1>2
  <2>6. Taken(t) \cap Taken(u) = {}
    BY <1>3, <2>4, <2>5, PuppetAssumption DEF TypeOK
  <2>7. Key[t] \in Taken(t)
    BY DEF Taken
  <2> QED
    BY <1>3, <2>6, <2>7
<1> QED
  BY <1>2, <1>3

(* A step changes the state of tasks of the phase only. *)
LEMMA OnlyCurrent ==
    ASSUME OutcomeInv, [Next]_vars, NEW t \in Task, t \notin Current
    PROVE  state'[t] = state[t]
<1>0. TypeOK /\ RunningCurrent /\ ManagerCurrent
  BY DEF OutcomeInv, PhaseInv
<1>s. state \in [Task -> TaskState]
  BY <1>0 DEF TypeOK, TaskState
<1>r. state[t] # "running"
  BY <1>0 DEF RunningCurrent, Running, InState
<1>1. CASE AddPhase
  <2>1. PICK s \in {"running", "stopped"} : state' = Set(Current, s)
    BY <1>0, <1>1, AddPhaseFacts
  <2> QED
    BY <2>1 DEF Set
<1>2. CASE ApplyFails
  BY <1>2, <1>r DEF ApplyFails, Set, InState
<1>3. CASE BeginWait
  BY <1>0, <1>s, <1>r, <1>3, BeginWaitFacts, ContinueFacts
<1>4. CASE Check
  <2>1. PICK p \in Manager, s \in [Task -> TaskState] :
           Continue(p, s) /\ (s = state \/ s = Set(InState(pm.tasks, "running"), "failed"))
    BY <1>0, <1>4, CheckFacts
  <2>2. s[t] = state[t]
    BY <1>r, <2>1 DEF Set, InState
  <2>3. state'[t] = s[t] \/ s[t] = "running"
    BY <1>0, <2>1, ContinueFacts
  <2> QED
    BY <1>r, <2>2, <2>3
<1>5. CASE \E n \in Node : ProcessFeedback(n)
  <2> PICK n \in Node : ProcessFeedback(n)
    BY <1>5
  <2>1. CASE state' = state
    BY <2>1
  <2>2. CASE \E f : FeedbackApplied(n, f)
    <3>1. ~pm.complete /\ (t \notin pm.tasks /\ t \notin Current => state'[t] = state[t])
      BY <2>2 DEF FeedbackApplied
    <3>2. pm.tasks = Current
      BY <1>0, <3>1 DEF ManagerCurrent, Working, ProcessFeedback
    <3> QED
      BY <3>1, <3>2
  <2> QED
    BY <1>0, <2>1, <2>2, FeedbackFacts
<1>6. CASE ResumePlan
  BY <1>6 DEF ResumePlan, Set, InState
<1>7. CASE ~(AddPhase \/ ApplyFails \/ BeginWait \/ Check \/ (\E n \in Node : ProcessFeedback(n))
             \/ ResumePlan)
  <2>1. \/ ApplyStep \/ DisableAfterPhase \/ DisableAfterPhaseFails \/ RestoreBackedUpTasks
        \/ NextPhase \/ EndPlan \/ NeighbourWrites
        \/ (\E n \in Node : AgentStarts(n)) \/ (\E n \in Node : AgentEnds(n))
        \/ UNCHANGED vars
    BY <1>7 DEF Next, Worker
  <2>2. state' = state
    BY <2>1 DEF ApplyStep, DisableAfterPhase, DisableAfterPhaseFails, RestoreBackedUpTasks,
                NextPhase, EndPlan, NeighbourWrites, AgentStarts, AgentEnds, vars
  <2> QED
    BY <2>2
<1> QED
  BY <1>1, <1>2, <1>3, <1>4, <1>5, <1>6, <1>7

LEMMA OldKept ==
    ASSUME OutcomeInv, OldSuccessful, [Next]_vars
    PROVE  OldSuccessful'
<1>1. \A t \in Old : t \in Task /\ t \notin Current
  BY CurrentFacts, PuppetAssumption DEF OutcomeInv, Old
<1>2. \A t \in Old : state'[t] = state[t]
  BY <1>1, OnlyCurrent
<1> QED
  BY <1>2 DEF OldSuccessful

LEMMA InitKept == Init => KeptInv
<1> SUFFICES ASSUME Init PROVE KeptInv
  OBVIOUS
<1>1. OutcomeInv
  BY InitOutcome
<1>2. OldSuccessful
  BY PuppetAssumption DEF Init, OldSuccessful, Old
<1>3. Before = {}
  BY DEF Init, Before
<1>4. FirstRun
  BY <1>3, PuppetAssumption DEF Init, FirstRun
<1>5. AllCovered
  BY DEF Init, AllCovered, Covered
<1>6. runs = 1 /\ pc = "start"
  BY DEF Init
<1> QED
  BY <1>1, <1>2, <1>4, <1>5, <1>6 DEF KeptInv, FirstKept

(* Steps inside a phase, which neither persist nor back up anything *)
LEMMA InsideKept ==
    ASSUME OutcomeInv, FirstKept, [Next]_vars, Inside, Inside',
           UNCHANGED <<persisted, backup, plan, phase>>
    PROVE  FirstKept'
<1>1. TypeOK /\ FirstRun /\ Current' = Current /\ Before' = Before
  BY DEF OutcomeInv, FirstKept, Current, Before
<1>2. pc \notin {"start", "ended"} /\ pc' \notin {"start", "ended"}
  BY DEF Inside, Working
<1>3. \A t \in Before : state'[t] = state[t]
  BY <1>1, BeforeFacts, OnlyCurrent
<1>4. FirstRun'
  BY <1>1, <1>2, <1>3 DEF FirstRun
<1>5. AllCovered
  BY <1>2 DEF FirstKept, Ordinary
<1>6. AllCovered'
  BY <1>1, <1>2, <1>5 DEF AllCovered, Covered, Inside
<1> QED
  BY <1>2, <1>4, <1>6 DEF FirstKept

LEMMA SameKept ==
    ASSUME FirstKept, UNCHANGED <<persisted, backup, state, plan, phase, pc, result>>
    PROVE  FirstKept'
<1>1. Before' = Before /\ Current' = Current /\ FailedPersisted' = FailedPersisted
  BY DEF Before, Current, FailedPersisted
<1>2. FirstRun'
  BY <1>1 DEF FirstKept, FirstRun
<1>3. Ordinary' <=> Ordinary
  BY <1>1 DEF Ordinary, NoneStopped
<1>4. AllCovered => AllCovered'
  BY <1>1 DEF AllCovered, Covered, Inside, Working
<1> QED
  BY <1>1, <1>2, <1>3, <1>4 DEF FirstKept

LEMMA AddPhaseKept ==
    ASSUME OutcomeInv, FirstKept, [Next]_vars, AddPhase
    PROVE  FirstKept'
<1>1. TypeOK /\ OnNodes /\ FirstRun /\ Current' = Current /\ Before' = Before
  BY DEF OutcomeInv, FirstKept, Current, Before, AddPhase
<1>2. /\ pc = "start" /\ pc' = "apply"
      /\ persisted' = [n \in Node |-> Added(n)]
      /\ backup' = [t \in Task |-> IF t \in Current THEN backup[t] \cup ReplacedBy(t) ELSE backup[t]]
  BY DEF AddPhase
<1>3. /\ Current \subseteq Task /\ NodeOf \in [Task -> Node]
      /\ Before \subseteq Task /\ \A t \in Before : t \notin Current
      /\ \A n \in Node : persisted[n] \subseteq Task /\ OfNode(persisted[n], n)
  BY <1>1, CurrentFacts, BeforeFacts, PuppetAssumption DEF TypeOK, OnNodes
<1>4. \A t \in Before : state'[t] = "success"
  BY <1>1, <1>3, OnlyCurrent DEF FirstRun
<1>5. \A n \in Node : persisted[n] \subseteq Persisted[n] \cup Before
  BY <1>1, <1>2 DEF FirstRun
<1>6. \A t \in Current : \A s \in ReplacedBy(t) : s \notin Before
  BY <1>1, <1>3, BeforeFacts DEF ReplacedBy, OfNode
<1>7. \A n \in Node : Added(n) \subseteq Persisted[n] \cup Before \cup Current
  BY <1>5 DEF Added
<1>8. \A t \in Current : ReplacedBy(t) \subseteq Old
  BY <1>3, <1>5, <1>6 DEF ReplacedBy, Old
<1>9. \A t \in Task : backup'[t] \subseteq Old
  BY <1>1, <1>2, <1>8 DEF FirstRun
<1>10. FirstRun'
  BY <1>1, <1>2, <1>4, <1>7, <1>9 DEF FirstRun
<1>11. ASSUME NEW n \in Node, NEW o \in Persisted[n] PROVE Covered(n, o)'
  <2>1. Covered(n, o)
    BY <1>2 DEF FirstKept, Ordinary, AllCovered
  <2>2. o \in persisted[n] \/ \E t \in persisted[n] \cap Before : Replacing(o, t)
    BY <1>2, <2>1 DEF Covered, Inside, Working
  <2>3. persisted'[n] = Added(n)
    BY <1>2
  <2>4. \A x \in persisted[n] : x \in Added(n) \/ \E t \in Current : NodeOf[t] = n /\ x \in ReplacedBy(t)
    BY DEF Added
  <2>5. \A t \in Current : NodeOf[t] = n => t \in Added(n)
    BY DEF Added
  <2>6. CASE o \in Added(n)
    BY <2>3, <2>6 DEF Covered
  <2>7. CASE \E t \in Current : NodeOf[t] = n /\ o \in ReplacedBy(t)
    <3>1. PICK t \in Current : NodeOf[t] = n /\ o \in ReplacedBy(t)
      BY <2>7
    <3>2. t \in persisted'[n] \cap Current' /\ o \in backup'[t]
      BY <1>1, <1>2, <1>3, <2>3, <2>5, <3>1
    <3>3. Replacing(o, t)
      BY <3>1 DEF Replacing, ReplacedBy
    <3>4. Inside'
      BY <1>2 DEF Inside, Working
    <3> QED
      BY <3>2, <3>3, <3>4 DEF Covered, Replacing
  <2>8. CASE \E t \in persisted[n] \cap Before : Replacing(o, t)
    <3>1. PICK t \in persisted[n] \cap Before : Replacing(o, t)
      BY <2>8
    <3>2. t \in Added(n)
      BY <1>6, <2>4, <3>1
    <3> QED
      BY <1>1, <2>3, <3>1, <3>2 DEF Covered, Replacing
  <2> QED
    BY <2>2, <2>4, <2>6, <2>7, <2>8
<1> QED
  BY <1>2, <1>10, <1>11 DEF FirstKept, AllCovered

(* restore_backed_up_tasks puts back what failed tasks had taken the place of. *)
LEMMA RestoreKept ==
    ASSUME OutcomeInv, OldSuccessful, FirstKept, RestoreBackedUpTasks
    PROVE  FirstKept'
<1>1. /\ TypeOK /\ OnNodes /\ RunningCurrent /\ ManagerCurrent /\ FirstRun
      /\ Current' = Current /\ Before' = Before
  BY DEF OutcomeInv, PhaseInv, FirstKept, Current, Before, RestoreBackedUpTasks
<1>2. /\ pc = "restore" /\ pc' = "ended" /\ state' = state /\ result' = result
      /\ persisted' = [n \in Node |-> IF n \in pm.processing THEN Restored(n) ELSE persisted[n]]
      /\ backup' = [t \in Task |-> {}]
  BY DEF RestoreBackedUpTasks
<1>3. /\ Current \subseteq Task /\ NodeOf \in [Task -> Node] /\ Before \subseteq Task
      /\ \A n \in Node : persisted[n] \subseteq Task /\ OfNode(persisted[n], n)
      /\ \A t \in Task : OfNode(backup[t], NodeOf[t]) /\ backup[t] \subseteq Old
      /\ state \in [Task -> TaskState]
  BY <1>1, CurrentFacts, BeforeFacts, PuppetAssumption DEF TypeOK, OnNodes, FirstRun, TaskState
<1>4. \A o \in Old : o \in Task /\ o \in Persisted[NodeOf[o]] /\ state[o] = "success"
  BY PuppetAssumption DEF Old, OldSuccessful
<1>5. \A n \in Node : persisted[n] \subseteq Persisted[n] \cup Before \cup Current
  BY <1>1, <1>2 DEF FirstRun
<1>6. \A n \in Node : \A x \in Restored(n) :
          \/ x \in persisted[n] /\ state[x] # "failed"
          \/ \E t \in persisted[n] : x \in backup[t]
  BY DEF Restored
<1>7. \A n \in Node : \A t \in persisted[n] :
          /\ state[t] # "failed" => t \in Restored(n)
          /\ state[t] = "failed" => backup[t] \subseteq Restored(n)
  BY DEF Restored
<1>8. \A n \in Node : persisted'[n] = IF n \in pm.processing THEN Restored(n) ELSE persisted[n]
  BY <1>2
<1>9. \A t \in Current : NodeOf[t] \in pm.processing
  BY <1>1, <1>2 DEF ManagerCurrent
<1>10. \A n \in Node : \A t \in persisted[n] : \A x \in backup[t] : x \in Persisted[n] /\ x \in Old
  BY <1>3, <1>4 DEF OfNode
<1>11. \A n \in Node : persisted'[n] \subseteq Persisted[n] \cup Before \cup Current
  BY <1>5, <1>6, <1>8, <1>10
<1>12. FirstRun'
  BY <1>1, <1>2, <1>11 DEF FirstRun
<1>13. FailedPersisted' = {}
  <2> SUFFICES ASSUME NEW n \in Node, NEW t \in persisted'[n], state[t] = "failed" PROVE FALSE
    BY <1>2 DEF FailedPersisted
  <2>1. CASE n \in pm.processing
    <3>1. t \in Old \/ state[t] # "failed"
      BY <1>6, <1>8, <1>10, <2>1
    <3> QED
      BY <1>4, <3>1
  <2>2. CASE n \notin pm.processing
    <3>1. t \in persisted[n]
      BY <1>8, <2>2
    <3>2. t \notin Current
      BY <1>3, <1>9, <2>2, <3>1 DEF OfNode
    <3>3. t \in Old \/ t \in Before
      BY <1>5, <3>1, <3>2 DEF Old
    <3> QED
      BY <1>1, <1>4, <3>3 DEF FirstRun
  <2> QED
    BY <2>1, <2>2
<1>14. ASSUME Ordinary' PROVE AllCovered'
  <2>1. \A t \in Current : state[t] = "failed" \/ state[t] = "success"
    <3>1. \A t \in Current : state[t] # "stopped"
      BY <1>1, <1>2, <1>14 DEF Ordinary, NoneStopped
    <3>2. \A t \in Current : state[t] # "initial" /\ state[t] # "running"
      BY <1>1, <1>2, <1>3 DEF RunningCurrent, Working, Running, InState
    <3> QED
      BY <1>3, <3>1, <3>2 DEF TaskState
  <2>2. ASSUME NEW n \in Node, NEW o \in Persisted[n] PROVE Covered(n, o)'
    <3>1. Covered(n, o)
      BY <1>2 DEF FirstKept, Ordinary, AllCovered
    <3>2. \A t \in persisted[n] : state[t] # "failed" => t \in persisted'[n]
      BY <1>7, <1>8
    <3>3. CASE o \in persisted[n]
      <4>1. state[o] # "failed"
        BY <1>4 DEF Old
      <4> QED
        BY <3>2, <3>3, <4>1 DEF Covered
    <3>4. CASE \E t \in persisted[n] \cap Before : Replacing(o, t)
      <4>1. PICK t \in persisted[n] \cap Before : Replacing(o, t)
        BY <3>4
      <4>2. t \in persisted'[n] \cap Before'
        BY <1>1, <3>2, <4>1 DEF FirstRun
      <4> QED
        BY <4>1, <4>2 DEF Covered, Replacing
    <3>5. CASE \E t \in persisted[n] \cap Current : Replacing(o, t) /\ o \in backup[t]
      <4>1. PICK t \in persisted[n] \cap Current : Replacing(o, t) /\ o \in backup[t]
        BY <3>5
      <4>2. NodeOf[t] = n /\ n \in pm.processing
        BY <1>3, <1>9, <4>1 DEF OfNode
      <4>3. CASE state[t] = "failed"
        <5>1. o \in persisted'[n]
          BY <1>7, <1>8, <4>1, <4>2, <4>3
        <5> QED
          BY <5>1 DEF Covered
      <4>4. CASE state[t] = "success"
        <5>1. t \in persisted'[n] \cap Current' /\ state'[t] = "success"
          BY <1>1, <1>2, <3>2, <4>1, <4>4
        <5> QED
          BY <1>2, <4>1, <5>1 DEF Covered, Replacing
      <4> QED
        BY <2>1, <4>1, <4>3, <4>4
    <3> QED
      BY <1>2, <3>1, <3>3, <3>4, <3>5 DEF Covered
  <2> QED
    BY <2>2 DEF AllCovered
<1> QED
  BY <1>12, <1>13, <1>14 DEF FirstKept

LEMMA NextPhaseKept ==
    ASSUME OutcomeInv, FirstKept, NextPhase
    PROVE  FirstKept'
<1>1. TypeOK /\ OkMeansSuccess /\ FirstRun
  BY DEF OutcomeInv, PhaseInv, FirstKept
<1>2. /\ pc = "ended" /\ result = "ok" /\ pc' = "start" /\ phase' = phase + 1
      /\ UNCHANGED <<plan, state, persisted, backup>>
  BY DEF NextPhase
<1>3. \A t \in Current : state[t] = "success"
  BY <1>1, <1>2 DEF OkMeansSuccess
<1>4. Before' = Before \cup Current
  <2>1. phase \in Nat /\ phase > 0
    BY <1>1, CurrentFacts
  <2>2. \A i : i \in 1..(phase' - 1) <=> i \in 1..(phase - 1) \/ i = phase
    BY <1>2, <2>1
  <2> QED
    BY <1>2, <2>2 DEF Before, Current
<1>5. FirstRun'
  BY <1>1, <1>2, <1>3, <1>4 DEF FirstRun
<1>6. AllCovered
  BY <1>2, <1>3 DEF FirstKept, Ordinary, NoneStopped
<1>7. AllCovered'
  <2> SUFFICES ASSUME NEW n \in Node, NEW o \in Persisted[n] PROVE Covered(n, o)'
    BY DEF AllCovered
  <2>1. Covered(n, o)
    BY <1>6 DEF AllCovered
  <2>2. o \in persisted[n] \/ \E t \in persisted[n] \cap (Before \cup Current) : Replacing(o, t)
    BY <2>1 DEF Covered
  <2> QED
    BY <1>2, <1>4, <2>2 DEF Covered, Replacing
<1> QED
  BY <1>2, <1>5, <1>7 DEF FirstKept

LEMMA NextKept ==
    ASSUME MixedCase = {}, KeptInv, [Next]_vars
    PROVE  KeptInv'
<1>0. OutcomeInv /\ OldSuccessful /\ runs > 0 /\ runs \in Nat /\ TypeOK
  BY DEF KeptInv, OutcomeInv, TypeOK
<1>1. OutcomeInv' /\ OldSuccessful'
  BY <1>0, NextOutcome, OldKept
<1>2. CASE ResumePlan
  <2>1. runs' = runs + 1
    BY <1>2 DEF ResumePlan
  <2>2. runs' > 0 /\ runs' # 1
    BY <1>0, <2>1
  <2> QED
    BY <1>1, <2>2 DEF KeptInv
<1>3. CASE ~ResumePlan
  <2>1. runs' = runs
    <3>1. Worker \/ NeighbourWrites \/ (\E n \in Node : AgentStarts(n) \/ AgentEnds(n)) \/ UNCHANGED vars
      BY <1>3 DEF Next
    <3>2. CASE Worker
      BY <3>2 DEF Worker, AddPhase, ApplyStep, ApplyFails, BeginWait, Check, ProcessFeedback,
                  DisableAfterPhase, DisableAfterPhaseFails, RestoreBackedUpTasks, NextPhase,
                  EndPlan, work
    <3>3. CASE NeighbourWrites \/ (\E n \in Node : AgentStarts(n) \/ AgentEnds(n)) \/ UNCHANGED vars
      BY <3>3 DEF NeighbourWrites, AgentStarts, AgentEnds, vars, work
    <3> QED
      BY <3>1, <3>2, <3>3
  <2>2. SUFFICES ASSUME runs = 1, pc' # "over" PROVE FirstKept'
    BY <1>0, <1>1, <2>1 DEF KeptInv
  <2>3. pc # "over"
    <3>1. CASE Worker
      BY <3>1 DEF Worker, AddPhase, ApplyStep, ApplyFails, BeginWait, Check, ProcessFeedback,
                  DisableAfterPhase, DisableAfterPhaseFails, RestoreBackedUpTasks, NextPhase,
                  EndPlan
    <3>2. CASE NeighbourWrites \/ (\E n \in Node : AgentStarts(n) \/ AgentEnds(n)) \/ UNCHANGED vars
      BY <2>2, <3>2 DEF NeighbourWrites, AgentStarts, AgentEnds, vars, work
    <3> QED
      BY <1>3, <3>1, <3>2 DEF Next
  <2>4. FirstKept
    BY <2>2, <2>3 DEF KeptInv
  <2>5. CASE AddPhase
    BY <1>0, <2>4, <2>5, AddPhaseKept
  <2>6. CASE ApplyStep \/ BeginWait \/ Check \/ (\E n \in Node : ProcessFeedback(n)) \/ DisableAfterPhase
    <3>1. UNCHANGED <<persisted, backup, plan, phase>>
      BY <2>6 DEF ApplyStep, BeginWait, Check, ProcessFeedback, DisableAfterPhase, work
    <3>2. pc \in {"apply", "feedback", "check", "disable"}
      BY <2>6 DEF ApplyStep, BeginWait, Check, ProcessFeedback, DisableAfterPhase
    <3>3. pc' \in {"apply", "feedback", "check", "disable", "restore"}
      <4>1. CASE ApplyStep \/ DisableAfterPhase
        BY <4>1 DEF ApplyStep, DisableAfterPhase, work
      <4>2. CASE BeginWait
        BY <1>0, <4>2, BeginWaitFacts, ContinueFacts DEF TypeOK, TaskState
      <4>3. CASE Check
        BY <1>0, <4>3, CheckFacts, ContinueFacts
      <4>4. CASE \E n \in Node : ProcessFeedback(n)
        BY <1>0, <4>4, FeedbackFacts
      <4> QED
        BY <2>6, <4>1, <4>2, <4>3, <4>4
    <3>4. Inside /\ Inside'
      BY <3>2, <3>3 DEF Inside, Working
    <3> QED
      BY <1>0, <2>4, <3>1, <3>4, InsideKept
  <2>7. CASE ApplyFails \/ DisableAfterPhaseFails
    <3>1. /\ UNCHANGED <<persisted, backup, plan, phase>>
          /\ pc \in {"apply", "disable"} /\ pc' = "ended" /\ result' = "mco"
      BY <2>7 DEF ApplyFails, DisableAfterPhaseFails
    <3>2. Before' = Before /\ Current' = Current
      BY <3>1 DEF Before, Current
    <3>3. \A t \in Before : state'[t] = state[t]
      BY <1>0, BeforeFacts, OnlyCurrent
    <3>4. FirstRun'
      BY <2>4, <3>1, <3>2, <3>3 DEF FirstKept, FirstRun
    <3>5. ~Ordinary'
      BY <3>1 DEF Ordinary
    <3> QED
      BY <3>4, <3>5 DEF FirstKept
  <2>8. CASE RestoreBackedUpTasks
    BY <1>0, <2>4, <2>8, RestoreKept
  <2>9. CASE NextPhase
    BY <1>0, <2>4, <2>9, NextPhaseKept
  <2>10. CASE EndPlan
    BY <2>2, <2>10 DEF EndPlan
  <2>11. CASE NeighbourWrites \/ (\E n \in Node : AgentStarts(n) \/ AgentEnds(n)) \/ UNCHANGED vars
    <3>1. UNCHANGED <<persisted, backup, state, plan, phase, pc, result>>
      BY <2>11 DEF NeighbourWrites, AgentStarts, AgentEnds, vars, work
    <3> QED
      BY <2>4, <3>1, SameKept
  <2> QED
    BY <1>3, <2>5, <2>6, <2>7, <2>8, <2>9, <2>10, <2>11 DEF Next, Worker
<1> QED
  BY <1>2, <1>3

(* After the first execution of each phase of a plan, however its tasks have fared: no
   failed task is left among the persisted ones, and whatever earlier plans configured on
   a node is persisted still unless a task that succeeded has taken its place. *)
THEOREM EarlierConfigurationKept ==
    ASSUME MixedCase = {}
    PROVE  Spec => []LastGoodKept
<1>1. ASSUME KeptInv, OrdinaryEnd
      PROVE  /\ FailedPersisted = {}
             /\ \A n \in Node : \A o \in Persisted[n] : \E t \in persisted[n] :
                   t = o \/ (state[t] = "success" /\ Key[o] \in Taken(t))
  <2>1. pc = "ended" /\ runs = 1 /\ result # "mco" /\ \A t \in Task : state[t] # "stopped"
    BY <1>1 DEF OrdinaryEnd, InState
  <2>2. FirstKept /\ TypeOK
    BY <1>1, <2>1 DEF KeptInv, OutcomeInv
  <2>3. Ordinary
    BY <2>1, <2>2, CurrentFacts DEF Ordinary, NoneStopped
  <2>4. FailedPersisted = {} /\ AllCovered /\ FirstRun
    BY <2>1, <2>2, <2>3 DEF FirstKept
  <2>5. ASSUME NEW n \in Node, NEW o \in Persisted[n]
        PROVE  \E t \in persisted[n] : t = o \/ (state[t] = "success" /\ Key[o] \in Taken(t))
    <3>1. Covered(n, o)
      BY <2>4 DEF AllCovered
    <3>2. ~Inside
      BY <2>1 DEF Inside, Working
    <3> QED
      BY <2>4, <3>1, <3>2 DEF Covered, Replacing, FirstRun
  <2> QED
    BY <2>4, <2>5
<1>2. KeptInv => LastGoodKept
  BY <1>1 DEF LastGoodKept
<1>3. KeptInv /\ [Next]_vars => KeptInv'
  BY NextKept
<1> QED
  BY <1>2, <1>3, InitKept, PTL DEF Spec
===============================================================================
