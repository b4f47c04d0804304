----------------------------- MODULE PuppetPhase -----------------------------
(***************************************************************************)
(* One worker executing the config phases of a plan with Puppet: the       *)
(* PuppetManager (core/puppet_manager.py), the commands it sends over      *)
(* MCollective (core/rpc_commands.py) and the reports it reads from        *)
(* PuppetDB (core/puppetdb_api.py), beside Puppet agents that run on their *)
(* own and a neighbour: a worker executing a phase of other nodes.         *)
(***************************************************************************)
EXTENDS Integers, SequencesExt

CONSTANTS
    Node,           \* hostnames, MS among them
    MS,             \* the management server
    Task,           \* ConfigTasks, those persisted by earlier plans among them
    NodeOf,         \* task -> its node
    Key,            \* task -> its (call_type, call_id)
    Replaces,       \* task -> keys it replaces
    Transient,      \* tasks that are not persisted once they have succeeded
    Plans,          \* plans: sequences of sets of tasks, the config phases
    Persisted,      \* node -> the tasks persisted by earlier plans
    MixedCase,      \* nodes whose hostname is not in lower case
    McoErrors,      \* may MCollective commands fail?
    Faults,         \* subset of {"query", "events", "taskless", "stop"}
    Timeout,        \* iterations of wait_for_phase
    PollCount,      \* polls without a live Puppet
    TasklessRetries,\* PUPPET_TASKLESS_FAILURE_RETRIES
    MaxVersion,     \* bound on the neighbour's increments of the version
    MaxReports,     \* bound on the reports of a node
    MaxRuns         \* plan -> bound on its executions, the first included

NoFile == {"no file"}

Old == UNION {Persisted[n] : n \in Node}

(* The keys whose tasks a task takes the place of *)
Taken(t) == {Key[t]} \cup Replaces[t]

ASSUME PuppetAssumption ==
    /\ MS \in Node /\ MixedCase \subseteq Node /\ Transient \subseteq Task
    /\ Task \cap NoFile = {}
    /\ NodeOf \in [Task -> Node]
    /\ Persisted \in [Node -> SUBSET Task]
    /\ \A n \in Node : \A t \in Persisted[n] : NodeOf[t] = n
    /\ Plans \subseteq Seq(SUBSET (Task \ Old)) \ {<<>>}
    /\ \A p \in Plans : \A i, j \in DOMAIN p : i # j => p[i] \cap p[j] = {}
    \* _validate_task_replaces and _check_duplicated_tasks, when a plan is created
    /\ \A p \in Plans : \A t, u \in UNION ToSet(p) :
          t # u /\ NodeOf[t] = NodeOf[u] => Taken(t) \cap Taken(u) = {}
    /\ McoErrors \in BOOLEAN
    /\ Faults \subseteq {"query", "events", "taskless", "stop"}
    /\ {Timeout, PollCount, TasklessRetries, MaxVersion, MaxReports} \subseteq Nat
    /\ MaxRuns \in [Plans -> Nat]

VARIABLES
    state,      \* task -> its state
    persisted,  \* node -> its persisted tasks
    backup,     \* _task_backup: task -> tasks it has taken the place of
    manifest,   \* node -> tasks of its manifest, or NoFile
    version,    \* litp_config_version
    agent,      \* node -> its Puppet agent
    reports,    \* node -> reports in PuppetDB
    resources,  \* node -> tasks of its last catalog in PuppetDB
    pm,         \* the fields of the PuppetManager and the locals of wait_for_phase
    plan, pc, phase, result, runs,
    enforced    \* tasks that some Puppet run has enforced

puppet == <<agent, reports, resources, enforced>>
work == <<plan, pc, phase, result, runs>>
vars == <<state, persisted, backup, manifest, version, puppet, pm, work>>

(* A report older than the manifests of the phase, which is all that matters of it. *)
OldReport == [ver |-> 0, ok |-> {}, bad |-> {}, taskless |-> FALSE]
Idle == [enabled |-> TRUE, applying |-> FALSE, catalog |-> {}, ver |-> 0]

Init ==
    /\ state = [t \in Task |-> IF t \in Old THEN "success" ELSE "initial"]
    /\ persisted = Persisted
    /\ backup = [t \in Task |-> {}]
    /\ manifest = [n \in Node |-> IF Persisted[n] = {} THEN NoFile ELSE Persisted[n]]
    /\ version = 0
    /\ agent = [n \in Node |-> Idle]
    /\ reports = [n \in Node |-> {OldReport}]
    /\ resources = Persisted
    /\ pm = [tasks |-> {}, reported |-> {}, processed |-> {}, processing |-> {},
             complete |-> FALSE, success |-> FALSE, version |-> 0, waiting |-> {}, todo |-> {},
             timeout |-> 0, polls |-> 0, retries |-> 0, steps |-> <<>>]
    /\ plan \in Plans /\ pc = "start" /\ phase = 1 /\ result = "none" /\ runs = 1
    /\ enforced = Old

-----------------------------------------------------------------------------
(* The phase begins *)

Current == plan[phase]
InState(S, s) == {t \in S : state[t] = s}
Set(S, s) == [t \in Task |-> IF t \in S THEN s ELSE state[t]]
(* Mutant: a task that runs has run. *)
HasStarted(t) == state[t] # "initial"

HasRun(t) == state[t] \notin {"initial", "running"}

(* add_phase: the persisted tasks of a node that a task of the phase takes the place of
   are backed up.  The order of the tasks in a manifest is left out. *)
ReplacedBy(t) == {s \in persisted[NodeOf[t]] : Key[s] \in Taken(t)}
Added(n) ==
    LET new == {t \in Current : NodeOf[t] = n}
    IN  (persisted[n] \ UNION {ReplacedBy(t) : t \in new}) \cup new

(* The hosts of tasks that are to be applied: MS alone when there are none. *)
Steps(running) ==
    LET hosts == {NodeOf[t] : t \in running}
        nodes == hosts \ {MS}
        on(op, S) == [op |-> op, hosts |-> S]
        before(S) == <<on("disable", S), on("kill", S), on("clean", S), on("write", S),
                       on("cache", {MS})>>
        apply(S) == <<on("enable", S), on("runonce", S)>>
    IN  IF MS \in hosts /\ nodes # {}
        THEN before(hosts) \o apply(nodes) \o apply({MS})
        ELSE LET S == IF nodes = {} THEN {MS} ELSE nodes IN before(S) \o apply(S)

(* _run_puppet_phase up to apply_nodes.  A stop that arrives between the check of the
   worker and on_puppet_phase_start stops the tasks. *)
AddPhase ==
    /\ pc = "start"
    /\ persisted' = [n \in Node |-> Added(n)]
    /\ backup' = [t \in Task |-> IF t \in Current THEN backup[t] \cup ReplacedBy(t) ELSE backup[t]]
    /\ \E s \in {"running"} \cup (IF "stop" \in Faults THEN {"stopped"} ELSE {}) :
          /\ state' = Set(Current, s)
          /\ pm' = [pm EXCEPT !.tasks = Current, !.complete = FALSE,
                              !.processed = {},
                              !.processing = {NodeOf[t] : t \in Current},
                              !.steps = Steps(IF s = "running" THEN Current ELSE {})]
    /\ pc' = "apply"
    /\ UNCHANGED <<manifest, version, puppet, plan, phase, result, runs>>

-----------------------------------------------------------------------------
(* Commands *)

(* What a command does on the hosts of S.  A catalog is compiled when a run starts. *)
Command(op, S) ==
    [n \in Node |->
        IF n \notin S THEN agent[n]
        ELSE CASE op = "disable" -> [agent[n] EXCEPT !.enabled = FALSE]
               [] op = "enable" -> [agent[n] EXCEPT !.enabled = TRUE]
               [] op = "kill" -> [Idle EXCEPT !.enabled = agent[n].enabled]
               [] op = "runonce" /\ agent[n].enabled /\ ~agent[n].applying ->
                    [agent[n] EXCEPT !.applying = TRUE, !.catalog = manifest[n], !.ver = version]
               [] OTHER -> agent[n]]

Compiled(S) == [n \in Node |-> IF n \in S /\ agent'[n].applying /\ ~agent[n].applying
                               THEN manifest[n] ELSE resources[n]]

(* _write_templates: the manifests of hosts; the empty ones that it gives to new nodes are
   left out.  The version is written last; from then on all reports are old. *)
WriteTemplates(hosts) ==
    /\ manifest' = [n \in Node |-> IF n \in hosts THEN persisted[n] ELSE manifest[n]]
    /\ version' = version + 1
    /\ reports' = [n \in Node |-> {OldReport}]
    /\ pm' = [pm EXCEPT !.version = version + 1, !.steps = Tail(@)]

(* A step of _apply_nodes goes well: run_puppet has an answer of every host. *)
ApplyStep ==
    /\ pc = "apply" /\ pm.steps # <<>>
    /\ LET step == Head(pm.steps)
       IN  /\ agent' = Command(step.op, step.hosts)
           /\ resources' = Compiled(step.hosts)
           /\ IF step.op = "write" THEN WriteTemplates(step.hosts)
              ELSE pm' = [pm EXCEPT !.steps = Tail(@)] /\ UNCHANGED <<manifest, version, reports>>
    /\ UNCHANGED <<state, persisted, backup, enforced, work>>

AllPersistedSucceeded ==
    LET all == UNION {persisted[n] : n \in Node}
    IN  all # {} /\ \A t \in all : state[t] = "success"

(* A host has not answered before the deadline of run_puppet; the command may have been
   carried out by any of them.  check_mco_result, on_mco_error: the phase fails. *)
ApplyFails ==
    /\ McoErrors
    /\ pc = "apply" /\ pm.steps # <<>>
    /\ Head(pm.steps).op # "write"
    /\ ~AllPersistedSucceeded
    /\ LET step == Head(pm.steps)
       IN  \E done \in SUBSET step.hosts :
             /\ agent' = Command(step.op, done)
             /\ resources' = Compiled(done)
    /\ state' = Set(InState(pm.tasks, "running"), "failed")
    /\ result' = "mco" /\ pc' = "ended"
    /\ UNCHANGED <<persisted, backup, manifest, version, reports, enforced, pm, plan, phase, runs>>

-----------------------------------------------------------------------------
(* wait_for_phase *)

(* The loop condition; if it fails, _finish_wait_for_phase: the tasks that run fail
   only if the time is over. *)
Looping(p) == ~p.complete /\ p.timeout > 0 /\ p.waiting # {}

CompletePhase(p, success) ==
    [p EXCEPT !.success = success, !.tasks = {}, !.reported = {}, !.complete = TRUE]

(* One more iteration, or the end of the wait; s is the state of the tasks. *)
Continue(p, s) ==
    IF Looping(p)
    THEN pm' = [p EXCEPT !.todo = p.processing] /\ state' = s /\ pc' = "feedback" /\ UNCHANGED result
    ELSE LET q == IF p.complete THEN p ELSE CompletePhase(p, FALSE)
             late == IF p.complete \/ p.timeout > 0 THEN {} ELSE {t \in p.tasks : s[t] = "running"}
             end == [t \in Task |-> IF t \in late THEN "failed" ELSE s[t]]
             error == ~q.success \/ \E t \in Current : end[t] \in {"failed", "stopped"}
         IN  /\ pm' = [q EXCEPT !.waiting = {}, !.timeout = 0, !.polls = 0, !.retries = 0]
             /\ state' = end
             /\ result' = IF error THEN "error" ELSE "ok"
             /\ pc' = IF error THEN "restore" ELSE "disable"

BeginWait ==
    /\ pc = "apply" /\ pm.steps = <<>>
    /\ IF \A t \in Current : HasRun(t)
       THEN \* _wait_for_puppet_manager: there is nothing to wait for
            /\ LET error == \E t \in Current : state[t] \in {"failed", "stopped"}
               IN  result' = (IF error THEN "error" ELSE "ok")
                   /\ pc' = (IF error THEN "restore" ELSE "disable")
            /\ UNCHANGED <<state, pm>>
       ELSE Continue([pm EXCEPT !.waiting = {NodeOf[t] : t \in {u \in Current : ~HasRun(u)}},
                                !.timeout = Timeout, !.polls = PollCount,
                                !.retries = TasklessRetries], state)
    /\ UNCHANGED <<persisted, backup, manifest, version, puppet, plan, phase, runs>>

(* Mutant: the report of an earlier run is taken for one of this phase. *)
AnyReport(n) == reports[n]

\* PuppetDbApi._get_reports, check_config_version
GetReports(n) == {r \in reports[n] : r.ver >= pm.version}

(* _query answers with nothing when PuppetDB does not: a query for the reports ... *)
Found(n) == {GetReports(n)} \cup (IF "query" \in Faults THEN {{}} ELSE {})
(* ... or, report by report, for their events *)
Read(found) == {found} \cup (IF "events" \in Faults THEN SUBSET found ELSE {})

(* check_for_feedback: what the reports whose events were read say of tasks.  Resources
   without an event are reported as successful; nothing is known of them when the query
   for them fails. *)
Feedback(n, query, found) ==
    LET bad == UNION {r.bad : r \in found}
        known == bad \cup UNION {r.ok : r \in found}
        silent == IF query /\ \E t \in Current : t \notin known THEN resources[n] \ known ELSE {}
    IN  [ok |-> (known \ bad) \cup silent, bad |-> bad,
         taskless |-> \E r \in found : r.taskless]

(* Mutant: all nodes are asked again at once, however often. *)
TasklessRetry(p, s) == pm' = [p EXCEPT !.todo = p.processing] /\ state' = s

(* FailedTasklessPuppetEvent; s is the state of the tasks. *)
TasklessFailure(p, s) ==
    LET incomplete == {t \in Current : s[t] \in {"initial", "running"}}
        q == [p EXCEPT !.todo = {}]
    IN  IF p.retries > 0
        THEN pm' = [q EXCEPT !.retries = @ - 1] /\ state' = s
        ELSE /\ state' = [t \in Task |-> IF t \in incomplete THEN "failed" ELSE s[t]]
             /\ pm' = IF incomplete = {} THEN q ELSE CompletePhase(q, FALSE)

\* _feedback_to_state
FeedbackToState(success) == IF success THEN "success" ELSE "failed"

(* Mutant: tasks missing from the report keep running. *)
MissingNone(n, reported) == {}

(* The tasks of a node that its report does not mention.  The hostname of the feedback
   is in lower case. *)
Missing(n, reported) ==
    {t \in pm.tasks : NodeOf[t] = n /\ n \notin MixedCase /\ state[t] = "running"} \ reported

(* _process_feedbacks, for one host: _puppet_feedback. *)
ProcessFeedback(n) ==
    /\ pc = "feedback" /\ n \in pm.todo
    /\ \E query \in {TRUE} \cup (IF "query" \in Faults THEN {FALSE} ELSE {}) :
       \E found \in Found(n) : \E read \in Read(found) :
         LET f == Feedback(n, query, read)
             new == (f.ok \cup f.bad) \cap pm.tasks
             changed == {t \in new : state[t] \in {"initial", "running", "failed"}}
             missing == Missing(n, new)
             s == [t \in Task |-> IF t \in changed THEN FeedbackToState(t \in f.ok)
                                  ELSE IF t \in missing THEN "failed" ELSE state[t]]
             p == [pm EXCEPT !.todo = @ \ {n}, !.reported = @ \cup new,
                             !.processed = @ \cup {NodeOf[t] : t \in new}]
         IN  CASE found = {} \/ pm.complete \/ new = {} ->
                    pm' = [pm EXCEPT !.todo = @ \ {n}] /\ UNCHANGED state
               [] found # {} /\ ~pm.complete /\ new # {} /\ f.taskless -> TasklessFailure(p, s)
               [] OTHER ->
                    /\ state' = s
                    /\ pm' = IF p.tasks # p.reported \/ ~(p.processing \subseteq p.processed) THEN p
                             ELSE IF \A t \in p.tasks : s[t] = "success" THEN CompletePhase(p, TRUE)
                             ELSE IF \A t \in p.tasks : s[t] # "running" THEN CompletePhase(p, FALSE)
                             ELSE p
    /\ pc' = IF pm'.todo = {} THEN "check" ELSE "feedback"
    /\ UNCHANGED <<persisted, backup, manifest, version, puppet, plan, phase, result, runs>>

(* _is_puppet_alive: no agent is alive if no node is left to ask or none that is left
   answers. *)
IsPuppetAlive(poll, waiting) == poll = "alive" /\ waiting # {}

(* The rest of an iteration: _puppet_poll, when it is due, and the sleep. *)
Check ==
    /\ pc = "check"
    /\ \E poll \in {"not due", "alive", "dead"} :
         LET p == [pm EXCEPT !.waiting = @ \ pm.processed, !.timeout = @ - 1]
             dead == poll # "not due" /\ ~IsPuppetAlive(poll, p.waiting)
             q == CASE dead -> [p EXCEPT !.polls = @ - 1]
                    [] IsPuppetAlive(poll, p.waiting) -> [p EXCEPT !.polls = PollCount]
                    [] OTHER -> p
         IN  IF pm.complete THEN Continue(pm, state)
             ELSE IF dead /\ q.polls <= 0
             THEN Continue(CompletePhase(q, FALSE), Set(InState(pm.tasks, "running"), "failed"))
             ELSE Continue(q, state)
    /\ UNCHANGED <<persisted, backup, manifest, version, puppet, plan, phase, runs>>

-----------------------------------------------------------------------------
(* The phase ends *)

(* disable_puppet_on_hosts: phase_tasks has been emptied, which leaves MS. *)
DisableHosts ==
    LET nodes == {NodeOf[t] : t \in InState(pm.tasks, "success")}
    IN  IF nodes = {} THEN {MS} ELSE nodes

(* An error of the command is ignored if all the persisted tasks have succeeded. *)
DisableAfterPhase ==
    /\ pc = "disable"
    /\ \E done \in SUBSET DisableHosts :
          /\ done # DisableHosts => McoErrors /\ AllPersistedSucceeded
          /\ agent' = Command("disable", done)
    /\ pc' = "restore"
    /\ UNCHANGED <<state, persisted, backup, manifest, version, reports, resources, enforced, pm,
                   plan, phase, result, runs>>

(* The command fails and the exception leaves _run_puppet_phase: tasks of the neighbour
   are persisted as well, and may be running. *)
DisableAfterPhaseFails ==
    /\ McoErrors
    /\ pc = "disable"
    /\ MaxVersion > 0 \/ ~AllPersistedSucceeded
    /\ \E done \in SUBSET DisableHosts : agent' = Command("disable", done)
    /\ result' = "mco" /\ pc' = "ended"
    /\ UNCHANGED <<state, persisted, backup, manifest, version, reports, resources, enforced, pm,
                   plan, phase, runs>>

(* Mutant: a task that failed goes, what it replaced does not come back. *)
RestoredNothing(n) == {t \in persisted[n] : state[t] # "failed"}

(* restore_backed_up_tasks, for one node *)
Restored(n) ==
    UNION {IF state[t] = "failed" THEN backup[t] ELSE {t} : t \in persisted[n]}

RestoreBackedUpTasks ==
    /\ pc = "restore"
    /\ persisted' = [n \in Node |-> IF n \in pm.processing THEN Restored(n) ELSE persisted[n]]
    /\ backup' = [t \in Task |-> {}]
    /\ pc' = "ended"
    /\ UNCHANGED <<state, manifest, version, puppet, pm, plan, phase, result, runs>>

NextPhase ==
    /\ pc = "ended" /\ result = "ok" /\ phase < Len(plan)
    /\ phase' = phase + 1 /\ pc' = "start" /\ result' = "none"
    /\ UNCHANGED <<plan, state, persisted, backup, manifest, version, puppet, pm, runs>>

\* configtask_removal_selector
Leaves(t) == state[t] = "stopped" \/ (state[t] = "success" /\ t \in Transient)

(* _rewrite_persisted_tasks; the requirements of the tasks that stay are left out *)
Staying == [n \in Node |-> {t \in persisted[n] : ~Leaves(t)}]

(* _check_puppet_status before the manifests are written: an agent may go on running for
   too long *)
Quiet == {TRUE} \cup (IF McoErrors THEN {FALSE} ELSE {})

(* apply_removal, with the tasks that stay: unless a command fails or an agent is not
   quiet in time the manifests are written again and the agents have been stopped. *)
ApplyRemoval(hosts, stay) ==
    \E written \in {IF ok THEN hosts ELSE {} : ok \in Quiet} :
       /\ manifest' = [n \in Node |-> IF n \in written THEN stay[n] ELSE manifest[n]]
       /\ version' = IF written = {} THEN version ELSE version + 1
       /\ agent' = [n \in Node |-> IF n \in written THEN Idle ELSE [agent[n] EXCEPT !.enabled = TRUE]]

(* cleanup: the tasks that leave are removed from the manifests, which are written again
   together with those of failed tasks; Puppet is enabled. *)
EndPlan ==
    LET stay == Staying
        failures == {NodeOf[t] : t \in InState(UNION ToSet(plan), "failed")}
        hosts == failures \cup {n \in Node : stay[n] # persisted[n]}
    IN  /\ pc = "ended" /\ (result # "ok" \/ phase = Len(plan))
        /\ persisted' = stay
        /\ ApplyRemoval(hosts, stay)
        /\ pc' = "over"
        /\ UNCHANGED <<state, backup, reports, resources, enforced, pm, plan, phase, result, runs>>

(* A failed plan is run again: ready_phases.  Another worker has no backup of its own. *)
ResumePlan ==
    /\ pc = "over" /\ result # "ok" /\ runs < MaxRuns[plan]
    /\ \A t \in Task : state[t] # "stopped"
    /\ runs' = runs + 1
    /\ state' = Set(InState(Current, "failed"), "initial")
    /\ \E same \in BOOLEAN : backup' = IF same THEN backup ELSE [t \in Task |-> {}]
    /\ pc' = "start" /\ result' = "none"
    /\ UNCHANGED <<persisted, manifest, version, puppet, pm, plan, phase>>

-----------------------------------------------------------------------------
(* The agents and the neighbour *)

AgentStarts(n) ==
    /\ agent[n].enabled /\ ~agent[n].applying
    /\ manifest[n] # NoFile /\ Cardinality(reports[n]) < MaxReports
    /\ agent' = Command("runonce", {n})
    /\ resources' = Compiled({n})
    /\ UNCHANGED <<state, persisted, backup, manifest, version, reports, enforced, pm, work>>

(* A run ends: resources have failed; the others were changed or were as they should be. *)
AgentEnds(n) ==
    /\ agent[n].applying
    /\ \E bad \in SUBSET agent[n].catalog : \E ok \in {{}, agent[n].catalog \ bad} :
       \E taskless \in {FALSE} \cup (IF "taskless" \in Faults THEN {TRUE} ELSE {}) :
          /\ reports' = [reports EXCEPT ![n] = @ \cup
                {[ver |-> agent[n].ver, ok |-> ok, bad |-> bad, taskless |-> taskless]}]
          /\ enforced' = enforced \cup (agent[n].catalog \ bad)
    /\ agent' = [agent EXCEPT ![n] = [Idle EXCEPT !.enabled = agent[n].enabled]]
    /\ UNCHANGED <<state, persisted, backup, manifest, version, resources, pm, work>>

(* A worker with a phase of other nodes writes its templates. *)
NeighbourWrites ==
    /\ version < MaxVersion
    /\ version' = version + 1
    /\ UNCHANGED <<state, persisted, backup, manifest, puppet, pm, work>>

Worker ==
    \/ AddPhase \/ ApplyStep \/ ApplyFails \/ BeginWait \/ Check
    \/ \E n \in Node : ProcessFeedback(n)
    \/ DisableAfterPhase \/ DisableAfterPhaseFails \/ RestoreBackedUpTasks \/ NextPhase \/ EndPlan

Next ==
    \/ Worker
    \/ ResumePlan
    \/ \E n \in Node : AgentStarts(n) \/ AgentEnds(n)
    \/ NeighbourWrites

Spec == Init /\ [][Next]_vars /\ WF_vars(Worker)

-----------------------------------------------------------------------------
(* Properties *)

Resource == Task \cup NoFile
Report == [ver : Nat, ok : SUBSET Resource, bad : SUBSET Resource, taskless : BOOLEAN]
Agent == [enabled : BOOLEAN, applying : BOOLEAN, catalog : SUBSET Resource, ver : Nat]
Operation == {"disable", "kill", "clean", "write", "cache", "enable", "runonce"}
Step == [op : Operation, hosts : SUBSET Node]
Manager == [tasks : SUBSET Task, reported : SUBSET Task, processed : SUBSET Node,
            processing : SUBSET Node, complete : BOOLEAN, success : BOOLEAN, version : Nat,
            waiting : SUBSET Node, todo : SUBSET Node, timeout : Int, polls : Int,
            retries : Nat, steps : Seq(Step)]

TypeOK ==
    /\ state \in [Task -> {"initial", "running", "success", "failed", "stopped"}]
    /\ persisted \in [Node -> SUBSET Task] /\ backup \in [Task -> SUBSET Task]
    /\ manifest \in [Node -> SUBSET Resource] /\ version \in Nat
    /\ agent \in [Node -> Agent]
    /\ reports \in [Node -> SUBSET Report] /\ resources \in [Node -> SUBSET Resource]
    /\ pm \in Manager
    /\ plan \in Plans /\ phase \in DOMAIN plan /\ runs \in Nat
    /\ pc \in {"start", "apply", "feedback", "check", "disable", "restore", "ended", "over"}
    /\ result \in {"none", "ok", "error", "mco"}
    /\ enforced \subseteq Resource

(* A task is reported successful only after Puppet has enforced it on its node: reports
   of earlier catalogs, of another phase or of a run still going on do not count. *)
SuccessMeansEnforced == \A t \in Task : state[t] = "success" => t \in enforced

(* The outcome wait_for_phase leaves to the coordinator: however the phase ended no task
   is left running, and if it returned no error all its tasks are successful. *)
PhaseOutcome ==
    /\ pc \in {"ended", "over"} => InState(Task, "running") = {}
    /\ pc = "ended" /\ result = "ok" => \A t \in Current : state[t] = "success"

(* The first execution of a phase has ended with feedback of its tasks or for want of
   it: no command has failed and no stop has come late. *)
OrdinaryEnd == pc = "ended" /\ runs = 1 /\ result # "mco" /\ InState(Task, "stopped") = {}

FailedPersisted == {t \in UNION {persisted[n] : n \in Node} : state[t] = "failed"}

(* After such an end no failed task is among the persisted ones, and what an earlier plan
   has configured still is, unless a successful task has taken its place. *)
LastGoodKept ==
    OrdinaryEnd =>
        /\ FailedPersisted = {}
        /\ \A n \in Node : \A o \in Persisted[n] : \E t \in persisted[n] :
              t = o \/ (state[t] = "success" /\ Key[o] \in Taken(t))

(* wait_for_phase comes to an end, whatever Puppet and PuppetDB do. *)
PhaseEnds == (pc = "start") ~> (pc = "ended")
=============================================================================
