--------------------------- MODULE PlanExecution ---------------------------
(***************************************************************************)
(* The execution of a LITP plan (core/execution_manager.py, core/plan.py,  *)
(* core/worker/tasks.py, service/controllers/plan.py).                     *)
(*                                                                         *)
(* Four kinds of process share the plan, task and item rows of the         *)
(* database:                                                               *)
(*   - litpd request threads: create, run, resume, stop and delete the     *)
(*     plan, change the model;                                             *)
(*   - the litpPlan worker (one process): run_plan, here "the              *)
(*     coordinator", which enqueues phases as they become ready;           *)
(*   - the litpTask workers: one run_plan_phase job per enqueued phase;    *)
(*   - the monitor_plan job that celery beat starts every minute, and      *)
(*     litpd's own repair of the plan when the service starts.             *)
(*                                                                         *)
(* A row is read when a session first loads it and written at commit;      *)
(* nothing locks it, and the last commit wins.  An action is the work of   *)
(* one process between two commits that others can observe.                *)
(***************************************************************************)
EXTENDS Integers, FiniteSets

CONSTANTS
    Phase,          \* phase indices of the plan
    Req,            \* BasePlan._required_phases: phase -> phases it waits for
    Kind,           \* phase -> "callback", "config" or "cleanup"
    Task,           \* the tasks of the plan, numbered in plan order
    PhaseOf,        \* task -> the phase it belongs to
    Item,           \* model items the tasks act on
    Acting,         \* item -> the tasks acting on it
    JobSlot,        \* bound: run_plan_phase jobs that exist at one time
    MaxQueue,       \* bound: run_plan messages waiting in queue litp_plan
    Requests,       \* kinds of request the clients issue
    LongRequests,   \* those whose read and commit others may come between
    Patient,        \* clients wait until nothing is left of an earlier run
    Faults          \* kinds of failure of the workers that may occur

NoPhaseJob == "none"    \* no job is awaited
NoTask == -1            \* the job is between two tasks

RequestKind == {"create", "run", "resume", "stop", "delete", "change",
                "shutdown"}
FaultKind == {"job", "coordinator", "service", "restart", "raise"}

ASSUME ShapeAssumption ==
    /\ Phase \subseteq Nat
    /\ Phase # {}
    /\ Req \in [Phase -> SUBSET Phase]
    /\ \A p \in Phase : \A r \in Req[p] : r < p
    /\ Kind \in [Phase -> {"callback", "config", "cleanup"}]
    /\ Task \subseteq Nat
    /\ PhaseOf \in [Task -> Phase]
    /\ \A p \in Phase : \E t \in Task : PhaseOf[t] = p
    /\ Acting \in [Item -> SUBSET Task]

ASSUME EnvironmentAssumption ==
    /\ NoPhaseJob \notin JobSlot
    /\ MaxQueue \in Nat
    /\ Requests \subseteq RequestKind
    /\ LongRequests \subseteq Requests \cap {"create", "stop", "delete", "change"}
    /\ Patient \in BOOLEAN
    /\ Faults \subseteq FaultKind

VARIABLES
    plan,       \* BasePlan._state of the current plan, "none" if there is none
    task,       \* task -> Task.state
    item,       \* item -> ModelItem state
    taskId,     \* BasePlan._celery_task_id: whose run_plan execution it names
    pending,    \* long requests that have read the plan and not yet committed
    queue,      \* number of run_plan messages in queue litp_plan
    pc,         \* where the coordinator is in run_plan
    seen,       \* the plan state run_plan loaded when it started
    toStart,    \* phases returned by ready_phases, not yet enqueued
    active,     \* _active_phases: phase -> job whose result is awaited
    errs,       \* overall_result['errors'] is not empty
    job,        \* the run_plan_phase jobs
    puppet,     \* TRUE unless run_plan has disabled Puppet on the nodes
    backup,     \* the LAST_SUCCESSFUL_PLAN backup of the model exists
    litpd       \* the service is "up", or "down" while it waits in kill_plan

planVars == <<plan, task, item, taskId>>
coordVars == <<pc, seen, toStart, active, errs>>
hostVars == <<puppet, backup, litpd>>
vars == <<plan, task, item, taskId, pending, queue, pc, seen, toStart,
          active, errs, job, puppet, backup, litpd>>

-----------------------------------------------------------------------------

PlanState == {"none", "initial", "running", "stopping", "stopped",
              "failed", "successful", "invalid"}
ActiveState == {"running", "stopping"}
Runnable == {"initial", "failed"}
TaskState == {"Initial", "Running", "Success", "Failed", "Stopped"}
ItemState == {"Initial", "Updated", "Applied"}
PC == {"idle", "disable", "start", "setid", "first", "phases", "clear",
       "end", "backup", "finish"}

(* An element of `job': a slot is free, or holds a message still in queue
   litp_task ("queued"), a job that works through the tasks in `todo' and is
   at task `cur' ("running"), a config job that waits for Puppet ("waiting"),
   or a job that returned, with an error or not ("done"). *)
JobRecord == [st : {"free", "queued", "running", "waiting", "done"},
              phase : Phase, todo : SUBSET Task, cur : Task \cup {NoTask},
              err : BOOLEAN]

FreeJob == [st |-> "free", phase |-> CHOOSE p \in Phase : TRUE,
            todo |-> {}, cur |-> NoTask, err |-> FALSE]

TasksOf(p) == {t \in Task : PhaseOf[t] = p}

(* BasePlan._phase_complete *)
PhaseComplete(ts, p) == \A t \in TasksOf(p) : ts[t] = "Success"

AllPhasesComplete(ts) == \A t \in Task : ts[t] = "Success"

(* Mutant of ReadyAfter: only the next phase of the plan is considered. *)
ReadyNextPhaseOnly(ts, c) ==
    {p \in {c + 1} \cap Phase : \E t \in TasksOf(p) : ts[t] = "Initial"}

(* The phases ready_phases(c) returns for a completed phase c: those that
   wait for c, have a task to run and wait for nothing else. *)
ReadyAfter(ts, c) ==
    {p \in Phase : /\ p > c
                   /\ c \in Req[p]
                   /\ \E t \in TasksOf(p) : ts[t] = "Initial"
                   /\ \A r \in Req[p] : PhaseComplete(ts, r)}

FailedPhases(ts) == {p \in Phase : \E t \in TasksOf(p) : ts[t] = "Failed"}

(* ready_phases(-1) makes the failed tasks runnable again ... *)
ResetFailed(ts) ==
    [t \in Task |-> IF ts[t] = "Failed" THEN "Initial" ELSE ts[t]]

(* Mutant of ReadyAtStart: every phase with something left to do *)
ReadyIfUnfinished(ts) == {p \in Phase : ~PhaseComplete(ts, p)}

(* ... and returns the phases that had failed with those that the successful
   phases make ready.  Only when nothing had failed does it look for every
   phase that can be started. *)
ReadyAtStart(ts) ==
    LET reset == ResetFailed(ts)
    IN  FailedPhases(ts)
        \cup (UNION {ReadyAfter(reset, c) :
                        c \in {p \in Phase : PhaseComplete(ts, p)}})
        \cup {p \in Phase :
                /\ FailedPhases(ts) = {}
                /\ \E t \in TasksOf(p) : reset[t] = "Initial"
                /\ \A r \in Req[p] : PhaseComplete(reset, r)}

(* Mutant: the tasks of jobs that died are left alone. *)
FailRunningNever(ts) == ts

(* _fail_running_tasks; _stop_running_phase_tasks *)
FailRunning(ts) ==
    [t \in Task |-> IF ts[t] = "Running" THEN "Failed" ELSE ts[t]]
StopRunning(ts, p) ==
    [t \in Task |-> IF PhaseOf[t] = p /\ ts[t] = "Running"
                    THEN "Stopped" ELSE ts[t]]

(* Mutant: one successful task is enough. *)
ApplyOnFirstSuccess(its, ts, p) ==
    [i \in Item |->
        IF \E t \in Acting[i] \cap TasksOf(p) : ts[t] = "Success"
        THEN "Applied" ELSE its[i]]

(* _update_item_states for the tasks of phase p: an item becomes Applied when
   all the tasks of the plan that act on it have succeeded. *)
UpdateItemStates(its, ts, p) ==
    [i \in Item |->
        IF /\ Acting[i] \cap TasksOf(p) # {}
           /\ \A t \in Acting[i] : ts[t] = "Success"
        THEN "Applied" ELSE its[i]]

(* Mutants of BasePlan.end(): only failed tasks count; a plan that was asked to
   stop is stopped even if it is complete; it is never stopped. *)
EndUnlessFailed(s, ts) ==
    IF \A t \in Task : ts[t] # "Failed" THEN "successful"
    ELSE IF s = "running" THEN "failed" ELSE "stopped"
EndStoppedIfStopping(s, ts) ==
    IF s = "stopping" THEN "stopped"
    ELSE IF AllPhasesComplete(ts) THEN "successful" ELSE "failed"
EndNeverStopped(s, ts) ==
    IF AllPhasesComplete(ts) THEN "successful"
    ELSE IF s = "running" THEN "failed" ELSE s

(* BasePlan.end() for a plan in state s *)
EndState(s, ts) ==
    IF AllPhasesComplete(ts) THEN "successful"
    ELSE IF s = "running" THEN "failed" ELSE "stopped"

(* The slots a new job can take: the result of a job that has returned is
   forgotten once the coordinator no longer waits for it. *)
FreeSlots == {j \in JobSlot : \/ job[j].st = "free"
                              \/ /\ job[j].st = "done"
                                 /\ \A p \in Phase : active[p] # j}

Live(j) == job[j].st \in {"queued", "running", "waiting"}

Init ==
    /\ plan = "none"
    /\ task = [t \in Task |-> "Initial"]
    /\ item = [i \in Item |-> "Initial"]
    /\ taskId = "none"
    /\ pending = {}
    /\ queue = 0
    /\ pc = "idle"
    /\ seen = "none"
    /\ toStart = {}
    /\ active = [p \in Phase |-> NoPhaseJob]
    /\ errs = FALSE
    /\ job = [j \in JobSlot |-> FreeJob]
    /\ puppet = TRUE
    /\ backup = FALSE
    /\ litpd = "up"

-----------------------------------------------------------------------------
(* Requests to litpd.  A request loads the plan once, decides on what it
   loaded and commits when it ends. *)

(* What the request must find to be accepted: PlanController's validators,
   can_create_plan, BasePlan.stop() and model_changed(). *)
Accepted(k) ==
    CASE k = "create" -> plan \notin ActiveState
      [] k = "delete" -> plan \notin ActiveState \cup {"none"}
      [] k = "stop"   -> plan = "running"
      [] k = "change" -> plan \in Runnable

(* What a patient client waits for before it asks for anything but a stop: no
   run_plan is waiting or executing and no job of a dead one is left. *)
NothingInProgress ==
    /\ queue = 0
    /\ pc = "idle"
    /\ \A j \in JobSlot : ~Live(j)

(* A request that takes long has read the plan ... *)
BeginRequest(k) ==
    /\ litpd = "up"
    /\ k \in LongRequests \ pending
    /\ Accepted(k)
    /\ pending' = pending \cup {k}
    /\ UNCHANGED <<planVars, queue, coordVars, job, hostVars>>

(* ... and commits whatever has happened to the plan since. *)
Commits(k) ==
    /\ litpd = "up"
    /\ \/ k \in pending
       \/ k \in Requests \ LongRequests /\ Accepted(k)
    /\ k = "stop" \/ (Patient => NothingInProgress)
    /\ pending' = pending \ {k}
    /\ UNCHANGED <<queue, coordVars, hostVars>>

(* The rows of the old plan's tasks are deleted: a job that holds them raises at
   its next commit.  A job still queued only holds a phase index. *)
TasksReplaced ==
    /\ task' = [t \in Task |-> "Initial"]
    /\ job' = [j \in JobSlot |->
                  IF job[j].st \in {"running", "waiting"}
                  THEN [job[j] EXCEPT !.st = "done", !.err = TRUE,
                                      !.todo = {}, !.cur = NoTask]
                  ELSE job[j]]

(* create_plan: the plan row and its tasks are replaced.  The plan has tasks
   for every item, so none of the items may be Applied already. *)
CreatePlan ==
    /\ Commits("create")
    /\ \A i \in Item : item[i] # "Applied"
    /\ plan' = "initial"
    /\ TasksReplaced
    /\ taskId' = "none"
    /\ UNCHANGED item

(* The plan setter in the finally block of _create_plan_with_type: when the
   plugins raise, or generate no tasks, the old plan is gone all the same. *)
CreatePlanFails ==
    /\ Commits("create")
    /\ plan' = "none"
    /\ TasksReplaced
    /\ taskId' = "none"
    /\ UNCHANGED item

DeletePlan ==
    /\ Commits("delete")
    /\ plan' = "none"
    /\ TasksReplaced
    /\ taskId' = "none"
    /\ UNCHANGED item

(* stop_plan *)
StopPlan ==
    /\ Commits("stop")
    /\ plan' = IF plan = "none" THEN "none" ELSE "stopping"
    /\ UNCHANGED <<task, item, taskId, job>>

(* ModelItem.update_properties: an item that is Applied or Updated is one or the
   other afterwards, as the new properties are those that were applied or not. *)
UpdateProperties(i) ==
    \E s \in IF item[i] = "Initial" THEN {"Initial"} ELSE {"Applied", "Updated"} :
        item' = [item EXCEPT ![i] = s]

(* update_item while the plan can still be run: model_changed() marks the plan
   invalid. *)
ChangeModel ==
    /\ Commits("change")
    /\ \E i \in Item : UpdateProperties(i)
    /\ plan' = IF plan = "none" THEN "none" ELSE "invalid"
    /\ UNCHANGED <<task, taskId, job>>

(* The same when there is no plan to mark; check_plan_not_running refuses it
   while the plan is active. *)
ChangeModelOnly ==
    /\ litpd = "up"
    /\ "change" \in Requests
    /\ Patient => NothingInProgress
    /\ plan \notin ActiveState \cup Runnable
    /\ \E i \in Item : UpdateProperties(i)
    /\ UNCHANGED <<plan, task, taskId, pending, queue, coordVars, job, hostVars>>

(* update_plan -> nmp_run_validator -> run_plan_background.  The plan keeps its
   state until the coordinator starts, so the request can be repeated. *)
RunPlanBackground ==
    /\ litpd = "up"
    /\ \/ "run" \in Requests /\ plan = "initial"
       \/ "resume" \in Requests /\ plan = "failed"
    /\ Patient => NothingInProgress
    /\ queue < MaxQueue
    /\ queue' = queue + 1
    /\ UNCHANGED <<planVars, pending, coordVars, job, hostVars>>

-----------------------------------------------------------------------------
(* The coordinator: ExecutionManager.run_plan in the litpPlan worker. *)

(* The next message is taken from the queue.  With no plan run_plan raises at
   once.  An active plan can only be the leftover of a worker that died. *)
StartRunPlan ==
    /\ pc = "idle"
    /\ queue > 0
    /\ queue' = queue - 1
    /\ CASE plan = "none" ->
              UNCHANGED <<task, pc, seen, errs, backup>>
         [] plan \in ActiveState ->
              /\ task' = FailRunning(task)
              /\ errs' = TRUE
              /\ pc' = "clear"
              /\ UNCHANGED <<seen, backup>>
         [] OTHER ->
              /\ seen' = plan
              /\ backup' = FALSE
              /\ pc' = "disable"
              /\ UNCHANGED <<task, errs>>
    /\ UNCHANGED <<plan, item, taskId, pending, toStart, active, job, puppet,
                   litpd>>

(* _disable_puppet *)
DisablePuppet ==
    /\ pc = "disable"
    /\ puppet' = FALSE
    /\ pc' = "start"
    /\ UNCHANGED <<planVars, pending, queue, seen, toStart, active, errs, job,
                   backup, litpd>>

(* _run_plan_start: BasePlan.run() decides on the state loaded by StartRunPlan
   and the commit overwrites the state the row has by now.  If run() refuses,
   run_plan returns. *)
RunPlanStart ==
    /\ pc = "start"
    /\ IF seen \in Runnable /\ plan # "none"
       THEN plan' = "running" /\ pc' = "setid"
       ELSE UNCHANGED plan /\ pc' = "finish"
    /\ UNCHANGED <<task, item, taskId, pending, queue, seen, toStart, active,
                   errs, job, hostVars>>

SetCeleryTaskId ==
    /\ pc = "setid"
    /\ IF plan = "none"
       THEN pc' = "clear" /\ errs' = TRUE /\ UNCHANGED taskId
       ELSE pc' = "first" /\ taskId' = "current" /\ UNCHANGED errs
    /\ UNCHANGED <<plan, task, item, pending, queue, seen, toStart, active,
                   job, hostVars>>

(* _run_all_phases up to its first call of _enqueue_ready_phases *)
FirstReadyPhases ==
    /\ pc = "first"
    /\ task' = ResetFailed(task)
    /\ toStart' = ReadyAtStart(task)
    /\ active' = [p \in Phase |-> NoPhaseJob]
    /\ errs' = FALSE
    /\ pc' = "phases"
    /\ UNCHANGED <<plan, item, taskId, pending, queue, seen, job, hostVars>>

(* _run_next_phases: apply_async for one of the ready phases *)
EnqueuePhase(p, j) ==
    /\ pc = "phases"
    /\ p \in toStart
    /\ Kind[p] # "cleanup"
    /\ j \in FreeSlots
    /\ job' = [job EXCEPT ![j] = [st |-> "queued", phase |-> p, todo |-> {},
                                  cur |-> NoTask, err |-> FALSE]]
    /\ active' = [active EXCEPT ![p] = j]
    /\ toStart' = toStart \ {p}
    /\ UNCHANGED <<planVars, pending, queue, pc, seen, errs, hostVars>>

(* ... or the cleanup phase, which the coordinator runs itself. *)
RunCleanupPhase(p) ==
    /\ pc = "phases"
    /\ p \in toStart
    /\ Kind[p] = "cleanup"
    /\ toStart' = toStart \ {p}
    /\ IF plan = "stopping"
       THEN /\ task' = StopRunning(task, p)
            /\ errs' = TRUE
            /\ UNCHANGED item
       ELSE /\ task' = [t \in Task |-> IF PhaseOf[t] = p THEN "Success"
                                                         ELSE task[t]]
            /\ item' = UpdateItemStates(item, task', p)
            /\ UNCHANGED errs
    /\ UNCHANGED <<plan, taskId, pending, queue, pc, seen, active, job, hostVars>>

(* The body of the polling loop of _run_all_phases for a phase whose job has
   returned. *)
CollectPhase(p) ==
    /\ pc = "phases"
    /\ toStart = {}
    /\ active[p] \in JobSlot
    /\ job[active[p]].st = "done"
    /\ active' = [active EXCEPT ![p] = NoPhaseJob]
    /\ item' = IF plan \in ActiveState THEN UpdateItemStates(item, task, p)
                                       ELSE item
    /\ errs' = (errs \/ job[active[p]].err)
    /\ toStart' = IF errs' THEN {} ELSE ReadyAfter(task, p)
    /\ job' = [job EXCEPT ![active[p]] = FreeJob]
    /\ UNCHANGED <<plan, task, taskId, pending, queue, pc, seen, hostVars>>

(* Nothing is awaited any more: the end of _run_all_phases *)
PhasesOver ==
    /\ pc = "phases"
    /\ toStart = {}
    /\ \A p \in Phase : active[p] = NoPhaseJob
    /\ task' = FailRunning(task)
    /\ pc' = "clear"
    /\ UNCHANGED <<plan, item, taskId, pending, queue, seen, toStart, active,
                   errs, job, hostVars>>

(* _run_plan_complete up to plan.end(): _clear_plan sets every item Applied if
   no phase returned an error; Puppet is enabled again. *)
ClearPlan ==
    /\ pc = "clear"
    /\ IF plan = "none"
       THEN pc' = "finish" /\ UNCHANGED <<item, puppet>>
       ELSE /\ pc' = "end"
            /\ puppet' = TRUE
            /\ item' = IF errs THEN item ELSE [i \in Item |-> "Applied"]
    /\ UNCHANGED <<plan, task, taskId, pending, queue, seen, toStart, active,
                   errs, job, backup, litpd>>

(* plan.end(), which raises when the plan is not active *)
EndPlan ==
    /\ pc = "end"
    /\ IF plan \in ActiveState
       THEN /\ plan' = EndState(plan, task)
            /\ pc' = IF errs THEN "finish" ELSE "backup"
       ELSE UNCHANGED plan /\ pc' = "finish"
    /\ UNCHANGED <<task, item, taskId, pending, queue, seen, toStart, active,
                   errs, job, hostVars>>

(* _backup_model_for_restore, _run_plan_success *)
BackupModel ==
    /\ pc = "backup"
    /\ backup' = TRUE
    /\ puppet' = TRUE
    /\ pc' = "finish"
    /\ UNCHANGED <<planVars, pending, queue, seen, toStart, active, errs, job,
                   litpd>>

(* clear_celery_task; the local variables of run_plan are gone *)
FinishRunPlan ==
    /\ pc = "finish"
    /\ taskId' = "none"
    /\ pc' = "idle"
    /\ seen' = "none"
    /\ errs' = FALSE
    /\ UNCHANGED <<plan, task, item, pending, queue, toStart, active, job,
                   hostVars>>

-----------------------------------------------------------------------------
(* The jobs: run_plan_phase in a litpTask worker. *)

JobStep == UNCHANGED <<plan, taskId, item, pending, queue, coordVars, hostVars>>

(* _run_plan_phase_in_worker: the message only holds a phase index, the plan is
   the one the database holds now.  A stopping plan is stopped here; a phase of
   ConfigTasks with a failed task is refused by _run_puppet_phase. *)
StartJob(j) ==
    /\ job[j].st = "queued"
    /\ LET p == job[j].phase
           refused == \/ plan \in {"none", "stopping"}
                      \/ /\ Kind[p] = "config"
                         /\ \E t \in TasksOf(p) : task[t] = "Failed"
           todo == IF Kind[p] = "config" THEN TasksOf(p)
                   ELSE {t \in TasksOf(p) : task[t] # "Success"}
       IN  /\ task' = IF plan = "stopping" THEN StopRunning(task, p) ELSE task
           /\ job' = [job EXCEPT ![j].st = IF refused THEN "done" ELSE "running",
                                 ![j].todo = IF refused THEN {} ELSE todo,
                                 ![j].err = refused]
    /\ JobStep

(* _process_callback_task up to the call of the plugin, for the first task of
   the phase that was not Success when the job loaded the plan *)
StartCallbackTask(j) ==
    /\ job[j].st = "running"
    /\ Kind[job[j].phase] = "callback"
    /\ job[j].cur = NoTask
    /\ \E t \in job[j].todo :
          /\ \A u \in job[j].todo : t <= u
          /\ task' = [task EXCEPT ![t] = "Running"]
          /\ job' = [job EXCEPT ![j].cur = t, ![j].todo = @ \ {t}]
    /\ JobStep

(* The plugin returns, raises, or notices that the plan is not running any more
   (PlanStoppedException).  After a failure the rest of the phase is skipped. *)
EndCallbackTask(j, outcome) ==
    /\ job[j].st = "running"
    /\ job[j].cur \in Task
    /\ outcome = "Stopped" => plan # "running"
    /\ task' = [task EXCEPT ![job[j].cur] = outcome]
    /\ job' = IF outcome = "Success"
              THEN [job EXCEPT ![j].cur = NoTask]
              ELSE [job EXCEPT ![j].cur = NoTask, ![j].todo = {},
                               ![j].st = "done", ![j].err = TRUE]
    /\ JobStep

EndCallbackPhase(j) ==
    /\ job[j].st = "running"
    /\ Kind[job[j].phase] = "callback"
    /\ job[j].cur = NoTask
    /\ job[j].todo = {}
    /\ job' = [job EXCEPT ![j].st = "done", ![j].err = FALSE]
    /\ UNCHANGED task
    /\ JobStep

(* add_phase and apply_nodes: on_puppet_phase_start sets every task of the phase
   that is not Failed to Running, also those that had succeeded, and stops them
   again if the plan is stopping. *)
ApplyConfigPhase(j) ==
    /\ job[j].st = "running"
    /\ Kind[job[j].phase] = "config"
    /\ task' = [t \in Task |->
                  IF t \in job[j].todo /\ task[t] # "Failed"
                  THEN IF plan = "stopping" THEN "Stopped" ELSE "Running"
                  ELSE task[t]]
    /\ job' = [job EXCEPT ![j].st = "waiting", ![j].todo = {}]
    /\ JobStep

(* _puppet_report: the outcome of a task, ignored unless the plan is active *)
PuppetFeedback(j, t, outcome) ==
    /\ job[j].st = "waiting"
    /\ t \in TasksOf(job[j].phase)
    /\ task[t] = "Running"
    /\ plan \in ActiveState
    /\ task' = [task EXCEPT ![t] = outcome]
    /\ UNCHANGED job
    /\ JobStep

(* on_puppet_timeout, on_mco_error: what still runs has failed *)
PuppetTimeout(j) ==
    /\ job[j].st = "waiting"
    /\ \E t \in TasksOf(job[j].phase) : task[t] = "Running"
    /\ task' = [t \in Task |-> IF PhaseOf[t] = job[j].phase
                                  /\ task[t] = "Running"
                               THEN "Failed" ELSE task[t]]
    /\ UNCHANGED job
    /\ JobStep

(* _wait_for_puppet_manager returns once every task of the phase has_run *)
EndConfigPhase(j) ==
    /\ job[j].st = "waiting"
    /\ \A t \in TasksOf(job[j].phase) : task[t] \notin {"Initial", "Running"}
    /\ job' = [job EXCEPT ![j].st = "done",
                          ![j].err = \E t \in TasksOf(job[j].phase) :
                                        task[t] \in {"Failed", "Stopped"}]
    /\ UNCHANGED task
    /\ JobStep

(* The job raises outside a callback (_BaseLitpTask turns that into an error
   result) or its worker process is lost: its tasks stay as they are. *)
JobDies(j) ==
    /\ "job" \in Faults
    /\ Live(j)
    /\ job' = [job EXCEPT ![j].st = "done", ![j].err = TRUE,
                          ![j].todo = {}, ![j].cur = NoTask]
    /\ UNCHANGED task
    /\ JobStep

-----------------------------------------------------------------------------
(* Failure of the coordinator, and the two places that repair the plan. *)

(* The process executing run_plan is lost.  Celery records the failure of the
   celery task unless the whole worker service went down. *)
CoordinatorDies ==
    /\ Faults \cap {"coordinator", "service"} # {}
    /\ pc # "idle"
    /\ pc' = "idle"
    /\ seen' = "none"
    /\ toStart' = {}
    /\ active' = [p \in Phase |-> NoPhaseJob]
    /\ errs' = FALSE
    /\ \E f \in Faults \cap {"coordinator", "service"} :
          taskId' = IF taskId # "current" THEN taskId
                    ELSE IF f = "coordinator" THEN "failed" ELSE "lost"
    /\ UNCHANGED <<plan, task, item, pending, queue, job, hostVars>>

(* An exception in run_plan between the start of the plan and the end of its phases,
   where _run_plan_complete(False) ends the plan all the same ... *)
PhasesRaise ==
    /\ "raise" \in Faults
    /\ pc \in {"setid", "first", "phases"}
    /\ pc' = "clear"
    /\ errs' = TRUE
    /\ toStart' = {}
    /\ active' = [p \in Phase |-> NoPhaseJob]
    /\ UNCHANGED <<planVars, pending, queue, seen, job, hostVars>>

(* ... and anywhere else: only clear_celery_task is left to do.  In _clear_plan or
   _enable_puppet it commits what they had done and skips plan.end(). *)
RunPlanRaises ==
    /\ "raise" \in Faults
    /\ pc \in {"disable", "start", "clear", "backup"}
    /\ pc' = "finish"
    /\ puppet' \in IF pc = "clear" THEN {puppet, TRUE} ELSE {puppet}
    /\ \E done \in SUBSET Item :
          item' = [i \in Item |-> IF pc = "clear" /\ ~errs /\ i \in done
                                 THEN "Applied" ELSE item[i]]
    /\ UNCHANGED <<plan, task, taskId, pending, queue, seen, toStart, active,
                   errs, job, backup, litpd>>

(* _fix_plan for an active plan *)
FixActivePlan ==
    /\ task' = FailRunning(task)
    /\ plan' = EndState(plan, FailRunning(task))
    /\ taskId' = "none"
    /\ UNCHANGED item

(* _fix_plan for a plan nobody has run: invalid if the plugins have changed *)
FixInitialPlan ==
    /\ plan' = "invalid"
    /\ UNCHANGED <<task, item, taskId>>

(* monitor_plan: the plan is running and the result of its celery task ready *)
MonitorPlan ==
    /\ plan = "running"
    /\ taskId = "failed"
    /\ FixActivePlan
    /\ UNCHANGED <<pending, queue, coordVars, job, hostVars>>

(* litpd crashes, its requests with it, and starts again, which runs
   fix_plan_at_service_startup: an active plan is ended unless its celery task
   is found active. *)
RestartService ==
    /\ "restart" \in Faults
    /\ litpd' = "up"
    /\ pending' = {}
    /\ \/ plan \in ActiveState /\ taskId # "current" /\ FixActivePlan
       \/ plan = "initial" /\ FixInitialPlan
       \/ UNCHANGED planVars /\ (plan \in ActiveState => taskId = "current")
    /\ UNCHANGED <<queue, coordVars, job, puppet, backup>>

(* litpd is told to stop: kill_plan stops a running plan ... *)
KillPlan ==
    /\ "shutdown" \in Requests
    /\ litpd = "up"
    /\ litpd' = "down"
    /\ pending' = {}
    /\ plan' = IF plan = "running" THEN "stopping" ELSE plan
    /\ UNCHANGED <<task, item, taskId, queue, coordVars, job, puppet, backup>>

(* ... and waits until the plan is not active; only then litpd can exit and be
   started again. *)
PlanKilled ==
    /\ litpd = "down"
    /\ plan \notin ActiveState
    /\ litpd' = "up"
    /\ \/ plan = "initial" /\ FixInitialPlan
       \/ /\ UNCHANGED <<plan, item, taskId>>
          /\ task' = [t \in Task |-> IF plan = "stopped" /\ task[t] = "Running"
                                     THEN "Stopped" ELSE task[t]]
    /\ UNCHANGED <<pending, queue, coordVars, job, puppet, backup>>

-----------------------------------------------------------------------------

Request ==
    \/ \E k \in LongRequests : BeginRequest(k)
    \/ CreatePlan \/ CreatePlanFails \/ DeletePlan \/ StopPlan
    \/ ChangeModel \/ ChangeModelOnly \/ RunPlanBackground \/ KillPlan

Coordinator ==
    \/ StartRunPlan \/ DisablePuppet \/ RunPlanStart \/ SetCeleryTaskId
    \/ FirstReadyPhases \/ PhasesOver \/ ClearPlan \/ EndPlan \/ BackupModel
    \/ FinishRunPlan
    \/ \E p \in Phase : CollectPhase(p) \/ RunCleanupPhase(p)
    \/ \E p \in Phase, j \in JobSlot : EnqueuePhase(p, j)

Job(j) ==
    \/ StartJob(j) \/ StartCallbackTask(j) \/ EndCallbackPhase(j)
    \/ ApplyConfigPhase(j) \/ PuppetTimeout(j) \/ EndConfigPhase(j)
    \/ \E o \in {"Success", "Failed", "Stopped"} : EndCallbackTask(j, o)
    \/ \E t \in Task, o \in {"Success", "Failed"} : PuppetFeedback(j, t, o)

Next ==
    \/ Request
    \/ Coordinator
    \/ \E j \in JobSlot : Job(j) \/ JobDies(j)
    \/ CoordinatorDies \/ PhasesRaise \/ RunPlanRaises
    \/ MonitorPlan
    \/ RestartService
    \/ PlanKilled

Spec == Init /\ [][Next]_vars

(* The workers go on working and beat goes on starting monitor_plan; nobody is
   obliged to issue a request, and nothing is obliged to fail. *)
Fairness ==
    /\ WF_vars(Coordinator)
    /\ \A j \in JobSlot : WF_vars(Job(j))
    /\ WF_vars(MonitorPlan)
    /\ WF_vars(PlanKilled)

FairSpec == Spec /\ Fairness

-----------------------------------------------------------------------------
(* Properties *)

TypeOK ==
    /\ plan \in PlanState
    /\ task \in [Task -> TaskState]
    /\ item \in [Item -> ItemState]
    /\ taskId \in {"none", "current", "failed", "lost"}
    /\ pending \subseteq LongRequests
    /\ queue \in 0..MaxQueue
    /\ pc \in PC
    /\ seen \in PlanState
    /\ toStart \subseteq Phase
    /\ active \in [Phase -> JobSlot \cup {NoPhaseJob}]
    /\ errs \in BOOLEAN
    /\ job \in [JobSlot -> JobRecord]
    /\ puppet \in BOOLEAN
    /\ backup \in BOOLEAN
    /\ litpd \in {"up", "down"}

(* ready_phases with _build_phase_dependencies: no task of a phase has been
   touched before every phase it waits for has succeeded completely, whatever
   failed, died, was stopped or resumed in between. *)
PhaseOrder ==
    \A t \in Task : task[t] # "Initial" =>
        \A r \in Req[PhaseOf[t]] : PhaseComplete(task, r)

(* _run_plan_complete ("all phases should have completed and committed"): when the
   phases are over no job of the plan is left at work, whose results nobody would
   collect and whose tasks would change after the plan has ended. *)
NoJobLeftBehind == pc = "clear" => \A j \in JobSlot : ~Live(j)

(* A phase that waits for nothing has not been begun, in a plan that is resumed:
   ready_phases(-1) finds those only when no task has failed. *)
RootSkipped ==
    /\ seen # "initial"
    /\ \E p \in Phase : Req[p] = {} /\ \E t \in TasksOf(p) : task[t] = "Initial"

(* _update_item_states and _clear_plan: a plan that is executed only makes an item
   Applied when every task of it that acts on the item has succeeded, whatever was
   changed, stopped or resumed before; set_all_applied, which looks at no task, may
   only be wrong about a phase that was skipped. *)
AppliedWhenDone ==
    [][\A i \in Item :
           plan \in ActiveState /\ item[i] # "Applied" /\ item'[i] = "Applied"
               => \/ \A t \in Acting[i] : task'[t] = "Success"
                  \/ (pc = "clear" /\ RootSkipped)]_vars

(* _fail_running_tasks: when run_plan has ended no task is left Running, even if
   jobs died on the way. *)
NoTaskLeftRunning ==
    pc = "idle" /\ plan \notin ActiveState => \A t \in Task : task[t] # "Running"

(* BasePlan.end: a plan is successful only if all its tasks are, and stays so
   while it is the current plan. *)
SuccessfulPlanComplete ==
    plan = "successful" => AllPhasesComplete(task)

(* invalidate_restore_model and _backup_model_for_restore: the model kept for
   restore_model is never that of a plan that is being executed, failed or was
   stopped; only a phase that was skipped can have it written after a failure. *)
BackupOfSuccessOnly ==
    backup => /\ pc \in {"idle", "finish"}
              /\ plan \notin ActiveState
              /\ plan \in {"failed", "stopped"} => RootSkipped

(* _run_plan_complete ("all phases should have completed and committed"): when the
   phases are over and none returned an error, all tasks have succeeded, so
   set_all_applied and the backup are justified, unless a phase was skipped. *)
NoErrorMeansComplete ==
    pc = "clear" /\ ~errs /\ plan \in ActiveState
        => AllPhasesComplete(task) \/ RootSkipped

(* clear_celery_task ("If we got so far it means the plan is over one way or
   another"): when run_plan has returned the plan is not active. *)
PlanOverWhenRunPlanReturns ==
    pc = "idle" => plan \notin ActiveState

(* A plan that has been started ends, and a shutdown of litpd, which waits in
   kill_plan until the plan is not active, completes. *)
PlanEnds ==
    /\ (plan \in ActiveState) ~> (plan \notin ActiveState)
    /\ (litpd = "down") ~> (litpd = "up")

(* PlanLifecycle is the state machine BasePlan describes. *)
Lifecycle == INSTANCE PlanLifecycle
                WITH complete <- AllPhasesComplete(task), loaded <- seen
LifecycleSpec == Lifecycle!Spec

=============================================================================
