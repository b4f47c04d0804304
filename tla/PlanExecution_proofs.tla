------------------------ MODULE PlanExecution_proofs ------------------------
(***************************************************************************)
(* Proofs about PlanExecution, for every plan shape, number of jobs, queue *)
(* length, set of requests and set of faults.                              *)
(***************************************************************************)
EXTENDS PlanExecution, TLAPS

(* The operators on task and item states return task and item states. *)
LEMMA OperatorTypes ==
    ASSUME NEW ts \in [Task -> TaskState], NEW its \in [Item -> ItemState],
           NEW p \in Phase
    PROVE  /\ ResetFailed(ts) \in [Task -> TaskState]
           /\ FailRunning(ts) \in [Task -> TaskState]
           /\ StopRunning(ts, p) \in [Task -> TaskState]
           /\ UpdateItemStates(its, ts, p) \in [Item -> ItemState]
BY DEF ResetFailed, FailRunning, StopRunning, UpdateItemStates, TaskState,
       ItemState

LEMMA ReadyTypes ==
    ASSUME NEW ts, NEW c
    PROVE  ReadyAfter(ts, c) \subseteq Phase /\ ReadyAtStart(ts) \subseteq Phase
<1>1. \A us, d : ReadyAfter(us, d) \subseteq Phase
  BY DEF ReadyAfter
<1>2. FailedPhases(ts) \subseteq Phase
  BY DEF FailedPhases
<1> DEFINE reset == ResetFailed(ts)
           after == UNION {ReadyAfter(reset, d) :
                              d \in {p \in Phase : PhaseComplete(ts, p)}}
           fresh == {p \in Phase :
                       /\ FailedPhases(ts) = {}
                       /\ \E t \in TasksOf(p) : reset[t] = "Initial"
                       /\ \A r \in Req[p] : PhaseComplete(reset, r)}
<1>3. after \subseteq Phase
  BY <1>1, Zenon
<1>4. fresh \subseteq Phase
  OBVIOUS
<1>5. ReadyAtStart(ts) = FailedPhases(ts) \cup after \cup fresh
  BY DEF ReadyAtStart
<1> HIDE DEF after, fresh
<1>6. ReadyAtStart(ts) \subseteq Phase
  BY <1>2, <1>3, <1>4, <1>5
<1> QED
  BY <1>1, <1>6

(* BasePlan.end() leaves no plan active. *)
LEMMA EndStateOver ==
    ASSUME NEW s, NEW ts
    PROVE  EndState(s, ts) \in PlanState \ ActiveState
BY DEF EndState, PlanState, ActiveState

LEMMA FreeJobType == FreeJob \in JobRecord
<1>1. (CHOOSE p \in Phase : TRUE) \in Phase
  BY ShapeAssumption
<1> QED
  BY <1>1 DEF FreeJob, JobRecord

-----------------------------------------------------------------------------

LEMMA InitTypeOK == Init => TypeOK
<1> SUFFICES ASSUME Init PROVE TypeOK
  OBVIOUS
<1>1. job \in [JobSlot -> JobRecord]
  BY FreeJobType DEF Init
<1>2. queue \in 0..MaxQueue /\ pending \subseteq LongRequests
  BY EnvironmentAssumption DEF Init
<1>3. /\ task \in [Task -> TaskState]
      /\ item \in [Item -> ItemState]
      /\ active \in [Phase -> JobSlot \cup {NoPhaseJob}]
  BY DEF Init, TaskState, ItemState
<1> QED
  BY <1>1, <1>2, <1>3 DEF Init, TypeOK, PlanState, PC

LEMMA RequestTypeOK == TypeOK /\ Request => TypeOK'
<1> SUFFICES ASSUME TypeOK, Request PROVE TypeOK'
  OBVIOUS
<1> USE DEF TypeOK, PlanState
<1>0. TasksReplaced => /\ task' \in [Task -> TaskState]
                       /\ job' \in [JobSlot -> JobRecord]
  <2> SUFFICES ASSUME TasksReplaced PROVE /\ task' \in [Task -> TaskState]
                                          /\ job' \in [JobSlot -> JobRecord]
    OBVIOUS
  <2>1. task' \in [Task -> TaskState]
    BY DEF TasksReplaced, TaskState
  <2>2. \A j \in JobSlot : [job[j] EXCEPT !.st = "done", !.err = TRUE,
                                          !.todo = {}, !.cur = NoTask] \in JobRecord
    BY DEF JobRecord
  <2>3. job' \in [JobSlot -> JobRecord]
    BY <2>2 DEF TasksReplaced
  <2> QED
    BY <2>1, <2>3
<1>1. ASSUME NEW k \in LongRequests, BeginRequest(k) PROVE TypeOK'
  BY <1>1 DEF BeginRequest, planVars, coordVars, hostVars
<1>2. CASE CreatePlan \/ CreatePlanFails
  BY <1>2, <1>0 DEF CreatePlan, CreatePlanFails, Commits, coordVars, hostVars
<1>3. CASE DeletePlan
  BY <1>3, <1>0 DEF DeletePlan, Commits, coordVars, hostVars
<1>4. CASE StopPlan
  BY <1>4 DEF StopPlan, Commits, coordVars, hostVars
<1>5. CASE ChangeModel
  BY <1>5 DEF ChangeModel, UpdateProperties, Commits, coordVars, hostVars,
              ItemState
<1>6. CASE ChangeModelOnly
  BY <1>6 DEF ChangeModelOnly, UpdateProperties, coordVars, hostVars, ItemState
<1>7. CASE RunPlanBackground
  BY <1>7, EnvironmentAssumption DEF RunPlanBackground, planVars, coordVars, hostVars
<1>8. CASE KillPlan
  BY <1>8 DEF KillPlan, coordVars
<1> QED
  BY <1>1, <1>2, <1>3, <1>4, <1>5, <1>6, <1>7, <1>8 DEF Request

LEMMA CoordinatorTypeOK == TypeOK /\ Coordinator => TypeOK'
<1> SUFFICES ASSUME TypeOK, Coordinator PROVE TypeOK'
  OBVIOUS
<1> USE DEF TypeOK, PlanState, PC
<1>1. CASE StartRunPlan
  <2>1. queue' \in 0..MaxQueue
    BY <1>1, EnvironmentAssumption DEF StartRunPlan
  <2>2. /\ task' \in [Task -> TaskState] /\ pc' \in PC /\ seen' \in PlanState
        /\ errs' \in BOOLEAN /\ backup' \in BOOLEAN
    <3>1. CASE plan = "none"
      BY <1>1, <3>1 DEF StartRunPlan, ActiveState
    <3>2. CASE plan \in ActiveState
      <4>1. plan # "none"
        BY <3>2 DEF ActiveState
      <4>2. task' = FailRunning(task) /\ pc' = "clear" /\ seen' = seen
            /\ errs' = TRUE /\ backup' = backup
        BY <1>1, <3>2, <4>1, Zenon DEF StartRunPlan
      <4> QED
        BY <4>2, OperatorTypes, ShapeAssumption
    <3>3. CASE plan \notin ActiveState \cup {"none"}
      <4>1. task' = task /\ pc' = "disable" /\ seen' = plan /\ errs' = errs
            /\ backup' = FALSE
        BY <1>1, <3>3, Zenon DEF StartRunPlan
      <4> QED
        BY <4>1
    <3> QED
      BY <3>1, <3>2, <3>3
  <2> QED
    BY <1>1, <2>1, <2>2 DEF StartRunPlan
<1>2. CASE DisablePuppet
  <2>1. /\ plan' = plan /\ task' = task /\ item' = item /\ taskId' = taskId
        /\ pending' = pending /\ queue' = queue /\ seen' = seen
        /\ toStart' = toStart /\ active' = active /\ errs' = errs /\ job' = job
        /\ backup' = backup /\ litpd' = litpd
        /\ puppet' = FALSE /\ pc' = "start"
    BY <1>2 DEF DisablePuppet, planVars
  <2>2. pc' \in PC /\ puppet' \in BOOLEAN
    BY <2>1
  <2> HIDE DEF PC, PlanState
  <2> QED
    BY <2>1, <2>2
<1>3. CASE RunPlanStart
  BY <1>3 DEF RunPlanStart, hostVars
<1>4. CASE SetCeleryTaskId
  BY <1>4 DEF SetCeleryTaskId, hostVars
<1>5. CASE FirstReadyPhases
  <2>1. task' \in [Task -> TaskState]
    BY <1>5, OperatorTypes, ShapeAssumption DEF FirstReadyPhases
  <2>2. toStart' \subseteq Phase
    BY <1>5, ReadyTypes DEF FirstReadyPhases
  <2>3. active' \in [Phase -> JobSlot \cup {NoPhaseJob}]
    BY <1>5 DEF FirstReadyPhases
  <2>4. /\ plan' = plan /\ item' = item /\ taskId' = taskId /\ pending' = pending
        /\ queue' = queue /\ seen' = seen /\ job' = job /\ puppet' = puppet
        /\ backup' = backup /\ litpd' = litpd /\ errs' = FALSE /\ pc' = "phases"
    BY <1>5 DEF FirstReadyPhases, hostVars
  <2>5. pc' \in PC /\ errs' \in BOOLEAN
    BY <2>4
  <2> HIDE DEF PC, PlanState
  <2> QED
    BY <2>1, <2>2, <2>3, <2>4, <2>5
<1>6. CASE PhasesOver
  <2>1. task' \in [Task -> TaskState]
    BY <1>6, OperatorTypes, ShapeAssumption DEF PhasesOver
  <2>2. /\ plan' = plan /\ item' = item /\ taskId' = taskId /\ pending' = pending
        /\ queue' = queue /\ seen' = seen /\ toStart' = toStart /\ active' = active
        /\ errs' = errs /\ job' = job /\ puppet' = puppet /\ backup' = backup
        /\ litpd' = litpd /\ pc' = "clear"
    BY <1>6 DEF PhasesOver, hostVars
  <2> QED
    BY <2>1, <2>2
<1>7. CASE ClearPlan
  <2>1. item' \in [Item -> ItemState]
    BY <1>7 DEF ClearPlan, ItemState
  <2>2. pc' \in PC /\ puppet' \in BOOLEAN
    BY <1>7 DEF ClearPlan
  <2>3. /\ plan' = plan /\ task' = task /\ taskId' = taskId /\ pending' = pending
        /\ queue' = queue /\ seen' = seen /\ toStart' = toStart /\ active' = active
        /\ errs' = errs /\ job' = job /\ backup' = backup /\ litpd' = litpd
    BY <1>7 DEF ClearPlan
  <2> QED
    BY <2>1, <2>2, <2>3
<1>8. CASE EndPlan
  BY <1>8, EndStateOver DEF EndPlan, hostVars
<1>9. CASE BackupModel
  BY <1>9 DEF BackupModel, planVars
<1>10. CASE FinishRunPlan
  BY <1>10 DEF FinishRunPlan, hostVars
<1>11. ASSUME NEW p \in Phase, CollectPhase(p) PROVE TypeOK'
  <2>1. item' \in [Item -> ItemState]
    BY <1>11, OperatorTypes DEF CollectPhase
  <2>2. toStart' \subseteq Phase /\ errs' \in BOOLEAN
    BY <1>11, ReadyTypes DEF CollectPhase
  <2>3. job' \in [JobSlot -> JobRecord]
    BY <1>11, FreeJobType DEF CollectPhase
  <2> QED
    BY <1>11, <2>1, <2>2, <2>3 DEF CollectPhase, hostVars
<1>12. ASSUME NEW p \in Phase, RunCleanupPhase(p) PROVE TypeOK'
  <2>1. task' \in [Task -> TaskState]
    <3>1. CASE plan = "stopping"
      BY <1>12, <3>1, OperatorTypes DEF RunCleanupPhase
    <3>2. CASE plan # "stopping"
      <4>1. task' = [t \in Task |-> IF PhaseOf[t] = p THEN "Success" ELSE task[t]]
        BY <1>12, <3>2 DEF RunCleanupPhase
      <4> QED
        BY <4>1 DEF TaskState
    <3> QED
      BY <3>1, <3>2
  <2>2. item' \in [Item -> ItemState]
    <3>1. item' = item \/ item' = UpdateItemStates(item, task', p)
      BY <1>12 DEF RunCleanupPhase
    <3>2. UpdateItemStates(item, task', p) \in [Item -> ItemState]
      BY <2>1, OperatorTypes
    <3> QED
      BY <3>1, <3>2
  <2> QED
    <3>1. errs' \in BOOLEAN /\ toStart' \subseteq Phase
      BY <1>12 DEF RunCleanupPhase
    <3>2. /\ plan' = plan /\ taskId' = taskId /\ pending' = pending /\ queue' = queue
          /\ pc' = pc /\ seen' = seen /\ active' = active /\ job' = job
          /\ puppet' = puppet /\ backup' = backup /\ litpd' = litpd
      BY <1>12 DEF RunCleanupPhase, hostVars
    <3> QED
      BY <2>1, <2>2, <3>1, <3>2
<1>13. ASSUME NEW p \in Phase, NEW j \in JobSlot, EnqueuePhase(p, j) PROVE TypeOK'
  <2>1. job' \in [JobSlot -> JobRecord]
    BY <1>13 DEF EnqueuePhase, JobRecord
  <2> QED
    BY <1>13, <2>1 DEF EnqueuePhase, planVars, hostVars
<1> QED
  BY <1>1, <1>2, <1>3, <1>4, <1>5, <1>6, <1>7, <1>8, <1>9, <1>10, <1>11, <1>12,
     <1>13 DEF Coordinator

LEMMA JobTypeOK ==
    ASSUME TypeOK, NEW j \in JobSlot, Job(j) \/ JobDies(j)
    PROVE  TypeOK'
<1> USE DEF TypeOK
<1>0. /\ job[j] \in JobRecord
      /\ job[j].phase \in Phase
      /\ TasksOf(job[j].phase) \subseteq Task
  BY DEF JobRecord, TasksOf
<1>1. ASSUME task' \in [Task -> TaskState], job' \in [JobSlot -> JobRecord], JobStep
      PROVE  TypeOK'
  BY <1>1 DEF JobStep, coordVars, hostVars
<1>2. CASE StartJob(j)
  <2>1. task' \in [Task -> TaskState]
    BY <1>2, <1>0, OperatorTypes DEF StartJob
  <2>2. job' \in [JobSlot -> JobRecord]
    <3> DEFINE refused == \/ plan \in {"none", "stopping"}
                          \/ /\ Kind[job[j].phase] = "config"
                             /\ \E t \in TasksOf(job[j].phase) : task[t] = "Failed"
               all == IF Kind[job[j].phase] = "config" THEN TasksOf(job[j].phase)
                      ELSE {t \in TasksOf(job[j].phase) : task[t] # "Success"}
               st == IF refused THEN "done" ELSE "running"
               todo == IF refused THEN {} ELSE all
    <3>1. job' = [job EXCEPT ![j].st = st, ![j].todo = todo, ![j].err = refused]
      BY <1>2 DEF StartJob
    <3>2. st \in {"done", "running"} /\ todo \subseteq Task /\ refused \in BOOLEAN
      BY <1>0
    <3> HIDE DEF st, todo, refused
    <3>3. [job[j] EXCEPT !.st = st, !.todo = todo, !.err = refused] \in JobRecord
      BY <1>0, <3>2 DEF JobRecord
    <3>4. job' = [job EXCEPT ![j] = [job[j] EXCEPT !.st = st, !.todo = todo, !.err = refused]]
      BY <3>1
    <3> QED
      BY <3>3, <3>4
  <2> QED
    BY <1>1, <1>2, <2>1, <2>2 DEF StartJob
<1>3. CASE StartCallbackTask(j)
  <2>1. PICK t \in job[j].todo :
           /\ task' = [task EXCEPT ![t] = "Running"]
           /\ job' = [job EXCEPT ![j].cur = t, ![j].todo = @ \ {t}]
    BY <1>3 DEF StartCallbackTask
  <2>2. t \in Task
    BY <1>0, <2>1 DEF JobRecord
  <2>3. task' \in [Task -> TaskState]
    BY <2>1, <2>2 DEF TaskState
  <2>4. job' \in [JobSlot -> JobRecord]
    BY <2>1, <2>2, <1>0 DEF JobRecord
  <2> QED
    BY <1>1, <1>3, <2>3, <2>4 DEF StartCallbackTask
<1>4. CASE EndCallbackPhase(j)
  BY <1>4, <1>1, <1>0 DEF EndCallbackPhase, JobRecord
<1>5. CASE ApplyConfigPhase(j)
  <2>1. task' \in [Task -> TaskState]
    BY <1>5 DEF ApplyConfigPhase, TaskState
  <2>2. job' \in [JobSlot -> JobRecord]
    BY <1>5, <1>0 DEF ApplyConfigPhase, JobRecord
  <2> QED
    BY <1>1, <1>5, <2>1, <2>2 DEF ApplyConfigPhase
<1>6. CASE PuppetTimeout(j)
  BY <1>6, <1>1 DEF PuppetTimeout, TaskState
<1>7. CASE EndConfigPhase(j)
  BY <1>7, <1>1, <1>0 DEF EndConfigPhase, JobRecord
<1>8. ASSUME NEW o \in {"Success", "Failed", "Stopped"}, EndCallbackTask(j, o)
      PROVE  TypeOK'
  <2>1. task' \in [Task -> TaskState]
    BY <1>8 DEF EndCallbackTask, TaskState
  <2>2. job' \in [JobSlot -> JobRecord]
    BY <1>8, <1>0 DEF EndCallbackTask, JobRecord
  <2> QED
    BY <1>1, <1>8, <2>1, <2>2 DEF EndCallbackTask
<1>9. ASSUME NEW t \in Task, NEW o \in {"Success", "Failed"},
             PuppetFeedback(j, t, o)
      PROVE  TypeOK'
  BY <1>9, <1>1 DEF PuppetFeedback, TaskState
<1>10. CASE JobDies(j)
  BY <1>10, <1>1, <1>0 DEF JobDies, JobRecord
<1> QED
  BY <1>2, <1>3, <1>4, <1>5, <1>6, <1>7, <1>8, <1>9, <1>10 DEF Job

LEMMA RepairTypeOK ==
    ASSUME TypeOK,
           \/ CoordinatorDies \/ PhasesRaise \/ RunPlanRaises
           \/ MonitorPlan \/ RestartService \/ PlanKilled
    PROVE  TypeOK'
<1> USE DEF TypeOK, PlanState, PC
<1>0. /\ FixActivePlan => /\ task' \in [Task -> TaskState] /\ plan' \in PlanState
                          /\ taskId' = "none" /\ item' = item
      /\ FixInitialPlan => /\ task' = task /\ plan' \in PlanState
                           /\ taskId' = taskId /\ item' = item
  BY OperatorTypes, EndStateOver, ShapeAssumption DEF FixActivePlan, FixInitialPlan
<1>1. CASE CoordinatorDies
  BY <1>1 DEF CoordinatorDies, hostVars
<1>2. CASE MonitorPlan
  BY <1>2, <1>0 DEF MonitorPlan, coordVars, hostVars
<1>3. CASE RestartService
  BY <1>3, <1>0 DEF RestartService, coordVars, planVars
<1>4. CASE PlanKilled
  BY <1>4, <1>0 DEF PlanKilled, coordVars, TaskState
<1>5. CASE PhasesRaise
  <2>1. active' \in [Phase -> JobSlot \cup {NoPhaseJob}]
    BY <1>5 DEF PhasesRaise
  <2> QED
    BY <1>5, <2>1 DEF PhasesRaise, planVars, hostVars
<1>6. CASE RunPlanRaises
  <2>1. item' \in [Item -> ItemState]
    BY <1>6 DEF RunPlanRaises, ItemState
  <2>2. puppet' \in BOOLEAN /\ pc' \in PC
    BY <1>6 DEF RunPlanRaises
  <2>3. /\ plan' = plan /\ task' = task /\ taskId' = taskId /\ pending' = pending
        /\ queue' = queue /\ seen' = seen /\ toStart' = toStart /\ active' = active
        /\ errs' = errs /\ job' = job /\ backup' = backup /\ litpd' = litpd
    BY <1>6 DEF RunPlanRaises
  <2> QED
    BY <2>1, <2>2, <2>3
<1> QED
  BY <1>1, <1>2, <1>3, <1>4, <1>5, <1>6

LEMMA NextTypeOK == TypeOK /\ [Next]_vars => TypeOK'
<1> SUFFICES ASSUME TypeOK, [Next]_vars PROVE TypeOK'
  OBVIOUS
<1>1. CASE UNCHANGED vars
  BY <1>1 DEF vars, TypeOK
<1> QED
  BY <1>1, RequestTypeOK, CoordinatorTypeOK, JobTypeOK, RepairTypeOK DEF Next

(* Whatever the shape of the plan, the requests and the failures, the rows, the
   queue and the jobs only take the values the code knows of. *)
THEOREM TypeCorrect == Spec => []TypeOK
BY InitTypeOK, NextTypeOK, PTL DEF Spec

-----------------------------------------------------------------------------

(* The places in run_plan where it does not hold an active plan.  At "start"
   this is the state of the row, not the state run_plan loaded. *)
PlanAtRest ==
    pc \in {"idle", "disable", "start", "backup", "finish"}
        => plan \notin ActiveState

(* A stop that reads and commits in one step finds a running plan. *)
LEMMA RequestAtRest ==
    ASSUME TypeOK, PlanAtRest, Request, "stop" \notin LongRequests
    PROVE  PlanAtRest'
<1> USE DEF PlanAtRest, ActiveState
<1>1. ASSUME NEW k \in LongRequests, BeginRequest(k) PROVE PlanAtRest'
  BY <1>1 DEF BeginRequest, planVars, coordVars
<1>2. CASE CreatePlan \/ CreatePlanFails
  BY <1>2 DEF CreatePlan, CreatePlanFails, Commits, coordVars
<1>3. CASE DeletePlan
  BY <1>3 DEF DeletePlan, Commits, coordVars
<1>4. CASE StopPlan
  <2>1. "stop" \notin pending
    BY DEF TypeOK
  <2>2. Accepted("stop") /\ pc' = pc
    BY <1>4, <2>1 DEF StopPlan, Commits, coordVars
  <2>3. plan = "running"
    BY <2>2 DEF Accepted
  <2> QED
    BY <2>2, <2>3
<1>5. CASE ChangeModel
  BY <1>5 DEF ChangeModel, Commits, coordVars
<1>6. CASE ChangeModelOnly
  BY <1>6 DEF ChangeModelOnly, coordVars
<1>7. CASE RunPlanBackground
  BY <1>7 DEF RunPlanBackground, planVars, coordVars
<1>8. CASE KillPlan
  BY <1>8 DEF KillPlan, coordVars
<1> QED
  BY <1>1, <1>2, <1>3, <1>4, <1>5, <1>6, <1>7, <1>8 DEF Request

LEMMA CoordinatorAtRest ==
    ASSUME PlanAtRest, Coordinator
    PROVE  PlanAtRest'
<1> USE DEF PlanAtRest
<1>1. CASE StartRunPlan
  <2>1. pc = "idle" /\ plan' = plan
    BY <1>1 DEF StartRunPlan
  <2> QED
    BY <2>1
<1>2. CASE DisablePuppet
  BY <1>2 DEF DisablePuppet, planVars
<1>3. CASE RunPlanStart
  BY <1>3 DEF RunPlanStart
<1>4. CASE SetCeleryTaskId
  BY <1>4 DEF SetCeleryTaskId
<1>5. CASE FirstReadyPhases
  BY <1>5 DEF FirstReadyPhases
<1>6. CASE PhasesOver
  BY <1>6 DEF PhasesOver
<1>7. CASE ClearPlan
  BY <1>7 DEF ClearPlan, ActiveState
<1>8. CASE EndPlan
  BY <1>8, EndStateOver DEF EndPlan
<1>9. CASE BackupModel
  BY <1>9 DEF BackupModel, planVars
<1>10. CASE FinishRunPlan
  BY <1>10 DEF FinishRunPlan
<1>11. ASSUME NEW p \in Phase, CollectPhase(p) \/ RunCleanupPhase(p)
       PROVE  PlanAtRest'
  BY <1>11 DEF CollectPhase, RunCleanupPhase
<1>12. ASSUME NEW p \in Phase, NEW j \in JobSlot, EnqueuePhase(p, j)
       PROVE  PlanAtRest'
  BY <1>12 DEF EnqueuePhase, planVars
<1> QED
  BY <1>1, <1>2, <1>3, <1>4, <1>5, <1>6, <1>7, <1>8, <1>9, <1>10, <1>11, <1>12
     DEF Coordinator

(* A job never writes the plan row. *)
LEMMA JobKeepsPlan ==
    ASSUME NEW j \in JobSlot, Job(j) \/ JobDies(j)
    PROVE  plan' = plan /\ pc' = pc
<1>1. JobStep
  BY DEF Job, JobDies, StartJob, StartCallbackTask, EndCallbackPhase,
         ApplyConfigPhase, PuppetTimeout, EndConfigPhase, EndCallbackTask,
         PuppetFeedback
<1> QED
  BY <1>1 DEF JobStep, coordVars

LEMMA RepairAtRest ==
    ASSUME PlanAtRest, MonitorPlan \/ RestartService \/ PlanKilled
    PROVE  PlanAtRest'
<1> USE DEF PlanAtRest
<1>0. FixActivePlan \/ FixInitialPlan => plan' \notin ActiveState
  BY EndStateOver DEF FixActivePlan, FixInitialPlan, ActiveState
<1>1. CASE MonitorPlan
  BY <1>1, <1>0 DEF MonitorPlan
<1>2. CASE RestartService
  BY <1>2, <1>0 DEF RestartService, planVars, coordVars
<1>3. CASE PlanKilled
  BY <1>3, <1>0 DEF PlanKilled
<1> QED
  BY <1>1, <1>2, <1>3

(* clear_celery_task: whatever the shape of the plan, the other requests, dying
   jobs and service restarts, run_plan returns with the plan over, unless a stop
   commits on a state it read earlier, run_plan raises (in _clear_plan or
   _enable_puppet, which skips plan.end()) or the coordinator itself is lost. *)
THEOREM PlanOver ==
    ASSUME "stop" \notin LongRequests,
           Faults \cap {"coordinator", "service", "raise"} = {}
    PROVE  Spec => []PlanOverWhenRunPlanReturns
<1>1. Init => PlanAtRest
  BY DEF Init, PlanAtRest, ActiveState
<1>2. TypeOK /\ PlanAtRest /\ [Next]_vars => PlanAtRest'
  <2> SUFFICES ASSUME TypeOK, PlanAtRest, [Next]_vars PROVE PlanAtRest'
    OBVIOUS
  <2>1. CASE UNCHANGED vars
    BY <2>1 DEF vars, PlanAtRest
  <2>2. ~CoordinatorDies /\ ~PhasesRaise /\ ~RunPlanRaises
    BY DEF CoordinatorDies, PhasesRaise, RunPlanRaises
  <2>3. ASSUME NEW j \in JobSlot, Job(j) \/ JobDies(j) PROVE PlanAtRest'
    BY <2>3, JobKeepsPlan DEF PlanAtRest
  <2> QED
    BY <2>1, <2>2, <2>3, RequestAtRest, CoordinatorAtRest, RepairAtRest DEF Next
<1>3. PlanAtRest => PlanOverWhenRunPlanReturns
  BY DEF PlanAtRest, PlanOverWhenRunPlanReturns
<1> QED
  BY <1>1, <1>2, <1>3, TypeCorrect, PTL DEF Spec

=============================================================================
