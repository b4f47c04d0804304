---------------------- MODULE PlanExecution_refinement ----------------------
(***************************************************************************)
(* PlanExecution implements PlanLifecycle: whatever the requests, the      *)
(* shutdowns, the coordinator and the jobs do, the plan row only moves     *)
(* along the state machine that the methods of BasePlan describe, also     *)
(* when requests come between the moment run_plan loads the plan and the   *)
(* moment it overwrites what the row has become.  And the items of a plan  *)
(* that is executed are Applied only when all was done to them that the    *)
(* plan has to do.                                                         *)
(***************************************************************************)
EXTENDS PlanExecution_success

lifecycleVars == <<plan, AllPhasesComplete(task), seen>>

LEMMA InitLifecycle == Init => Lifecycle!Init
<1> SUFFICES ASSUME Init PROVE Lifecycle!Init
  OBVIOUS
<1>1. PICK t \in Task : TRUE
  BY ShapeAssumption
<1>2. task[t] # "Success"
  BY DEF Init
<1>3. ~AllPhasesComplete(task)
  BY <1>2 DEF AllPhasesComplete
<1> QED
  BY <1>3 DEF Init, Lifecycle!Init

(* Tasks change while the plan is active, and it stays active. *)
LEMMA TasksProgress ==
    ASSUME plan \in ActiveState, UNCHANGED <<plan, seen>>
    PROVE  Lifecycle!Next
<1>1. AllPhasesComplete(task)' \in BOOLEAN
  BY DEF AllPhasesComplete
<1> QED
  BY <1>1 DEF Lifecycle!Next, Lifecycle!Progress, Lifecycle!Active, ActiveState

(* The plan is stopped or marked invalid, or nothing happens to its row. *)
LEMMA PlanRowLifecycle ==
    ASSUME UNCHANGED <<task, seen>>,
           \/ plan' = plan
           \/ plan = "running" /\ plan' = "stopping"
           \/ plan \in Runnable /\ plan' = "invalid"
    PROVE  Lifecycle!Next \/ UNCHANGED lifecycleVars
<1>1. AllPhasesComplete(task)' = AllPhasesComplete(task)
  BY DEF AllPhasesComplete
<1>2. CASE plan' = plan
  BY <1>1, <1>2 DEF lifecycleVars
<1>3. CASE plan = "running" /\ plan' = "stopping"
  BY <1>1, <1>3 DEF Lifecycle!Next, Lifecycle!Stop
<1>4. CASE plan \in Runnable /\ plan' = "invalid"
  BY <1>1, <1>4 DEF Lifecycle!Next, Lifecycle!MarkInvalid, Lifecycle!Runnable, Runnable
<1> QED
  BY <1>2, <1>3, <1>4

LEMMA RequestLifecycle ==
    ASSUME Steady, OrderInv, Request
    PROVE  Lifecycle!Next \/ UNCHANGED lifecycleVars
<1>0. TypeOK
  BY DEF OrderInv
<1>1. ASSUME NEW k, Commits(k)
      PROVE  Accepted(k) /\ seen' = seen
  BY <1>1, <1>0 DEF Commits, TypeOK, Steady, coordVars
<1>2. TasksReplaced => ~AllPhasesComplete(task')
  <2>1. PICK t \in Task : TRUE
    BY ShapeAssumption
  <2> QED
    BY <2>1 DEF TasksReplaced, AllPhasesComplete
<1>3. CASE CreatePlan
  <2>1. plan \notin ActiveState /\ seen' = seen
    BY <1>1, <1>3 DEF CreatePlan, Accepted
  <2>2. Lifecycle!Create
    BY <1>2, <1>3, <2>1 DEF CreatePlan, Lifecycle!Create, Lifecycle!Active, ActiveState
  <2> QED
    BY <2>2 DEF Lifecycle!Next
<1>4. CASE CreatePlanFails \/ DeletePlan
  <2>0. (Accepted("create") \/ Accepted("delete")) /\ seen' = seen
    BY <1>1, <1>4 DEF CreatePlanFails, DeletePlan
  <2>1. plan \notin ActiveState
    BY <2>0 DEF Accepted
  <2>2. Lifecycle!Delete
    BY <1>2, <1>4, <2>0, <2>1
       DEF CreatePlanFails, DeletePlan, Lifecycle!Delete, Lifecycle!Active, ActiveState
  <2> QED
    BY <2>2 DEF Lifecycle!Next
<1>5. CASE StopPlan
  <2>1. plan = "running" /\ seen' = seen
    BY <1>1, <1>5 DEF StopPlan, Accepted
  <2> QED
    BY <1>5, <2>1, PlanRowLifecycle DEF StopPlan
<1>6. CASE ChangeModel
  <2>1. plan \in Runnable /\ seen' = seen
    BY <1>1, <1>6 DEF ChangeModel, Accepted
  <2> QED
    BY <1>6, <2>1, PlanRowLifecycle DEF ChangeModel
<1>7. CASE ChangeModelOnly \/ RunPlanBackground
  BY <1>7, PlanRowLifecycle DEF ChangeModelOnly, RunPlanBackground, planVars, coordVars
<1>8. CASE KillPlan
  BY <1>8, PlanRowLifecycle DEF KillPlan, coordVars
<1> QED
  BY <1>3, <1>4, <1>5, <1>6, <1>7, <1>8 DEF Request, Steady

(* run_plan loads the plan and forgets it again while no plan is executed, and runs
   one that can have become invalid meanwhile, but nothing worse. *)
LEMMA CoordinatorLifecycle ==
    ASSUME OrderInv, SuccessInv, Coordinator
    PROVE  Lifecycle!Next \/ UNCHANGED lifecycleVars
<1>0. PlanHeld
  BY DEF OrderInv
<1>1. ASSUME plan \notin ActiveState, UNCHANGED <<plan, task>>, seen' \in {plan, "none"}
      PROVE  Lifecycle!Next
  <2>1. AllPhasesComplete(task)' = AllPhasesComplete(task)
    BY <1>1 DEF AllPhasesComplete
  <2> QED
    BY <1>1, <2>1 DEF Lifecycle!Next, Lifecycle!Load, Lifecycle!Active, ActiveState
<1>2. CASE StartRunPlan
  <2>1. pc = "idle" /\ plan \notin ActiveState /\ plan' = plan
    BY <1>0, <1>2 DEF StartRunPlan, PlanHeld, Executing
  <2>2. task' = task /\ seen' \in {seen, plan}
    <3>1. CASE plan = "none"
      BY <3>1, <1>2, <2>1 DEF StartRunPlan, ActiveState
    <3>2. CASE plan # "none"
      BY <3>2, <1>2, <2>1, Zenon DEF StartRunPlan
    <3> QED
      BY <3>1, <3>2
  <2>3. CASE seen' = seen
    BY <2>1, <2>2, <2>3, PlanRowLifecycle
  <2> QED
    BY <1>1, <2>1, <2>2, <2>3
<1>3. CASE FinishRunPlan
  <2>1. pc = "finish" /\ UNCHANGED <<plan, task>> /\ seen' = "none"
    BY <1>3 DEF FinishRunPlan
  <2>2. plan \notin ActiveState
    BY <1>0, <2>1 DEF PlanHeld, Executing
  <2> QED
    BY <1>1, <2>1, <2>2
<1>4. CASE DisablePuppet \/ SetCeleryTaskId \/ ClearPlan \/ BackupModel
  BY <1>4, PlanRowLifecycle
     DEF DisablePuppet, SetCeleryTaskId, ClearPlan, BackupModel, planVars
<1>5. CASE RunPlanStart
  <2>1. pc = "start" /\ UNCHANGED <<task, seen>>
    BY <1>5 DEF RunPlanStart
  <2>2. CASE plan' = plan
    BY <2>1, <2>2, PlanRowLifecycle
  <2>3. CASE seen \in Runnable /\ plan # "none" /\ plan' = "running"
    <3>1. plan \in {"initial", "failed", "invalid"}
      BY <2>1, <2>3 DEF SuccessInv, SeenRunnable
    <3>2. AllPhasesComplete(task)' = AllPhasesComplete(task)
      BY <2>1 DEF AllPhasesComplete
    <3> QED
      BY <2>1, <2>3, <3>1, <3>2
         DEF Lifecycle!Next, Lifecycle!Run, Lifecycle!Runnable, Runnable
  <2> QED
    BY <1>5, <2>2, <2>3 DEF RunPlanStart
<1>6. CASE EndPlan
  <2>1. plan \in ActiveState /\ UNCHANGED <<task, seen>>
    BY <1>0, <1>6 DEF EndPlan, PlanHeld, Executing
  <2>2. plan' = EndState(plan, task)
    BY <1>6, <2>1 DEF EndPlan
  <2>3. Lifecycle!End
    BY <2>1, <2>2
       DEF Lifecycle!End, Lifecycle!Active, ActiveState, EndState, AllPhasesComplete
  <2> QED
    BY <2>3 DEF Lifecycle!Next
<1>7. CASE \/ FirstReadyPhases \/ PhasesOver
           \/ \E p \in Phase : CollectPhase(p) \/ RunCleanupPhase(p)
           \/ \E p \in Phase, j \in JobSlot : EnqueuePhase(p, j)
  <2>1. pc \in {"first", "phases"} /\ UNCHANGED <<plan, seen>>
    BY <1>7 DEF FirstReadyPhases, PhasesOver, CollectPhase, RunCleanupPhase,
                EnqueuePhase, planVars
  <2>2. plan \in ActiveState
    BY <1>0, <2>1 DEF PlanHeld, Executing
  <2> QED
    BY <2>1, <2>2, TasksProgress
<1> QED
  BY <1>2, <1>3, <1>4, <1>5, <1>6, <1>7 DEF Coordinator

LEMMA JobLifecycle ==
    ASSUME OrderInv, NEW j \in JobSlot, Job(j) \/ JobDies(j)
    PROVE  Lifecycle!Next
<1>1. JobStep
  BY DEF Job, JobDies, StartJob, StartCallbackTask, EndCallbackPhase,
         ApplyConfigPhase, PuppetTimeout, EndConfigPhase, EndCallbackTask,
         PuppetFeedback
<1>2. Live(j)
  BY DEF Job, JobDies, StartJob, StartCallbackTask, EndCallbackPhase,
         ApplyConfigPhase, PuppetTimeout, EndConfigPhase, EndCallbackTask,
         PuppetFeedback, Live
<1>3. plan \in ActiveState
  BY <1>2 DEF OrderInv, JobsOwned, PlanHeld, Executing
<1>4. UNCHANGED <<plan, seen>>
  BY <1>1 DEF JobStep, coordVars
<1> QED
  BY <1>3, <1>4, TasksProgress

LEMMA NextLifecycle ==
    ASSUME Steady, OrderInv, SuccessInv, [Next]_vars
    PROVE  Lifecycle!Next \/ UNCHANGED lifecycleVars
<1>1. CASE UNCHANGED vars
  BY <1>1, PlanRowLifecycle DEF vars
<1>2. ~CoordinatorDies /\ ~PhasesRaise /\ ~RunPlanRaises /\ ~RestartService
      /\ ~MonitorPlan
  BY DEF Steady, CoordinatorDies, PhasesRaise, RunPlanRaises, RestartService,
         MonitorPlan, OrderInv, Rest
<1>3. CASE PlanKilled
  <2>1. pc # "phases" /\ seen' = seen
    BY <1>3 DEF PlanKilled, OrderInv, PlanHeld, Executing, coordVars
  <2>2. task \in [Task -> TaskState] /\ \A t \in Task : task[t] # "Running"
    BY <2>1, NothingLeft DEF OrderInv, TypeOK
  <2>3. [t \in Task |-> IF plan = "stopped" /\ task[t] = "Running"
                        THEN "Stopped" ELSE task[t]] = task
    BY <2>2
  <2>4. task' = task /\ (plan' = plan \/ (plan = "initial" /\ plan' = "invalid"))
    BY <1>3, <2>3 DEF PlanKilled, FixInitialPlan
  <2> QED
    BY <2>1, <2>4, PlanRowLifecycle DEF Runnable
<1> QED
  BY <1>1, <1>2, <1>3, RequestLifecycle, CoordinatorLifecycle, JobLifecycle DEF Next

(* BasePlan's methods: set_ready, run, stop, end and mark_invalid are only ever applied to
   a plan in a state from which they may be, whatever requests come between run_plan's
   load of the plan and its commit, and end() gives the plan the state that its tasks
   deserve. *)
THEOREM ImplementsLifecycle ==
    ASSUME Steady, NoJoins, CleanupLast
    PROVE  Spec => LifecycleSpec
<1>1. OrderInv /\ SuccessInv /\ [Next]_vars => [Lifecycle!Next]_(Lifecycle!vars)
  BY NextLifecycle DEF lifecycleVars, Lifecycle!vars
<1> QED
  BY <1>1, InitLifecycle, OrderInvariant, SuccessInvariant, PTL
     DEF Spec, LifecycleSpec, Lifecycle!Spec

-----------------------------------------------------------------------------

(* What AppliedWhenDone asks of a step *)
AppliedStep ==
    \A i \in Item :
        plan \in ActiveState /\ item[i] # "Applied" /\ item'[i] = "Applied"
            => \/ \A t \in Acting[i] : task'[t] = "Success"
               \/ (pc = "clear" /\ RootSkipped)

(* No request touches an item while the plan is active. *)
LEMMA RequestApplied ==
    ASSUME Steady, OrderInv, Request
    PROVE  plan \in ActiveState => item' = item
<1>1. \A k : Commits(k) => Accepted(k)
  BY DEF Commits, OrderInv, TypeOK, Steady
<1>2. CASE ChangeModel
  BY <1>1, <1>2 DEF ChangeModel, Accepted, Runnable, ActiveState
<1>3. CASE ChangeModelOnly
  BY <1>3 DEF ChangeModelOnly
<1> QED
  BY <1>2, <1>3
     DEF Request, Steady, CreatePlan, CreatePlanFails, DeletePlan, StopPlan,
         RunPlanBackground, KillPlan, planVars

LEMMA CoordinatorApplied ==
    ASSUME OrderInv, SuccessInv, Coordinator
    PROVE  AppliedStep
<1>1. CASE ClearPlan
  <2>1. task' = task /\ pc = "clear" /\ (errs => item' = item)
    BY <1>1 DEF ClearPlan
  <2>2. ~errs => AllPhasesComplete(task) \/ RootSkipped
    BY <2>1 DEF SuccessInv, OverComplete
  <2>3. \A i \in Item : Acting[i] \subseteq Task
    BY ShapeAssumption
  <2>4. AllPhasesComplete(task) => AppliedStep
    BY <2>1, <2>3 DEF AppliedStep, AllPhasesComplete
  <2> QED
    BY <2>1, <2>2, <2>4 DEF AppliedStep
<1>2. ASSUME NEW p \in Phase, CollectPhase(p) \/ RunCleanupPhase(p) PROVE AppliedStep
  <2>1. item' = item \/ item' = UpdateItemStates(item, task', p)
    BY <1>2 DEF CollectPhase, RunCleanupPhase
  <2> QED
    BY <2>1 DEF UpdateItemStates, AppliedStep
<1>3. CASE ~ClearPlan /\ \A p \in Phase : ~CollectPhase(p) /\ ~RunCleanupPhase(p)
  <2>1. item' = item
    BY <1>3 DEF Coordinator, StartRunPlan, DisablePuppet, RunPlanStart, SetCeleryTaskId,
                FirstReadyPhases, PhasesOver, EndPlan, BackupModel, FinishRunPlan,
                EnqueuePhase, planVars
  <2> QED
    BY <2>1 DEF AppliedStep
<1> QED
  BY <1>1, <1>2, <1>3

LEMMA NextApplied ==
    ASSUME Steady, OrderInv, SuccessInv, [Next]_vars
    PROVE  AppliedStep
<1>1. CASE UNCHANGED vars
  BY <1>1 DEF vars, AppliedStep
<1>2. ~CoordinatorDies /\ ~PhasesRaise /\ ~RunPlanRaises /\ ~RestartService
      /\ ~MonitorPlan
  BY DEF Steady, CoordinatorDies, PhasesRaise, RunPlanRaises, RestartService,
         MonitorPlan, OrderInv, Rest
<1>3. CASE PlanKilled
  BY <1>3 DEF PlanKilled, FixInitialPlan, AppliedStep
<1>4. ASSUME NEW j \in JobSlot, Job(j) \/ JobDies(j) PROVE AppliedStep
  <2>1. item' = item
    BY <1>4 DEF Job, JobDies, StartJob, StartCallbackTask, EndCallbackPhase,
                ApplyConfigPhase, PuppetTimeout, EndConfigPhase, EndCallbackTask,
                PuppetFeedback, JobStep
  <2> QED
    BY <2>1 DEF AppliedStep
<1>5. CASE Request
  BY <1>5, RequestApplied DEF AppliedStep
<1> QED
  BY <1>1, <1>2, <1>3, <1>4, <1>5, CoordinatorApplied DEF Next

(* _update_item_states, set_all_applied: a plan that is executed makes an item Applied
   only when all its tasks that act on the item have succeeded, however many there are
   in a phase and whatever was resumed, or when it skipped a phase. *)
THEOREM AppliedIsDone ==
    ASSUME Steady, NoJoins, CleanupLast
    PROVE  Spec => AppliedWhenDone
<1>1. OrderInv /\ SuccessInv /\ [Next]_vars => [AppliedStep]_vars
  BY NextApplied
<1> QED
  BY <1>1, OrderInvariant, SuccessInvariant, PTL DEF Spec, AppliedWhenDone, AppliedStep

=============================================================================
