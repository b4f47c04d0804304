----------------------- MODULE PlanExecution_success -----------------------
(***************************************************************************)
(* Proofs about PlanExecution: a plan whose phases returned no error is    *)
(* complete, so that setting every item Applied and keeping a backup of    *)
(* the model is justified, but for one case: when a failed plan is resumed *)
(* ready_phases forgets the phases that wait for nothing and have not been *)
(* begun (RootSkipped).  Nothing may wait for a cleanup phase, since       *)
(* nothing is enqueued after it.                                           *)
(***************************************************************************)
EXTENDS PlanExecution_order, WellFoundedInduction

CleanupLast == \A p \in Phase : \A r \in Req[p] : Kind[r] # "cleanup"

(* A phase that ready_phases may have forgotten, in a plan that is resumed *)
MaySkip(p) == Req[p] = {} /\ seen # "initial"

(* While no error has been returned a phase is complete, started, forgotten, or
   waits for something that is not complete or not yet collected ... *)
Advancing(p) ==
    \/ PhaseComplete(task, p)
    \/ MaySkip(p)
    \/ Started(p)
    \/ \E r \in Req[p] : ~PhaseComplete(task, r) \/ active[r] # NoPhaseJob

(* ... and a phase that no job works on has no trace of a failure. *)
Clean(p) ==
    active[p] = NoPhaseJob => \A t \in TasksOf(p) : task[t] \in {"Initial", "Success"}

Advances == pc = "phases" /\ ~errs => \A p \in Phase : Advancing(p) /\ Clean(p)

(* Tasks are only stopped with the plan. *)
StopsWithPlan ==
    (\E t \in Task : task[t] = "Stopped") =>
        \/ plan = "stopping" /\ pc \in {"phases", "clear", "end"}
        \/ plan = "stopped"

(* The row run_plan overwrites when it starts the plan *)
SeenRunnable ==
    pc \in {"disable", "start"} /\ seen \in Runnable
        => plan \in {"initial", "failed", "invalid", "none"}

(* None of the tasks of a plan that has not been run has been touched. *)
Fresh ==
    (\/ plan = "initial"
     \/ pc \in {"disable", "start", "setid", "first"} /\ seen = "initial")
        => \A t \in Task : task[t] = "Initial"

OverComplete ==
    pc \in {"clear", "end"} /\ ~errs => AllPhasesComplete(task) \/ RootSkipped

Justified ==
    /\ plan \notin ActiveState
    /\ plan \in {"failed", "stopped"} => RootSkipped

BackedUp ==
    /\ pc = "backup" => Justified
    /\ backup => Justified /\ pc \in {"idle", "finish"}

SuccessInv ==
    /\ Advances
    /\ StopsWithPlan
    /\ SeenRunnable
    /\ Fresh
    /\ OverComplete
    /\ BackedUp
    /\ SuccessfulPlanComplete

-----------------------------------------------------------------------------

LEMMA LeastOfSome ==
    ASSUME NEW S, S \subseteq Nat, S # {}
    PROVE  \E m \in S : \A n \in S : ~(n < m)
<1> DEFINE R == OpToRel(<, Nat)
<1>1. IsWellFoundedOn(R, Nat)
  BY NatLessThanWellFounded, Zenon
<1> HIDE DEF R
<1>2. PICK m \in S : \A n \in S : ~(<<n, m>> \in R)
  BY <1>1, WFMin
<1> USE DEF R
<1>3. \A n \in S : n < m => <<n, m>> \in R
  BY DEF OpToRel
<1> QED
  BY <1>2, <1>3, Zenon

(* A phase of a plan that is not complete is the first one that is not. *)
LEMMA FirstIncomplete ==
    ASSUME ~AllPhasesComplete(task)
    PROVE  \E p \in Phase : /\ ~PhaseComplete(task, p)
                            /\ \A r \in Req[p] : PhaseComplete(task, r)
<1> DEFINE S == {p \in Phase : ~PhaseComplete(task, p)}
<1>1. \A t \in Task : PhaseOf[t] \in Phase /\ t \in TasksOf(PhaseOf[t])
  BY ShapeAssumption DEF TasksOf
<1>2. S # {}
  BY <1>1 DEF AllPhasesComplete, PhaseComplete
<1>3. PICK m \in S : \A n \in S : ~(n < m)
  BY <1>2, LeastOfSome, ShapeAssumption
<1>4. \A r \in Req[m] : r \in Phase /\ r < m
  BY <1>3, ShapeAssumption
<1>5. \A r \in Req[m] : PhaseComplete(task, r)
  BY <1>3, <1>4
<1> QED
  BY <1>3, <1>5

(* ready_phases(-1): with no task running or stopped, whatever can be started is,
   but a phase that waits for nothing only if none has failed. *)
LEMMA ReadyAtStartAll ==
    ASSUME task \in [Task -> TaskState],
           \A t \in Task : task[t] \notin {"Running", "Stopped"},
           NEW p \in Phase, ~PhaseComplete(task, p),
           \A r \in Req[p] : PhaseComplete(task, r),
           Req[p] # {} \/ FailedPhases(task) = {}
    PROVE  p \in ReadyAtStart(task)
<1> DEFINE reset == ResetFailed(task)
<1>0. Req[p] \subseteq Phase /\ \A r \in Req[p] : r < p
  BY ShapeAssumption
<1>1. /\ \E t \in TasksOf(p) : reset[t] = "Initial"
      /\ \A r \in Req[p] : PhaseComplete(reset, r)
  <2>1. PICK t \in TasksOf(p) : task[t] # "Success"
    BY DEF PhaseComplete
  <2>2. t \in Task /\ task[t] \in {"Initial", "Failed"}
    BY <2>1 DEF TasksOf, TaskState
  <2>3. reset[t] = "Initial"
    BY <2>2 DEF ResetFailed
  <2>4. \A u \in Task : task[u] = "Success" => reset[u] = "Success"
    BY DEF ResetFailed
  <2>5. \A r \in Req[p] : PhaseComplete(reset, r)
    BY <2>4 DEF PhaseComplete, TasksOf
  <2> QED
    BY <2>3, <2>5
<1>2. ASSUME NEW c \in Req[p] PROVE p \in ReadyAtStart(task)
  <2>1. c \in Phase /\ PhaseComplete(task, c) /\ p > c
    BY <1>0, <1>2, ShapeAssumption
  <2>2. p \in ReadyAfter(reset, c)
    BY <1>1, <2>1 DEF ReadyAfter
  <2> QED
    BY <2>1, <2>2, Zenon DEF ReadyAtStart
<1>3. CASE FailedPhases(task) = {}
  BY <1>1, <1>3, Zenon DEF ReadyAtStart
<1> QED
  BY <1>2, <1>3

-----------------------------------------------------------------------------

LEMMA InitSuccess == Init => SuccessInv
BY DEF Init, SuccessInv, Advances, StopsWithPlan, SeenRunnable, Fresh, OverComplete,
       BackedUp, SuccessfulPlanComplete

(* The plan is stopped or marked invalid, and nothing else changes. *)
LEMMA PlanRowSuccess ==
    ASSUME OrderInv, SuccessInv,
           UNCHANGED <<task, toStart, active, pc, seen, errs, backup>>,
           \/ plan' = plan
           \/ plan = "running" /\ plan' = "stopping"
           \/ plan \in Runnable /\ plan' = "invalid"
    PROVE  SuccessInv'
<1> USE DEF SuccessInv, Runnable
<1>0. PlanHeld
  BY DEF OrderInv
<1>1. Advances'
  BY DEF Advances, Advancing, MaySkip, Clean, Started, PhaseComplete
<1>2. StopsWithPlan' /\ SeenRunnable' /\ Fresh'
  BY <1>0 DEF StopsWithPlan, SeenRunnable, Fresh, PlanHeld, Executing, ActiveState
<1>3. OverComplete' /\ SuccessfulPlanComplete'
  BY DEF OverComplete, SuccessfulPlanComplete, AllPhasesComplete, RootSkipped
<1>4. BackedUp'
  BY <1>0 DEF BackedUp, Justified, RootSkipped, PlanHeld, Executing, ActiveState
<1> QED
  BY <1>1, <1>2, <1>3, <1>4

LEMMA RequestSuccess ==
    ASSUME Steady, OrderInv, SuccessInv, Request
    PROVE  SuccessInv'
<1>0. TypeOK /\ PlanHeld
  BY DEF OrderInv
<1>1. ASSUME NEW k, Commits(k)
      PROVE  /\ Accepted(k)
             /\ UNCHANGED <<pc, seen, errs, toStart, active, backup>>
  BY <1>1, <1>0 DEF Commits, TypeOK, Steady, coordVars, hostVars
<1>2. ASSUME Accepted("create") \/ Accepted("delete"), TasksReplaced,
             UNCHANGED <<pc, backup, seen>>, plan' \in {"initial", "none"}
      PROVE  SuccessInv'
  <2>1. pc \notin Executing
    BY <1>0, <1>2 DEF Accepted, PlanHeld
  <2>2. Advances' /\ OverComplete' /\ SuccessfulPlanComplete'
    BY <1>2, <2>1 DEF Advances, OverComplete, SuccessfulPlanComplete, Executing
  <2>3. StopsWithPlan' /\ SeenRunnable' /\ Fresh'
    BY <1>2 DEF StopsWithPlan, SeenRunnable, Fresh, TasksReplaced
  <2>4. BackedUp'
    BY <1>2 DEF SuccessInv, BackedUp, Justified, ActiveState
  <2> QED
    BY <2>2, <2>3, <2>4 DEF SuccessInv
<1>3. CASE CreatePlan \/ CreatePlanFails
  BY <1>1, <1>2, <1>3 DEF CreatePlan, CreatePlanFails
<1>4. CASE DeletePlan
  BY <1>1, <1>2, <1>4 DEF DeletePlan
<1>5. CASE StopPlan
  <2>1. plan = "running" /\ UNCHANGED <<pc, seen, errs, toStart, active, backup>>
    BY <1>1, <1>5 DEF StopPlan, Accepted
  <2> QED
    BY <1>5, <2>1, PlanRowSuccess DEF StopPlan
<1>6. CASE ChangeModel
  <2>1. plan \in Runnable /\ UNCHANGED <<pc, seen, errs, toStart, active, backup>>
    BY <1>1, <1>6 DEF ChangeModel, Accepted
  <2> QED
    BY <1>6, <2>1, PlanRowSuccess DEF ChangeModel
<1>7. CASE ChangeModelOnly \/ RunPlanBackground
  BY <1>7, PlanRowSuccess
     DEF ChangeModelOnly, RunPlanBackground, planVars, coordVars, hostVars
<1>8. CASE KillPlan
  BY <1>8, PlanRowSuccess DEF KillPlan, coordVars
<1> QED
  BY <1>3, <1>4, <1>5, <1>6, <1>7, <1>8 DEF Request, Steady

-----------------------------------------------------------------------------

(* Before the polling loop, and after it, run_plan touches no task. *)
LEMMA OutsideLoopSuccess ==
    ASSUME OrderInv, SuccessInv,
           \/ StartRunPlan \/ DisablePuppet \/ RunPlanStart \/ SetCeleryTaskId
           \/ ClearPlan \/ EndPlan \/ BackupModel \/ FinishRunPlan
    PROVE  SuccessInv'
<1> USE DEF SuccessInv
<1>0. PlanHeld
  BY DEF OrderInv
<1>1. ASSUME task' = task, pc' # "phases", StopsWithPlan',
             SeenRunnable', Fresh', OverComplete', BackedUp', SuccessfulPlanComplete'
      PROVE  SuccessInv'
  BY <1>1 DEF Advances
<1>2. CASE StartRunPlan
  <2>1. pc = "idle" /\ plan \notin ActiveState /\ plan' = plan
    BY <1>0, <1>2 DEF StartRunPlan, PlanHeld, Executing
  <2>2. /\ task' = task
        /\ \/ pc' = "idle" /\ backup' = backup
           \/ pc' = "disable" /\ seen' = plan /\ backup' = FALSE
        /\ pc' = "idle" => seen' = seen
    <3>1. CASE plan = "none"
      BY <3>1, <1>2, <2>1 DEF StartRunPlan, ActiveState
    <3>2. CASE plan # "none"
      BY <3>2, <1>2, <2>1, Zenon DEF StartRunPlan
    <3> QED
      BY <3>1, <3>2
  <2>3. StopsWithPlan' /\ SeenRunnable' /\ Fresh' /\ OverComplete'
    BY <2>1, <2>2 DEF StopsWithPlan, SeenRunnable, Fresh, OverComplete, Runnable
  <2>4. BackedUp' /\ SuccessfulPlanComplete'
    BY <2>1, <2>2 DEF BackedUp, Justified, RootSkipped, SuccessfulPlanComplete,
                      AllPhasesComplete
  <2> QED
    BY <1>1, <2>2, <2>3, <2>4
<1>3. CASE DisablePuppet
  <2>1. pc = "disable" /\ pc' = "start"
        /\ UNCHANGED <<plan, task, seen, errs, backup>>
    BY <1>3 DEF DisablePuppet, planVars
  <2>2. StopsWithPlan' /\ SeenRunnable' /\ Fresh' /\ OverComplete'
    BY <2>1 DEF StopsWithPlan, SeenRunnable, Fresh, OverComplete
  <2>3. BackedUp' /\ SuccessfulPlanComplete'
    BY <2>1 DEF BackedUp, SuccessfulPlanComplete, AllPhasesComplete
  <2> QED
    BY <1>1, <2>1, <2>2, <2>3
<1>4. CASE RunPlanStart
  <2>1. /\ pc = "start" /\ UNCHANGED <<task, errs, backup, seen>>
        /\ \/ /\ seen \in Runnable /\ plan' = "running" /\ pc' = "setid"
           \/ plan' = plan /\ pc' = "finish"
    BY <1>4 DEF RunPlanStart, hostVars
  <2>2. StopsWithPlan'
    <3>1. CASE plan' = plan
      BY <2>1, <3>1 DEF StopsWithPlan
    <3>2. CASE seen \in Runnable
      BY <2>1, <3>2 DEF StopsWithPlan, SeenRunnable
    <3> QED
      BY <2>1, <3>1, <3>2
  <2>3. SeenRunnable' /\ Fresh' /\ OverComplete' /\ SuccessfulPlanComplete'
    BY <2>1 DEF SeenRunnable, Fresh, OverComplete, SuccessfulPlanComplete,
                AllPhasesComplete
  <2>4. BackedUp'
    BY <2>1 DEF BackedUp
  <2> QED
    BY <1>1, <2>1, <2>2, <2>3, <2>4
<1>5. CASE SetCeleryTaskId
  <2>1. pc = "setid" /\ pc' = "first" /\ UNCHANGED <<plan, task, backup, seen>>
    BY <1>0, <1>5 DEF SetCeleryTaskId, PlanHeld, Executing, ActiveState, hostVars
  <2>2. StopsWithPlan' /\ SeenRunnable' /\ Fresh' /\ OverComplete'
    BY <2>1 DEF StopsWithPlan, SeenRunnable, Fresh, OverComplete
  <2>3. BackedUp' /\ SuccessfulPlanComplete'
    BY <2>1 DEF BackedUp, SuccessfulPlanComplete, AllPhasesComplete
  <2> QED
    BY <1>1, <2>1, <2>2, <2>3
<1>6. CASE ClearPlan
  <2>1. pc = "clear" /\ pc' = "end" /\ UNCHANGED <<plan, task, errs, backup, seen>>
    BY <1>0, <1>6 DEF ClearPlan, PlanHeld, Executing, ActiveState
  <2>2. StopsWithPlan' /\ SeenRunnable' /\ Fresh'
    BY <2>1 DEF StopsWithPlan, SeenRunnable, Fresh
  <2>3. OverComplete' /\ SuccessfulPlanComplete'
    BY <2>1 DEF OverComplete, SuccessfulPlanComplete, AllPhasesComplete, RootSkipped
  <2>4. BackedUp'
    BY <2>1 DEF BackedUp
  <2> QED
    BY <1>1, <2>1, <2>2, <2>3, <2>4
<1>7. CASE EndPlan
  <2>1. pc = "end" /\ plan \in ActiveState /\ UNCHANGED <<task, backup, seen>>
    BY <1>0, <1>7 DEF EndPlan, PlanHeld, Executing, hostVars
  <2>2. /\ plan' = EndState(plan, task)
        /\ pc' = IF errs THEN "finish" ELSE "backup"
    BY <1>7, <2>1 DEF EndPlan
  <2>3. plan' = "successful" <=> AllPhasesComplete(task)
    BY <2>2 DEF EndState
  <2>4. SuccessfulPlanComplete'
    BY <2>1, <2>3 DEF SuccessfulPlanComplete, AllPhasesComplete
  <2>5. StopsWithPlan'
    <3> SUFFICES ASSUME NEW t \in Task, task[t] = "Stopped"
                 PROVE  plan' = "stopped"
      BY <2>1 DEF StopsWithPlan
    <3>1. plan = "stopping" /\ ~AllPhasesComplete(task)
      BY <2>1 DEF StopsWithPlan, ActiveState, AllPhasesComplete
    <3> QED
      BY <2>2, <3>1 DEF EndState
  <2>6. SeenRunnable' /\ Fresh' /\ OverComplete'
    BY <2>2 DEF SeenRunnable, Fresh, OverComplete, EndState
  <2>7. BackedUp'
    <3>1. ~backup /\ plan' \notin ActiveState
      BY <2>1, <2>2, EndStateOver DEF BackedUp
    <3>2. pc' = "backup" => plan' = "successful" \/ RootSkipped'
      BY <2>1, <2>2, <2>3 DEF OverComplete, RootSkipped
    <3> QED
      BY <2>1, <3>1, <3>2 DEF BackedUp, Justified
  <2> QED
    BY <1>1, <2>1, <2>2, <2>4, <2>5, <2>6, <2>7
<1>8. CASE BackupModel \/ FinishRunPlan
  <2>1. /\ UNCHANGED <<plan, task>>
        /\ \/ pc = "backup" /\ pc' = "finish" /\ seen' = seen
           \/ pc = "finish" /\ pc' = "idle" /\ backup' = backup /\ seen' = "none"
    BY <1>8 DEF BackupModel, FinishRunPlan, planVars, hostVars
  <2>2. StopsWithPlan' /\ SeenRunnable' /\ Fresh' /\ OverComplete'
    BY <2>1 DEF StopsWithPlan, SeenRunnable, Fresh, OverComplete
  <2>3. BackedUp' /\ SuccessfulPlanComplete'
    BY <2>1 DEF BackedUp, Justified, RootSkipped, SuccessfulPlanComplete,
                AllPhasesComplete
  <2> QED
    BY <1>1, <2>1, <2>2, <2>3
<1> QED
  BY <1>2, <1>3, <1>4, <1>5, <1>6, <1>7, <1>8

(* In the polling loop the plan is active; what is left to show is that the phases
   advance, that a task is stopped only if the plan is, and what holds at its end. *)
LEMMA InLoopSuccess ==
    ASSUME OrderInv, SuccessInv, pc \in {"first", "phases"}, pc' \in {"phases", "clear"},
           UNCHANGED <<plan, backup>>,
           Advances',
           pc' = "clear" => OverComplete',
           \A t \in Task : task'[t] = "Stopped" => task[t] = "Stopped" \/ plan = "stopping"
    PROVE  SuccessInv'
<1>1. plan \in ActiveState
  BY DEF OrderInv, PlanHeld, Executing
<1>2. StopsWithPlan'
  BY <1>1 DEF SuccessInv, StopsWithPlan, ActiveState
<1>3. SeenRunnable' /\ Fresh' /\ OverComplete' /\ SuccessfulPlanComplete'
  BY <1>1 DEF SeenRunnable, Fresh, OverComplete, SuccessfulPlanComplete, ActiveState
<1>4. BackedUp'
  BY DEF SuccessInv, BackedUp
<1> QED
  BY <1>2, <1>3, <1>4 DEF SuccessInv

LEMMA FirstReadySuccess ==
    ASSUME OrderInv, SuccessInv, FirstReadyPhases
    PROVE  SuccessInv'
<1>0. /\ TypeOK /\ pc = "first" /\ pc' = "phases"
      /\ UNCHANGED <<plan, backup, seen>>
      /\ task' = ResetFailed(task) /\ toStart' = ReadyAtStart(task)
      /\ \A p \in Phase : active'[p] = NoPhaseJob
  BY DEF OrderInv, FirstReadyPhases, hostVars
<1>1. task \in [Task -> TaskState] /\ task' \in [Task -> TaskState]
  BY <1>0, OperatorTypes, ShapeAssumption DEF TypeOK, ResetFailed, TaskState
<1>2. \A t \in Task : task[t] \notin {"Running", "Stopped"}
  <2>1. plan \in ActiveState
    BY <1>0 DEF OrderInv, PlanHeld, Executing
  <2> QED
    BY <1>0, <2>1, NothingLeft DEF SuccessInv, StopsWithPlan, ActiveState
<1>3. \A t \in Task : /\ task'[t] \in {"Initial", "Success"}
                      /\ task'[t] = "Success" <=> task[t] = "Success"
  BY <1>0, <1>1, <1>2 DEF ResetFailed, TaskState
<1>4. \A p \in Phase : PhaseComplete(task', p) <=> PhaseComplete(task, p)
  BY <1>1, <1>3, SameComplete
<1>5. Advances'
  <2> SUFFICES ASSUME NEW p \in Phase PROVE Advancing(p)' /\ Clean(p)'
    BY DEF Advances
  <2>1. Clean(p)'
    BY <1>3 DEF Clean, TasksOf
  <2>2. Advancing(p)'
    <3> SUFFICES ASSUME ~PhaseComplete(task', p),
                        \A r \in Req[p] : PhaseComplete(task', r),
                        Req[p] # {} \/ seen = "initial"
                 PROVE  p \in toStart'
      BY <1>0 DEF Advancing, MaySkip, Started
    <3>1. ~PhaseComplete(task, p) /\ \A r \in Req[p] : PhaseComplete(task, r)
      BY <1>4, ShapeAssumption
    <3>2. seen = "initial" => FailedPhases(task) = {}
      BY <1>0 DEF SuccessInv, Fresh, FailedPhases, TasksOf
    <3> QED
      BY <1>0, <1>1, <1>2, <3>1, <3>2, ReadyAtStartAll
  <2> QED
    BY <2>1, <2>2
<1> QED
  BY <1>0, <1>3, <1>5, InLoopSuccess

(* Nothing awaited, nothing to start, no error: every phase is complete. *)
LEMMA PhasesOverSuccess ==
    ASSUME OrderInv, SuccessInv, PhasesOver
    PROVE  SuccessInv'
<1>0. /\ TypeOK /\ pc = "phases" /\ pc' = "clear" /\ toStart = {}
      /\ UNCHANGED <<plan, backup, errs, seen>>
      /\ \A p \in Phase : active[p] = NoPhaseJob
      /\ task' = FailRunning(task)
  BY DEF OrderInv, PhasesOver, hostVars
<1>1. \A t \in Task : /\ task[t] \in {"Initial", "Success"} => task'[t] = task[t]
                      /\ task'[t] = "Stopped" => task[t] = "Stopped"
  BY <1>0 DEF FailRunning
<1>2. ASSUME ~errs, ~AllPhasesComplete(task) PROVE RootSkipped'
  <2>1. PICK p \in Phase : /\ ~PhaseComplete(task, p)
                           /\ \A r \in Req[p] : PhaseComplete(task, r)
    BY <1>2, FirstIncomplete
  <2>2. Advancing(p) /\ Clean(p) /\ ~Started(p)
    BY <1>0, <1>2, EnvironmentAssumption DEF SuccessInv, Advances, Started
  <2>3. MaySkip(p)
    BY <1>0, <2>1, <2>2, ShapeAssumption DEF Advancing
  <2>4. PICK t \in TasksOf(p) : task[t] # "Success"
    BY <2>1 DEF PhaseComplete
  <2>5. task'[t] = "Initial"
    BY <1>0, <1>1, <2>2, <2>4 DEF Clean, TasksOf
  <2> QED
    BY <1>0, <2>3, <2>4, <2>5 DEF RootSkipped, MaySkip
<1>3. Advances' /\ OverComplete'
  BY <1>0, <1>1, <1>2 DEF Advances, OverComplete, AllPhasesComplete
<1> QED
  BY <1>0, <1>1, <1>3, InLoopSuccess

LEMMA RunCleanupSuccess ==
    ASSUME CleanupLast, OrderInv, SuccessInv, NEW p \in Phase, RunCleanupPhase(p)
    PROVE  SuccessInv'
<1>0. /\ TypeOK /\ pc = "phases" /\ pc' = "phases" /\ Kind[p] = "cleanup"
      /\ UNCHANGED <<plan, backup, active, seen>> /\ toStart' = toStart \ {p}
  BY DEF OrderInv, RunCleanupPhase, hostVars
<1>1. \A t \in Task : task'[t] = "Stopped" => task[t] = "Stopped" \/ plan = "stopping"
  BY <1>0 DEF RunCleanupPhase, StopRunning
<1>2. Advances'
  <2> SUFFICES ASSUME ~errs', NEW q \in Phase PROVE Advancing(q)' /\ Clean(q)'
    BY DEF Advances
  <2>1. /\ ~errs
        /\ \A t \in Task : task'[t] = IF PhaseOf[t] = p THEN "Success" ELSE task[t]
    BY DEF RunCleanupPhase
  <2>2. Advancing(q) /\ Clean(q)
    BY <1>0, <2>1 DEF SuccessInv, Advances
  <2>3. Clean(q)'
    BY <1>0, <2>1, <2>2 DEF Clean, TasksOf
  <2>4. PhaseComplete(task', p)
    BY <2>1 DEF PhaseComplete, TasksOf
  <2>5. \A r \in Phase \ {p} : PhaseComplete(task', r) <=> PhaseComplete(task, r)
    BY <2>1 DEF PhaseComplete, TasksOf
  <2>6. p \notin Req[q] /\ Req[q] \subseteq Phase
    BY <1>0, ShapeAssumption DEF CleanupLast
  <2>7. Advancing(q)'
    BY <1>0, <2>2, <2>4, <2>5, <2>6 DEF Advancing, MaySkip, Started
  <2> QED
    BY <2>3, <2>7
<1> QED
  BY <1>0, <1>1, <1>2, InLoopSuccess

LEMMA EnqueueSuccess ==
    ASSUME OrderInv, SuccessInv, NEW p \in Phase, NEW j \in JobSlot, EnqueuePhase(p, j)
    PROVE  SuccessInv'
<1>0. /\ TypeOK /\ pc = "phases" /\ pc' = "phases"
      /\ UNCHANGED <<plan, backup, task, errs, seen>> /\ toStart' = toStart \ {p}
      /\ p \in toStart
  BY DEF OrderInv, EnqueuePhase, hostVars, planVars
<1>1. active'[p] = j /\ \A q \in Phase \ {p} : active'[q] = active[q]
  BY <1>0 DEF EnqueuePhase, TypeOK
<1>2. Advances'
  <2> SUFFICES ASSUME ~errs, NEW q \in Phase PROVE Advancing(q)' /\ Clean(q)'
    BY <1>0 DEF Advances
  <2>1. Advancing(q) /\ Clean(q)
    BY <1>0 DEF SuccessInv, Advances
  <2>2. Clean(q)'
    BY <1>0, <1>1, <2>1, EnvironmentAssumption DEF Clean
  <2>3. PhaseComplete(task, q) => PhaseComplete(task', q)
    BY <1>0
  <2>4. Started(q) => Started(q)'
    BY <1>0, <1>1 DEF Started
  <2>5. \A r \in Req[q] : ~PhaseComplete(task, r) \/ active[r] # NoPhaseJob
                            => ~PhaseComplete(task', r) \/ active'[r] # NoPhaseJob
    BY <1>0, <1>1, ShapeAssumption, EnvironmentAssumption
  <2>6. Advancing(q)'
    BY <1>0, <2>1, <2>3, <2>4, <2>5 DEF Advancing, MaySkip
  <2> QED
    BY <2>2, <2>6
<1> QED
  BY <1>0, <1>2, InLoopSuccess

(* The phases that wait for the one collected, and for nothing else that is not
   complete, are started now. *)
LEMMA CollectSuccess ==
    ASSUME OrderInv, SuccessInv, NEW c \in Phase, CollectPhase(c)
    PROVE  SuccessInv'
<1> DEFINE j == active[c]
<1>0. /\ TypeOK /\ pc = "phases" /\ pc' = "phases"
      /\ UNCHANGED <<plan, backup, task, seen>> /\ toStart = {}
      /\ j \in JobSlot /\ job[j].st = "done"
  BY DEF OrderInv, CollectPhase, hostVars
<1>1. active'[c] = NoPhaseJob /\ \A q \in Phase \ {c} : active'[q] = active[q]
  BY <1>0 DEF CollectPhase, TypeOK
<1>2. Advances'
  <2> SUFFICES ASSUME ~errs', NEW q \in Phase PROVE Advancing(q)' /\ Clean(q)'
    BY DEF Advances
  <2>1. ~errs /\ ~job[j].err /\ toStart' = ReadyAfter(task, c)
    BY DEF CollectPhase
  <2>2. PhaseComplete(task, c)
    BY <1>0, <2>1 DEF OrderInv, JobsKnow, JobKnows, ActiveJobs
  <2>3. Advancing(q) /\ Clean(q)
    BY <1>0, <2>1 DEF SuccessInv, Advances
  <2>4. Clean(q)'
    <3>1. CASE q = c
      BY <1>0, <2>2, <3>1 DEF Clean, PhaseComplete
    <3>2. CASE q # c
      BY <1>0, <1>1, <2>3, <3>2 DEF Clean
    <3> QED
      BY <3>1, <3>2
  <2>5. Advancing(q)'
    <3> SUFFICES ASSUME ~PhaseComplete(task, q), active[q] \notin JobSlot, ~MaySkip(q),
                        \A r \in Req[q] : /\ PhaseComplete(task, r)
                                          /\ r # c => active[r] = NoPhaseJob
                 PROVE  q \in ReadyAfter(task, c)
      <4>1. q # c => active'[q] = active[q]
        BY <1>1
      <4>2. \A r \in Req[q] \ {c} : active'[r] = active[r]
        BY <1>1, ShapeAssumption
      <4> QED
        BY <1>0, <2>1, <2>2, <4>1, <4>2 DEF Advancing, MaySkip, Started
    <3>1. c \in Req[q]
      BY <1>0, <2>3 DEF Advancing, Started
    <3>2. q > c
      BY <3>1, ShapeAssumption
    <3>3. active[q] = NoPhaseJob
      BY <1>0 DEF TypeOK
    <3>4. \E t \in TasksOf(q) : task[t] = "Initial"
      BY <2>3, <3>3 DEF Clean, PhaseComplete
    <3> QED
      BY <3>1, <3>2, <3>4 DEF ReadyAfter
  <2> QED
    BY <2>4, <2>5
<1> QED
  BY <1>0, <1>2, InLoopSuccess

LEMMA CoordinatorSuccess ==
    ASSUME CleanupLast, OrderInv, SuccessInv, Coordinator
    PROVE  SuccessInv'
BY OutsideLoopSuccess, FirstReadySuccess, PhasesOverSuccess, RunCleanupSuccess,
   EnqueueSuccess, CollectSuccess DEF Coordinator

-----------------------------------------------------------------------------

(* The phase of a live job has been started and is awaited, so what the job does
   to its tasks makes nothing stand still. *)
LEMMA JobSuccess ==
    ASSUME OrderInv, SuccessInv, NEW j \in JobSlot, Job(j) \/ JobDies(j)
    PROVE  SuccessInv'
<1> DEFINE p == job[j].phase
<1>0. JobStep /\ TypeOK /\ TypeOK'
  BY JobTypeOK
     DEF OrderInv, Job, JobDies, StartJob, StartCallbackTask, EndCallbackPhase,
         ApplyConfigPhase, PuppetTimeout, EndConfigPhase, EndCallbackTask,
         PuppetFeedback
<1>1. UNCHANGED <<plan, backup, pc, seen, errs, toStart, active>>
  BY <1>0 DEF JobStep, coordVars, hostVars
<1>2. /\ Live(j)
      /\ \A t \in Task : PhaseOf[t] # p => task'[t] = task[t]
      /\ PhaseComplete(task, p) => PhaseComplete(task', p)
  <2>1. CASE JobDies(j)
    BY <2>1 DEF JobDies
  <2>2. CASE Job(j)
    <3>1. JobEffect(j)
      BY <2>2, <1>0, StartJobEffect, CallbackEffect, ConfigEffect DEF Job
    <3> QED
      BY <3>1 DEF JobEffect
  <2> QED
    BY <2>1, <2>2
<1>3. pc = "phases" /\ active[p] = j /\ p \in Phase /\ plan \in ActiveState
  BY <1>0, <1>2 DEF OrderInv, JobsOwned, TypeOK, JobRecord, PlanHeld, Executing
<1>4. \A q \in Phase \ {p} : PhaseComplete(task', q) <=> PhaseComplete(task, q)
  BY <1>2 DEF PhaseComplete, TasksOf
<1>5. Advances'
  <2> SUFFICES ASSUME ~errs, NEW q \in Phase PROVE Advancing(q)' /\ Clean(q)'
    BY <1>1 DEF Advances
  <2>1. Advancing(q) /\ Clean(q)
    BY <1>3 DEF SuccessInv, Advances
  <2>2. CASE q = p
    BY <1>1, <1>3, <2>2, EnvironmentAssumption DEF Advancing, Started, Clean
  <2>3. CASE q # p
    <3>1. Clean(q)'
      BY <1>1, <1>2, <2>1, <2>3 DEF Clean, TasksOf
    <3>2. \A r \in Req[q] : ~PhaseComplete(task, r) \/ active[r] # NoPhaseJob
                              => ~PhaseComplete(task', r) \/ active'[r] # NoPhaseJob
      BY <1>1, <1>3, <1>4, ShapeAssumption, EnvironmentAssumption
    <3>3. Advancing(q)'
      BY <1>1, <1>4, <2>1, <2>3, <3>2 DEF Advancing, MaySkip, Started
    <3> QED
      BY <3>1, <3>3
  <2> QED
    BY <2>2, <2>3
<1>6. \A t \in Task : task'[t] = "Stopped" => task[t] = "Stopped" \/ plan = "stopping"
  <2> USE <1>3 DEF ActiveState
  <2>1. CASE StartJob(j)
    BY <2>1 DEF StartJob, StopRunning
  <2>2. CASE StartCallbackTask(j)
    BY <1>0, <2>2 DEF StartCallbackTask, TypeOK, JobRecord
  <2>3. CASE EndCallbackPhase(j) \/ EndConfigPhase(j) \/ JobDies(j)
    BY <2>3 DEF EndCallbackPhase, EndConfigPhase, JobDies
  <2>4. CASE ApplyConfigPhase(j)
    BY <2>4 DEF ApplyConfigPhase
  <2>5. CASE PuppetTimeout(j)
    BY <2>5 DEF PuppetTimeout
  <2>6. ASSUME NEW o \in {"Success", "Failed", "Stopped"}, EndCallbackTask(j, o),
               NEW t \in Task, task'[t] = "Stopped"
        PROVE  task[t] = "Stopped" \/ plan = "stopping"
    BY <1>0, <2>6 DEF EndCallbackTask, TypeOK
  <2>7. ASSUME NEW u \in Task, NEW o \in {"Success", "Failed"}, PuppetFeedback(j, u, o),
               NEW t \in Task, task'[t] = "Stopped"
        PROVE  task[t] = "Stopped" \/ plan = "stopping"
    BY <1>0, <2>7 DEF PuppetFeedback, TypeOK
  <2> QED
    BY <2>1, <2>2, <2>3, <2>4, <2>5, <2>6, <2>7 DEF Job
<1> QED
  BY <1>1, <1>3, <1>5, <1>6, InLoopSuccess

LEMMA NextSuccess ==
    ASSUME Steady, CleanupLast, OrderInv, SuccessInv, [Next]_vars
    PROVE  SuccessInv'
<1>1. CASE UNCHANGED vars
  BY <1>1, PlanRowSuccess DEF vars
<1>2. ~CoordinatorDies /\ ~PhasesRaise /\ ~RunPlanRaises /\ ~RestartService
      /\ ~MonitorPlan
  BY DEF Steady, CoordinatorDies, PhasesRaise, RunPlanRaises, RestartService,
         MonitorPlan, OrderInv, Rest
<1>3. CASE PlanKilled
  <2>1. pc # "phases"
    BY <1>3 DEF PlanKilled, OrderInv, PlanHeld, Executing
  <2>2. task \in [Task -> TaskState] /\ \A t \in Task : task[t] # "Running"
    BY <2>1, NothingLeft DEF OrderInv, TypeOK
  <2>3. [t \in Task |-> IF plan = "stopped" /\ task[t] = "Running"
                        THEN "Stopped" ELSE task[t]] = task
    BY <2>2
  <2>4. task' = task /\ (plan' = plan \/ (plan = "initial" /\ plan' = "invalid"))
    BY <1>3, <2>3 DEF PlanKilled, FixInitialPlan
  <2> QED
    BY <1>3, <2>4, PlanRowSuccess DEF PlanKilled, coordVars, Runnable
<1> QED
  BY <1>1, <1>2, <1>3, RequestSuccess, CoordinatorSuccess, JobSuccess DEF Next

LEMMA SuccessInvariant ==
    ASSUME Steady, NoJoins, CleanupLast
    PROVE  Spec => []SuccessInv
BY InitSuccess, NextSuccess, OrderInvariant, PTL DEF Spec

(* _run_plan_complete: when the phases are over and none returned an error every task
   of the plan has succeeded, unless the plan was resumed and has a phase that waits
   for nothing and had not been begun.  There is no other way. *)
THEOREM NoErrorIsSuccess ==
    ASSUME Steady, NoJoins, CleanupLast
    PROVE  Spec => []NoErrorMeansComplete
<1>1. SuccessInv => NoErrorMeansComplete
  BY DEF SuccessInv, OverComplete, NoErrorMeansComplete
<1> QED
  BY <1>1, SuccessInvariant, PTL

(* _backup_model_for_restore: the model is kept only after a plan that succeeded, or
   skipped a phase, and the copy is gone before another plan is started. *)
THEOREM BackupIsOfSuccess ==
    ASSUME Steady, NoJoins, CleanupLast
    PROVE  Spec => []BackupOfSuccessOnly
<1>1. SuccessInv => BackupOfSuccessOnly
  BY DEF SuccessInv, BackedUp, Justified, BackupOfSuccessOnly
<1> QED
  BY <1>1, SuccessInvariant, PTL

(* BasePlan.end: a plan that is successful is complete, and stays so until it is
   replaced. *)
THEOREM SuccessIsComplete ==
    ASSUME Steady, NoJoins, CleanupLast
    PROVE  Spec => []SuccessfulPlanComplete
<1>1. SuccessInv => SuccessfulPlanComplete
  BY DEF SuccessInv
<1> QED
  BY <1>1, SuccessInvariant, PTL

=============================================================================
