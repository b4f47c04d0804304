------------------------ MODULE PlanExecution_order ------------------------
(***************************************************************************)
(* Proofs about PlanExecution: the phases are executed in order and        *)
(* nothing is left running, for every plan in which only the cleanup phase *)
(* waits for more than one phase.  A phase of another kind that waits for  *)
(* two can be enqueued twice (MCPlanExecution, shape Join), and none of    *)
(* these theorems holds of a plan with such a phase.                       *)
(***************************************************************************)
EXTENDS PlanExecution_proofs

(* Only the phase the coordinator runs itself waits for several. *)
NoJoins ==
    \A p \in Phase : Kind[p] # "cleanup" => \A r, s \in Req[p] : r = s

(* Requests read and commit at once, and of the processes only jobs die. *)
Steady == LongRequests = {} /\ Faults \subseteq {"job"}

(* The places in run_plan where the plan is active *)
Executing == {"setid", "first", "phases", "clear", "end"}

PlanHeld == plan \in ActiveState <=> pc \in Executing

(* Outside the polling loop nothing is awaited or to be enqueued, and no task
   is Running. *)
Rest ==
    /\ taskId \in {"none", "current"}
    /\ pc # "phases" => /\ toStart = {}
                        /\ \A p \in Phase : active[p] = NoPhaseJob
                        /\ \A t \in Task : task[t] # "Running"

(* A job that has not returned is the one awaited for its phase. *)
JobsOwned ==
    \A j \in JobSlot : Live(j) => /\ pc = "phases"
                                  /\ active[job[j].phase] = j

(* The job awaited for a phase is a job of that phase. *)
ActiveJobs ==
    \A p \in Phase : active[p] \in JobSlot =>
        /\ Kind[p] # "cleanup"
        /\ job[active[p]].st # "free"
        /\ job[active[p]].phase = p

(* What is started has something to do, all it waits for is complete, and its
   results have been collected if it is given to a job. *)
Started(p) == p \in toStart \/ active[p] \in JobSlot
StartedInOrder ==
    /\ \A p \in toStart : /\ active[p] = NoPhaseJob
                          /\ \E t \in TasksOf(p) : task[t] = "Initial"
    /\ \A p \in Phase : Started(p) =>
          \A r \in Req[p] : /\ PhaseComplete(task, r)
                            /\ Kind[p] # "cleanup" => active[r] = NoPhaseJob

(* What a job knows of the tasks of its phase: a config job has work left until it
   starts Puppet; a callback job has the tasks left that have not succeeded; a
   job that returned without an error has completed its phase. *)
JobKnows(j) ==
    LET p == job[j].phase
    IN  /\ job[j].st = "queued" =>
              /\ job[j].cur = NoTask
              /\ \E t \in TasksOf(p) : task[t] = "Initial"
        /\ job[j].st = "running" /\ Kind[p] = "config" =>
              /\ job[j].cur = NoTask
              /\ job[j].todo \subseteq TasksOf(p)
              /\ \E t \in TasksOf(p) : task[t] = "Initial"
        /\ job[j].st = "running" /\ Kind[p] = "callback" =>
              /\ job[j].todo \subseteq TasksOf(p)
              /\ job[j].cur \in (TasksOf(p) \cup {NoTask}) \ job[j].todo
              /\ \A t \in TasksOf(p) :
                    task[t] = "Success" <=> t \notin job[j].todo \cup {job[j].cur}
        /\ job[j].st = "done" /\ ~job[j].err /\ active[p] = j =>
              PhaseComplete(task, p)

JobsKnow == \A j \in JobSlot : JobKnows(j)

OrderInv ==
    /\ TypeOK
    /\ PlanHeld
    /\ Rest
    /\ JobsOwned
    /\ ActiveJobs
    /\ StartedInOrder
    /\ PhaseOrder
    /\ JobsKnow

-----------------------------------------------------------------------------

LEMMA InitOrder == Init => OrderInv
<1> SUFFICES ASSUME Init PROVE OrderInv
  OBVIOUS
<1>1. TypeOK
  BY InitTypeOK
<1>2. PlanHeld /\ Rest
  BY DEF Init, PlanHeld, Rest, ActiveState, Executing
<1>3. \A j \in JobSlot : job[j].st = "free"
  BY DEF Init, FreeJob
<1>4. JobsOwned /\ JobsKnow
  BY <1>3 DEF JobsOwned, JobsKnow, JobKnows, Live
<1>5. ActiveJobs /\ StartedInOrder
  BY EnvironmentAssumption DEF Init, ActiveJobs, StartedInOrder, Started
<1>6. PhaseOrder
  BY DEF Init, PhaseOrder
<1> QED
  BY <1>1, <1>2, <1>4, <1>5, <1>6 DEF OrderInv

(* Steps that touch neither the tasks nor the jobs nor what is awaited, and do not
   lead into or out of the polling loop. *)
LEMMA JobsUntouched ==
    ASSUME OrderInv, TypeOK', PlanHeld', taskId' \in {"none", "current"},
           UNCHANGED <<task, job, active, toStart>>,
           pc' = "phases" <=> pc = "phases"
    PROVE  OrderInv'
<1> USE DEF OrderInv
<1>1. Rest'
  BY DEF Rest
<1>2. JobsOwned'
  BY DEF JobsOwned, Live
<1>3. ActiveJobs' /\ JobsKnow'
  BY DEF ActiveJobs, JobsKnow, JobKnows, PhaseComplete
<1>4. StartedInOrder' /\ PhaseOrder'
  BY DEF StartedInOrder, Started, PhaseOrder, PhaseComplete
<1> QED
  BY <1>1, <1>2, <1>3, <1>4

(* While the plan is not active nothing is awaited and no job is left. *)
LEMMA NothingLeft ==
    ASSUME OrderInv, pc # "phases"
    PROVE  /\ toStart = {}
           /\ \A p \in Phase : active[p] = NoPhaseJob
           /\ \A t \in Task : task[t] # "Running"
           /\ \A j \in JobSlot : ~Live(j) /\ job[j].st \in {"free", "done"}
<1>1. \A j \in JobSlot : ~Live(j)
  BY DEF OrderInv, JobsOwned
<1>2. \A j \in JobSlot : job[j].st \in {"free", "done"}
  BY <1>1 DEF OrderInv, TypeOK, JobRecord, Live
<1> QED
  BY <1>1, <1>2 DEF OrderInv, Rest

(* Requests that do not take long find the state they commit on. *)
LEMMA RequestOrder ==
    ASSUME Steady, OrderInv, Request
    PROVE  OrderInv'
<1>0. TypeOK /\ TypeOK' /\ PlanHeld /\ taskId \in {"none", "current"}
  BY RequestTypeOK DEF OrderInv, Rest
<1>1. ASSUME NEW k, Commits(k)
      PROVE  /\ Accepted(k)
             /\ UNCHANGED <<pc, toStart, active>>
  BY <1>1, <1>0 DEF Commits, TypeOK, Steady, coordVars
<1>2. ASSUME Accepted("create") \/ Accepted("delete"), TasksReplaced,
             UNCHANGED <<pc, toStart, active>>,
             plan' \notin ActiveState, taskId' = "none"
      PROVE  OrderInv'
  <2>1. plan \notin ActiveState
    BY <1>2 DEF Accepted
  <2>2. pc \notin Executing /\ pc # "phases"
    BY <2>1, <1>0 DEF PlanHeld, Executing
  <2>3. /\ toStart' = {} 
        /\ \A p \in Phase : active'[p] = NoPhaseJob
        /\ \A j \in JobSlot : job[j].st \in {"free", "done"}
    BY <1>2, <2>2, NothingLeft
  <2>4. \A j \in JobSlot : job'[j] = job[j]
    BY <1>2, <2>3 DEF TasksReplaced
  <2>5. PlanHeld' /\ Rest'
    BY <1>2, <2>2, <2>3 DEF PlanHeld, Rest, TasksReplaced
  <2>6. JobsOwned'
    BY <2>3, <2>4 DEF JobsOwned, Live
  <2>7. ActiveJobs' /\ StartedInOrder'
    BY <2>3, EnvironmentAssumption DEF ActiveJobs, StartedInOrder, Started
  <2>8. PhaseOrder'
    BY <1>2 DEF PhaseOrder, TasksReplaced
  <2>9. JobsKnow'
    <3> SUFFICES ASSUME NEW j \in JobSlot PROVE JobKnows(j)'
      BY DEF JobsKnow
    <3>1. job'[j].st \in {"free", "done"} /\ job'[j].phase \in Phase
      BY <2>3, <2>4, <1>0 DEF TypeOK, JobRecord
    <3>2. active'[job'[j].phase] # j
      BY <3>1, <2>3, EnvironmentAssumption
    <3> QED
      BY <3>1, <3>2 DEF JobKnows
  <2> QED
    BY <1>0, <2>5, <2>6, <2>7, <2>8, <2>9 DEF OrderInv
<1>3. CASE CreatePlan
  BY <1>3, <1>1, <1>2 DEF CreatePlan, ActiveState
<1>4. CASE CreatePlanFails \/ DeletePlan
  BY <1>4, <1>1, <1>2 DEF CreatePlanFails, DeletePlan, ActiveState
<1>5. CASE StopPlan
  <2>1. plan = "running" /\ UNCHANGED <<pc, toStart, active>>
    BY <1>5, <1>1 DEF StopPlan, Accepted
  <2>2. PlanHeld'
    BY <2>1, <1>5, <1>0 DEF StopPlan, PlanHeld, ActiveState
  <2> QED
    BY <2>1, <2>2, <1>0, <1>5, JobsUntouched DEF StopPlan
<1>6. CASE ChangeModel
  <2>1. plan \in Runnable /\ UNCHANGED <<pc, toStart, active>>
    BY <1>6, <1>1 DEF ChangeModel, Accepted
  <2>2. PlanHeld'
    BY <2>1, <1>6, <1>0 DEF ChangeModel, PlanHeld, ActiveState, Runnable
  <2> QED
    BY <2>1, <2>2, <1>0, <1>6, JobsUntouched DEF ChangeModel
<1>7. CASE ChangeModelOnly \/ RunPlanBackground
  <2>1. UNCHANGED <<plan, pc, toStart, active, task, job, taskId>>
    BY <1>7 DEF ChangeModelOnly, RunPlanBackground, planVars, coordVars
  <2>2. PlanHeld'
    BY <2>1, <1>0 DEF PlanHeld
  <2> QED
    BY <2>1, <2>2, <1>0, JobsUntouched
<1>8. CASE KillPlan
  <2>1. UNCHANGED <<pc, toStart, active, task, job, taskId>>
    BY <1>8 DEF KillPlan, coordVars
  <2>2. PlanHeld'
    BY <2>1, <1>8, <1>0 DEF KillPlan, PlanHeld, ActiveState
  <2> QED
    BY <2>1, <2>2, <1>0, JobsUntouched
<1> QED
  BY <1>3, <1>4, <1>5, <1>6, <1>7, <1>8 DEF Request, Steady

-----------------------------------------------------------------------------

(* Tasks fail or are made runnable again: no phase becomes complete or incomplete. *)
LEMMA SameComplete ==
    ASSUME NEW ts \in [Task -> TaskState], NEW us \in [Task -> TaskState],
           \A t \in Task : us[t] = "Success" <=> ts[t] = "Success",
           NEW p \in Phase
    PROVE  PhaseComplete(us, p) <=> PhaseComplete(ts, p)
BY DEF PhaseComplete, TasksOf

(* A step that completes no less and touches only tasks that may be touched keeps
   the order. *)
LEMMA OrderKept ==
    ASSUME PhaseOrder,
           \A r \in Phase : PhaseComplete(task, r) => PhaseComplete(task', r),
           \A t \in Task : task'[t] # "Initial" =>
               \/ task[t] # "Initial"
               \/ \A r \in Req[PhaseOf[t]] : PhaseComplete(task, r)
    PROVE  PhaseOrder'
<1>1. \A t \in Task : Req[PhaseOf[t]] \subseteq Phase
  BY ShapeAssumption
<1> QED
  BY <1>1 DEF PhaseOrder

(* What ready_phases(-1) returns when it is called with nothing in progress *)
LEMMA ReadyAtStartInOrder ==
    ASSUME PhaseOrder, task \in [Task -> TaskState],
           NEW p \in ReadyAtStart(task)
    PROVE  /\ p \in Phase
           /\ \E t \in TasksOf(p) : ResetFailed(task)[t] = "Initial"
           /\ \A r \in Req[p] : PhaseComplete(ResetFailed(task), r)
<1> DEFINE reset == ResetFailed(task)
<1>0. p \in Phase /\ Req[p] \subseteq Phase
  BY ReadyTypes, ShapeAssumption
<1>1. /\ \A t \in Task : task[t] = "Failed" => reset[t] = "Initial"
      /\ \A r \in Phase : PhaseComplete(reset, r) <=> PhaseComplete(task, r)
  <2>1. reset \in [Task -> TaskState]
    BY DEF ResetFailed, TaskState
  <2>2. \A t \in Task : reset[t] = "Success" <=> task[t] = "Success"
    BY DEF ResetFailed
  <2>3. \A t \in Task : task[t] = "Failed" => reset[t] = "Initial"
    BY DEF ResetFailed
  <2> QED
    BY <2>1, <2>2, <2>3, SameComplete
<1>2. CASE p \in FailedPhases(task)
  <2>1. PICK t \in TasksOf(p) : task[t] = "Failed"
    BY <1>2 DEF FailedPhases
  <2>2. t \in Task /\ PhaseOf[t] = p
    BY DEF TasksOf
  <2>3. \A r \in Req[p] : PhaseComplete(task, r)
    BY <2>1, <2>2 DEF PhaseOrder
  <2> QED
    BY <1>0, <1>1, <2>1, <2>2, <2>3
<1>3. ASSUME NEW c \in Phase, p \in ReadyAfter(reset, c)
      PROVE  /\ \E t \in TasksOf(p) : reset[t] = "Initial"
             /\ \A r \in Req[p] : PhaseComplete(reset, r)
  BY <1>3 DEF ReadyAfter
<1>4. \/ p \in FailedPhases(task)
      \/ \E c \in Phase : p \in ReadyAfter(reset, c)
      \/ /\ \E t \in TasksOf(p) : reset[t] = "Initial"
         /\ \A r \in Req[p] : PhaseComplete(reset, r)
  BY Zenon DEF ReadyAtStart
<1> QED
  BY <1>0, <1>2, <1>3, <1>4

LEMMA FirstReadyPhasesOrder ==
    ASSUME OrderInv, FirstReadyPhases
    PROVE  OrderInv'
<1>0. TypeOK /\ TypeOK' /\ pc = "first" /\ pc' = "phases"
  BY CoordinatorTypeOK DEF OrderInv, FirstReadyPhases, Coordinator
<1>1. \A j \in JobSlot : ~Live(j) /\ job[j].st \in {"free", "done"}
  BY <1>0, NothingLeft
<1>2. PlanHeld' /\ Rest'
  BY <1>0 DEF FirstReadyPhases, OrderInv, PlanHeld, Rest, Executing
<1>3. job' = job /\ \A p \in Phase : active'[p] = NoPhaseJob
  BY DEF FirstReadyPhases
<1>4. JobsOwned' /\ ActiveJobs'
  BY <1>1, <1>3, EnvironmentAssumption DEF JobsOwned, ActiveJobs, Live
<1>5. StartedInOrder'
  <2>1. \A p \in toStart' : /\ p \in Phase
                            /\ \E t \in TasksOf(p) : task'[t] = "Initial"
                            /\ \A r \in Req[p] : PhaseComplete(task', r)
    BY <1>0, ReadyAtStartInOrder DEF FirstReadyPhases, OrderInv, TypeOK
  <2>2. \A p \in Phase : Req[p] \subseteq Phase
    BY ShapeAssumption
  <2> QED
    BY <2>1, <2>2, <1>3, EnvironmentAssumption DEF StartedInOrder, Started
<1>6. PhaseOrder'
  <2>1. task' \in [Task -> TaskState] /\ task \in [Task -> TaskState]
    BY <1>0 DEF TypeOK
  <2>2. \A t \in Task : /\ task'[t] = "Success" <=> task[t] = "Success"
                        /\ task'[t] # "Initial" => task[t] # "Initial"
    BY DEF FirstReadyPhases, ResetFailed
  <2> QED
    BY <2>1, <2>2, SameComplete, OrderKept DEF OrderInv
<1>7. JobsKnow'
  <2> SUFFICES ASSUME NEW j \in JobSlot PROVE JobKnows(j)'
    BY DEF JobsKnow
  <2>1. job'[j].st \in {"free", "done"} /\ job'[j].phase \in Phase
    BY <1>0, <1>1, <1>3 DEF TypeOK, JobRecord
  <2>2. active'[job'[j].phase] # j
    BY <2>1, <1>3, EnvironmentAssumption
  <2> QED
    BY <2>1, <2>2 DEF JobKnows
<1> QED
  BY <1>0, <1>2, <1>4, <1>5, <1>6, <1>7 DEF OrderInv

LEMMA PhasesOverOrder ==
    ASSUME OrderInv, PhasesOver
    PROVE  OrderInv'
<1>0. TypeOK /\ TypeOK' /\ pc = "phases" /\ pc' = "clear"
  BY CoordinatorTypeOK DEF OrderInv, PhasesOver, Coordinator
<1>1. /\ toStart' = {} /\ job' = job
      /\ \A p \in Phase : active[p] = NoPhaseJob /\ active'[p] = NoPhaseJob
  BY DEF PhasesOver
<1>2. \A j \in JobSlot : job[j].phase \in Phase /\ job[j].st \in {"free", "done"}
  BY <1>0, <1>1, EnvironmentAssumption
     DEF OrderInv, JobsOwned, TypeOK, JobRecord, Live
<1>3. PlanHeld' /\ Rest'
  BY <1>0, <1>1 DEF PhasesOver, FailRunning, OrderInv, PlanHeld, Rest, Executing
<1>4. JobsOwned' /\ ActiveJobs' /\ StartedInOrder'
  BY <1>1, <1>2, EnvironmentAssumption
     DEF JobsOwned, ActiveJobs, StartedInOrder, Started, Live
<1>5. PhaseOrder'
  <2>1. task' \in [Task -> TaskState] /\ task \in [Task -> TaskState]
    BY <1>0 DEF TypeOK
  <2>2. \A t \in Task : /\ task'[t] = "Success" <=> task[t] = "Success"
                        /\ task'[t] # "Initial" => task[t] # "Initial"
    BY DEF PhasesOver, FailRunning
  <2> QED
    BY <2>1, <2>2, SameComplete, OrderKept DEF OrderInv
<1>6. JobsKnow'
  <2> SUFFICES ASSUME NEW j \in JobSlot PROVE JobKnows(j)'
    BY DEF JobsKnow
  <2>1. job'[j].st \in {"free", "done"} /\ active'[job'[j].phase] # j
    BY <1>1, <1>2, EnvironmentAssumption
  <2> QED
    BY <2>1 DEF JobKnows
<1> QED
  BY <1>0, <1>3, <1>4, <1>5, <1>6 DEF OrderInv

(* The cleanup phase: no job works on it, so only its own tasks change. *)
LEMMA RunCleanupPhaseOrder ==
    ASSUME OrderInv, NEW p \in Phase, RunCleanupPhase(p)
    PROVE  OrderInv'
<1>0. /\ TypeOK /\ TypeOK' /\ pc = "phases" /\ pc' = "phases"
      /\ p \in toStart /\ toStart' = toStart \ {p} /\ Kind[p] = "cleanup"
      /\ UNCHANGED <<plan, taskId, active, job>>
  BY CoordinatorTypeOK DEF OrderInv, RunCleanupPhase, Coordinator
<1>1. \A t \in Task : PhaseOf[t] # p => task'[t] = task[t]
  BY DEF RunCleanupPhase, StopRunning
<1>2. \A t \in Task : task[t] = "Success" => task'[t] = "Success"
  BY DEF RunCleanupPhase, StopRunning
<1>3. \A q \in Phase : PhaseComplete(task, q) => PhaseComplete(task', q)
  BY <1>2 DEF PhaseComplete, TasksOf
<1>4. /\ active[p] = NoPhaseJob
      /\ \A r \in Req[p] : PhaseComplete(task, r)
  BY <1>0 DEF OrderInv, StartedInOrder, Started
<1>5. PlanHeld' /\ Rest'
  BY <1>0 DEF OrderInv, PlanHeld, Rest
<1>6. JobsOwned' /\ ActiveJobs'
  BY <1>0 DEF OrderInv, JobsOwned, ActiveJobs, Live
<1>7. StartedInOrder'
  <2>1. \A q \in toStart' : /\ q # p /\ active'[q] = NoPhaseJob
                            /\ \E t \in TasksOf(q) : task'[t] = "Initial"
    BY <1>0, <1>1 DEF OrderInv, StartedInOrder, TasksOf
  <2>2. ASSUME NEW q \in Phase, Started(q)', NEW r \in Req[q]
        PROVE  /\ PhaseComplete(task', r)
               /\ Kind[q] # "cleanup" => active'[r] = NoPhaseJob
    <3>1. Started(q) /\ r \in Phase
      BY <2>2, <1>0, ShapeAssumption DEF Started
    <3> QED
      BY <2>2, <3>1, <1>0, <1>3 DEF OrderInv, StartedInOrder
  <2> QED
    BY <2>1, <2>2 DEF StartedInOrder
<1>8. PhaseOrder'
  BY <1>1, <1>3, <1>4, OrderKept DEF OrderInv
<1>9. JobsKnow'
  <2> SUFFICES ASSUME NEW j \in JobSlot PROVE JobKnows(j)'
    BY DEF JobsKnow
  <2>1. JobKnows(j) /\ job'[j] = job[j]
    BY <1>0 DEF OrderInv, JobsKnow
  <2>2. CASE job[j].phase # p
    <3>1. \A t \in TasksOf(job[j].phase) : task'[t] = task[t]
      BY <1>1, <2>2 DEF TasksOf
    <3> QED
      BY <1>0, <2>1, <3>1 DEF JobKnows, PhaseComplete
  <2>3. CASE job[j].phase = p
    <3>1. active[p] # j /\ ~Live(j)
      BY <1>4, <2>3, EnvironmentAssumption DEF OrderInv, JobsOwned
    <3> QED
      BY <1>0, <2>1, <2>3, <3>1 DEF JobKnows, Live
  <2> QED
    BY <2>2, <2>3
<1> QED
  BY <1>0, <1>5, <1>6, <1>7, <1>8, <1>9 DEF OrderInv

LEMMA EnqueuePhaseOrder ==
    ASSUME OrderInv, NEW p \in Phase, NEW j \in JobSlot, EnqueuePhase(p, j)
    PROVE  OrderInv'
<1>0. /\ TypeOK /\ TypeOK' /\ pc = "phases" /\ pc' = "phases"
      /\ p \in toStart /\ toStart' = toStart \ {p} /\ Kind[p] # "cleanup"
      /\ UNCHANGED <<plan, taskId, task>>
  BY CoordinatorTypeOK DEF OrderInv, EnqueuePhase, Coordinator, planVars
<1>1. /\ active' = [active EXCEPT ![p] = j]
      /\ active'[p] = j
      /\ \A q \in Phase \ {p} : active'[q] = active[q]
  BY <1>0 DEF EnqueuePhase, TypeOK
<1>2. /\ \A k \in JobSlot \ {j} : job'[k] = job[k]
      /\ job'[j].st = "queued" /\ job'[j].phase = p /\ job'[j].cur = NoTask
  BY <1>0 DEF EnqueuePhase, TypeOK
<1>3. \A q \in Phase : active[q] # j
  BY DEF EnqueuePhase, FreeSlots, OrderInv, ActiveJobs
<1>4. /\ active[p] = NoPhaseJob
      /\ \E t \in TasksOf(p) : task[t] = "Initial"
      /\ \A r \in Req[p] : PhaseComplete(task, r) /\ active[r] = NoPhaseJob
  BY <1>0 DEF OrderInv, StartedInOrder, Started
<1>5. \A k \in JobSlot : job[k].phase \in Phase
  BY <1>0 DEF TypeOK, JobRecord
<1>6. \A k \in JobSlot \ {j} : Live(k) => job[k].phase # p
  BY <1>4, EnvironmentAssumption DEF OrderInv, JobsOwned
<1>7. PlanHeld' /\ Rest'
  BY <1>0 DEF OrderInv, PlanHeld, Rest
<1>8. JobsOwned'
  <2> SUFFICES ASSUME NEW k \in JobSlot, Live(k)'
               PROVE  active'[job'[k].phase] = k
    BY <1>0 DEF JobsOwned
  <2>1. CASE k = j
    BY <2>1, <1>1, <1>2
  <2>2. CASE k # j
    <3>1. job'[k] = job[k] /\ Live(k)
      BY <2>2, <1>2 DEF Live
    <3>2. active[job[k].phase] = k
      BY <3>1 DEF OrderInv, JobsOwned
    <3> QED
      BY <3>1, <3>2, <2>2, <1>1, <1>5, <1>6
  <2> QED
    BY <2>1, <2>2
<1>9. ActiveJobs'
  <2> SUFFICES ASSUME NEW q \in Phase, active'[q] \in JobSlot
               PROVE  /\ Kind[q] # "cleanup"
                      /\ job'[active'[q]].st # "free"
                      /\ job'[active'[q]].phase = q
    BY DEF ActiveJobs
  <2>1. CASE q = p
    BY <2>1, <1>0, <1>1, <1>2
  <2>2. CASE q # p
    BY <2>2, <1>1, <1>2, <1>3 DEF OrderInv, ActiveJobs
  <2> QED
    BY <2>1, <2>2
<1>10. StartedInOrder'
  <2>1. \A q \in toStart' : /\ active'[q] = NoPhaseJob
                            /\ \E t \in TasksOf(q) : task'[t] = "Initial"
    BY <1>0, <1>1 DEF OrderInv, StartedInOrder, TypeOK
  <2>2. ASSUME NEW q \in Phase, Started(q)', NEW r \in Req[q]
        PROVE  /\ PhaseComplete(task', r)
               /\ Kind[q] # "cleanup" => active'[r] = NoPhaseJob
    <3>1. Started(q) /\ r \in Phase
      BY <2>2, <1>0, <1>1, ShapeAssumption DEF Started
    <3>2. PhaseComplete(task, r) /\ (Kind[q] # "cleanup" => active[r] = NoPhaseJob)
      BY <3>1 DEF OrderInv, StartedInOrder
    <3>3. r # p
      <4>1. ~PhaseComplete(task, p)
        BY <1>4 DEF PhaseComplete
      <4> QED
        BY <4>1, <3>2
    <3> QED
      BY <3>1, <3>2, <3>3, <1>0, <1>1
  <2> QED
    BY <2>1, <2>2 DEF StartedInOrder
<1>11. PhaseOrder'
  BY <1>0 DEF OrderInv, PhaseOrder, PhaseComplete
<1>12. JobsKnow'
  <2> SUFFICES ASSUME NEW k \in JobSlot PROVE JobKnows(k)'
    BY DEF JobsKnow
  <2>1. CASE k = j
    BY <2>1, <1>0, <1>2, <1>4 DEF JobKnows
  <2>2. CASE k # j
    <3>1. JobKnows(k) /\ job'[k] = job[k]
      BY <2>2, <1>2 DEF OrderInv, JobsKnow
    <3>2. active'[job[k].phase] = k => active[job[k].phase] = k
      BY <2>2, <1>1, <1>5
    <3> QED
      BY <3>1, <3>2, <1>0 DEF JobKnows, PhaseComplete
  <2> QED
    BY <2>1, <2>2
<1> QED
  BY <1>0, <1>7, <1>8, <1>9, <1>10, <1>11, <1>12 DEF OrderInv

(* A phase whose job has returned without an error is complete.  What it makes ready
   waits for it alone, so it has not been started yet, and neither has anything
   that waits for that. *)
LEMMA CollectPhaseOrder ==
    ASSUME NoJoins, OrderInv, NEW c \in Phase, CollectPhase(c)
    PROVE  OrderInv'
<1> DEFINE j == active[c]
<1>0. /\ TypeOK /\ TypeOK' /\ pc = "phases" /\ pc' = "phases"
      /\ toStart = {} /\ j \in JobSlot
      /\ UNCHANGED <<plan, taskId, task>>
  BY CoordinatorTypeOK DEF OrderInv, CollectPhase, Coordinator
<1>1. /\ active'[c] = NoPhaseJob
      /\ \A q \in Phase \ {c} : active'[q] = active[q]
  BY <1>0 DEF CollectPhase, TypeOK
<1>2. /\ \A k \in JobSlot \ {j} : job'[k] = job[k]
      /\ job'[j].st = "free"
  BY <1>0 DEF CollectPhase, TypeOK, FreeJob
<1>3. job[j].phase = c /\ job[j].st = "done" /\ Kind[c] # "cleanup"
  BY <1>0 DEF CollectPhase, OrderInv, ActiveJobs
<1>4. \A k \in JobSlot : job[k].phase \in Phase
  BY <1>0 DEF TypeOK, JobRecord
<1>5. ASSUME NEW q \in Phase, active[q] = j PROVE q = c
  BY <1>5, <1>0, <1>3 DEF OrderInv, ActiveJobs
<1>6. PlanHeld' /\ Rest'
  BY <1>0 DEF OrderInv, PlanHeld, Rest
<1>7. JobsOwned'
  <2> SUFFICES ASSUME NEW k \in JobSlot, Live(k)'
               PROVE  active'[job'[k].phase] = k
    BY <1>0 DEF JobsOwned
  <2>1. k # j /\ job'[k] = job[k] /\ Live(k)
    BY <1>2 DEF Live
  <2>2. active[job[k].phase] = k
    BY <2>1 DEF OrderInv, JobsOwned
  <2>3. job[k].phase # c
    BY <2>1, <2>2
  <2> QED
    BY <2>1, <2>2, <2>3, <1>1, <1>4
<1>8. ActiveJobs'
  <2> SUFFICES ASSUME NEW q \in Phase, active'[q] \in JobSlot
               PROVE  /\ Kind[q] # "cleanup"
                      /\ job'[active'[q]].st # "free"
                      /\ job'[active'[q]].phase = q
    BY DEF ActiveJobs
  <2>1. q # c /\ active'[q] = active[q]
    BY <1>1, EnvironmentAssumption
  <2>2. active[q] # j
    BY <2>1, <1>5
  <2> QED
    BY <2>1, <2>2, <1>2 DEF OrderInv, ActiveJobs
<1>9. \A q \in toStart' :
         /\ q \in Phase /\ c \in Req[q] /\ q # c
         /\ \E t \in TasksOf(q) : task[t] = "Initial"
         /\ \A r \in Req[q] : PhaseComplete(task, r)
  <2>1. toStart' = {} \/ toStart' = ReadyAfter(task, c)
    BY DEF CollectPhase
  <2> QED
    BY <2>1, ShapeAssumption DEF ReadyAfter
<1>10. StartedInOrder'
  <2>1. ASSUME NEW q \in toStart'
        PROVE  active'[q] = NoPhaseJob
    <3>1. q \in Phase /\ c \in Req[q] /\ q # c
      BY <2>1, <1>9
    <3>2. ASSUME active[q] \in JobSlot PROVE FALSE
      <4>1. Started(q) /\ Kind[q] # "cleanup"
        BY <3>1, <3>2 DEF Started, OrderInv, ActiveJobs
      <4>2. active[c] = NoPhaseJob
        BY <3>1, <4>1 DEF OrderInv, StartedInOrder
      <4> QED
        BY <4>2, <1>0, EnvironmentAssumption
    <3> QED
      BY <3>1, <3>2, <1>0, <1>1 DEF TypeOK
  <2>2. ASSUME NEW q \in Phase, Started(q)', NEW r \in Req[q]
        PROVE  /\ PhaseComplete(task', r)
               /\ Kind[q] # "cleanup" => active'[r] = NoPhaseJob
    <3>0. r \in Phase
      BY ShapeAssumption
    <3>1. CASE q \in toStart'
      <4>1. PhaseComplete(task', r) /\ c \in Req[q]
        BY <3>1, <1>0, <1>9
      <4>2. Kind[q] # "cleanup" => r = c
        BY <4>1 DEF NoJoins
      <4> QED
        BY <4>1, <4>2, <1>1
    <3>2. CASE active'[q] \in JobSlot
      <4>1. Started(q)
        BY <3>2, <1>1, EnvironmentAssumption DEF Started
      <4>2. PhaseComplete(task, r) /\ (Kind[q] # "cleanup" => active[r] = NoPhaseJob)
        BY <4>1 DEF OrderInv, StartedInOrder
      <4> QED
        BY <4>2, <3>0, <1>0, <1>1
    <3> QED
      BY <2>2, <3>1, <3>2 DEF Started
  <2> QED
    BY <2>1, <2>2, <1>0, <1>9 DEF StartedInOrder
<1>11. PhaseOrder'
  BY <1>0 DEF OrderInv, PhaseOrder, PhaseComplete
<1>12. JobsKnow'
  <2> SUFFICES ASSUME NEW k \in JobSlot PROVE JobKnows(k)'
    BY DEF JobsKnow
  <2>1. CASE k = j
    BY <2>1, <1>2 DEF JobKnows
  <2>2. CASE k # j
    <3>1. JobKnows(k) /\ job'[k] = job[k]
      BY <2>2, <1>2 DEF OrderInv, JobsKnow
    <3>2. active'[job[k].phase] = k => active[job[k].phase] = k
      BY <1>1, <1>4, EnvironmentAssumption
    <3> QED
      BY <3>1, <3>2, <1>0 DEF JobKnows, PhaseComplete
  <2> QED
    BY <2>1, <2>2
<1> QED
  BY <1>0, <1>6, <1>7, <1>8, <1>10, <1>11, <1>12 DEF OrderInv

LEMMA CoordinatorOrder ==
    ASSUME NoJoins, OrderInv, Coordinator
    PROVE  OrderInv'
<1>0. TypeOK /\ TypeOK' /\ PlanHeld /\ taskId \in {"none", "current"}
  BY CoordinatorTypeOK DEF OrderInv, Rest
<1>1. CASE StartRunPlan
  <2>1. pc = "idle" /\ plan \notin ActiveState
    BY <1>1, <1>0 DEF StartRunPlan, PlanHeld, Executing
  <2>2. /\ UNCHANGED <<task, job, active, toStart, plan, taskId>>
        /\ pc' \in {"idle", "disable"}
    <3>1. UNCHANGED <<job, active, toStart, plan, taskId>>
      BY <1>1 DEF StartRunPlan
    <3>2. task' = task /\ pc' \in {"idle", "disable"}
      <4>1. CASE plan = "none"
        BY <4>1, <1>1, <2>1 DEF StartRunPlan, ActiveState
      <4>2. CASE plan # "none"
        BY <4>2, <1>1, <2>1, Zenon DEF StartRunPlan
      <4> QED
        BY <4>1, <4>2
    <3> QED
      BY <3>1, <3>2
  <2>3. PlanHeld'
    BY <2>1, <2>2 DEF PlanHeld, Executing
  <2> QED
    BY <1>0, <2>1, <2>2, <2>3, JobsUntouched
<1>2. CASE DisablePuppet
  <2>1. PlanHeld'
    BY <1>2, <1>0 DEF DisablePuppet, PlanHeld, Executing, planVars
  <2> QED
    BY <1>2, <1>0, <2>1, JobsUntouched DEF DisablePuppet, planVars
<1>3. CASE RunPlanStart
  <2>1. PlanHeld'
    BY <1>3, <1>0 DEF RunPlanStart, PlanHeld, Executing, ActiveState
  <2> QED
    BY <1>3, <1>0, <2>1, JobsUntouched DEF RunPlanStart
<1>4. CASE SetCeleryTaskId
  <2>1. PlanHeld'
    BY <1>4, <1>0 DEF SetCeleryTaskId, PlanHeld, Executing
  <2> QED
    BY <1>4, <1>0, <2>1, JobsUntouched DEF SetCeleryTaskId
<1>5. CASE ClearPlan
  <2>1. plan \in ActiveState
    BY <1>5, <1>0 DEF ClearPlan, PlanHeld, Executing
  <2>2. pc' = "end" /\ plan' = plan
    BY <1>5, <2>1 DEF ClearPlan, ActiveState
  <2>3. PlanHeld'
    BY <2>1, <2>2 DEF PlanHeld, Executing
  <2> QED
    BY <1>5, <1>0, <2>2, <2>3, JobsUntouched DEF ClearPlan
<1>6. CASE EndPlan
  <2>1. PlanHeld'
    BY <1>6, <1>0, EndStateOver DEF EndPlan, PlanHeld, Executing
  <2> QED
    BY <1>6, <1>0, <2>1, JobsUntouched DEF EndPlan
<1>7. CASE BackupModel
  <2>1. PlanHeld'
    BY <1>7, <1>0 DEF BackupModel, PlanHeld, Executing, planVars
  <2> QED
    BY <1>7, <1>0, <2>1, JobsUntouched DEF BackupModel, planVars
<1>8. CASE FinishRunPlan
  <2>1. PlanHeld'
    BY <1>8, <1>0 DEF FinishRunPlan, PlanHeld, Executing
  <2> QED
    BY <1>8, <1>0, <2>1, JobsUntouched DEF FinishRunPlan
<1> QED
  BY <1>1, <1>2, <1>3, <1>4, <1>5, <1>6, <1>7, <1>8, FirstReadyPhasesOrder,
     PhasesOverOrder, RunCleanupPhaseOrder, EnqueuePhaseOrder, CollectPhaseOrder
     DEF Coordinator

-----------------------------------------------------------------------------

(* All a step of a job does: it goes on working or returns, touches only tasks of
   its phase and takes nothing from a phase that is complete. *)
JobEffect(j) ==
    LET p == job[j].phase
    IN  /\ Live(j)
        /\ \A k \in JobSlot \ {j} : job'[k] = job[k]
        /\ job'[j].phase = p /\ job'[j].st # "free"
        /\ \A t \in Task : PhaseOf[t] # p => task'[t] = task[t]
        /\ PhaseComplete(task, p) => PhaseComplete(task', p)
        /\ JobKnows(j)'

(* Such a step disturbs nothing: no other job works on the phase, and no phase that
   has been started still waits for it. *)
LEMMA JobEffectOrder ==
    ASSUME OrderInv, TypeOK', NEW j \in JobSlot, JobEffect(j), JobStep
    PROVE  OrderInv'
<1> DEFINE p == job[j].phase
<1>0. /\ TypeOK /\ p \in Phase
      /\ UNCHANGED <<plan, taskId, pc, toStart, active>>
      /\ \A k \in JobSlot : job[k].phase \in Phase
  BY DEF OrderInv, TypeOK, JobRecord, JobStep, coordVars
<1>1. Live(j) /\ pc = "phases" /\ active[p] = j
  BY DEF JobEffect, OrderInv, JobsOwned
<1>2. /\ \A k \in JobSlot \ {j} : job'[k] = job[k]
      /\ job'[j].phase = p /\ job'[j].st # "free"
  BY DEF JobEffect
<1>3. \A t \in Task : PhaseOf[t] # p => task'[t] = task[t]
  BY DEF JobEffect
<1>4. \A q \in Phase : PhaseComplete(task, q) => PhaseComplete(task', q)
  <2> SUFFICES ASSUME NEW q \in Phase, PhaseComplete(task, q)
               PROVE  PhaseComplete(task', q)
    OBVIOUS
  <2>1. CASE q = p
    BY <2>1 DEF JobEffect
  <2>2. CASE q # p
    BY <2>2, <1>3 DEF PhaseComplete, TasksOf
  <2> QED
    BY <2>1, <2>2
<1>5. PlanHeld' /\ Rest'
  BY <1>0, <1>1 DEF OrderInv, PlanHeld, Rest
<1>6. JobsOwned'
  <2> SUFFICES ASSUME NEW k \in JobSlot, Live(k)'
               PROVE  active[job'[k].phase] = k
    BY <1>0, <1>1 DEF JobsOwned
  <2>1. CASE k = j
    BY <2>1, <1>1, <1>2
  <2>2. CASE k # j
    BY <2>2, <1>2 DEF OrderInv, JobsOwned, Live
  <2> QED
    BY <2>1, <2>2
<1>7. ActiveJobs'
  <2> SUFFICES ASSUME NEW q \in Phase, active[q] \in JobSlot
               PROVE  /\ Kind[q] # "cleanup"
                      /\ job'[active[q]].st # "free"
                      /\ job'[active[q]].phase = q
    BY <1>0 DEF ActiveJobs
  <2>1. Kind[q] # "cleanup" /\ job[active[q]].st # "free" /\ job[active[q]].phase = q
    BY DEF OrderInv, ActiveJobs
  <2>2. CASE active[q] = j
    BY <2>1, <2>2, <1>2
  <2>3. CASE active[q] # j
    BY <2>1, <2>3, <1>2
  <2> QED
    BY <2>2, <2>3
<1>8. StartedInOrder'
  <2>1. \A q \in toStart : q # p /\ q \in Phase
    BY <1>0, <1>1, EnvironmentAssumption DEF OrderInv, StartedInOrder, TypeOK
  <2>2. \A q \in toStart : /\ active[q] = NoPhaseJob
                           /\ \E t \in TasksOf(q) : task'[t] = "Initial"
    BY <2>1, <1>3 DEF OrderInv, StartedInOrder, TasksOf
  <2>3. \A q \in Phase : Started(q)' => Started(q)
    BY <1>0 DEF Started
  <2>4. \A q \in Phase : Started(q)' => \A r \in Req[q] :
           /\ PhaseComplete(task', r)
           /\ Kind[q] # "cleanup" => active[r] = NoPhaseJob
    BY <2>3, <1>4, ShapeAssumption DEF OrderInv, StartedInOrder
  <2> QED
    BY <2>2, <2>4, <1>0 DEF StartedInOrder
<1>9. PhaseOrder'
  <2>1. \A r \in Req[p] : PhaseComplete(task, r)
    BY <1>0, <1>1 DEF OrderInv, StartedInOrder, Started
  <2> QED
    BY <2>1, <1>3, <1>4, OrderKept DEF OrderInv
<1>10. JobsKnow'
  <2> SUFFICES ASSUME NEW k \in JobSlot PROVE JobKnows(k)'
    BY DEF JobsKnow
  <2>1. CASE k = j
    BY <2>1 DEF JobEffect
  <2>2. CASE k # j
    <3>1. JobKnows(k) /\ job'[k] = job[k]
      BY <2>2, <1>2 DEF OrderInv, JobsKnow
    <3>2. CASE job[k].phase = p
      <4>1. active[p] # k /\ ~Live(k)
        BY <2>2, <3>2, <1>1 DEF OrderInv, JobsOwned
      <4> QED
        BY <1>0, <3>1, <3>2, <4>1 DEF JobKnows, Live
    <3>3. CASE job[k].phase # p
      <4>1. \A t \in TasksOf(job[k].phase) : task'[t] = task[t]
        BY <3>3, <1>3 DEF TasksOf
      <4> QED
        BY <1>0, <3>1, <4>1 DEF JobKnows, PhaseComplete
    <3> QED
      BY <3>2, <3>3
  <2> QED
    BY <2>1, <2>2
<1> QED
  BY <1>0, <1>5, <1>6, <1>7, <1>8, <1>9, <1>10 DEF OrderInv

(* A job that returns with an error knows nothing. *)
LEMMA ErrorKnowsNothing ==
    ASSUME NEW j \in JobSlot, job'[j].st = "done", job'[j].err
    PROVE  JobKnows(j)'
BY DEF JobKnows

LEMMA StartJobEffect ==
    ASSUME OrderInv, TypeOK', NEW j \in JobSlot, StartJob(j)
    PROVE  JobEffect(j)
<1> DEFINE p == job[j].phase
           refused == \/ plan \in {"none", "stopping"}
                      \/ /\ Kind[p] = "config"
                         /\ \E t \in TasksOf(p) : task[t] = "Failed"
           todo == IF Kind[p] = "config" THEN TasksOf(p)
                   ELSE {t \in TasksOf(p) : task[t] # "Success"}
<1>0. /\ TypeOK /\ job[j] \in JobRecord /\ p \in Phase
      /\ job[j].st = "queued" /\ Live(j) /\ JobKnows(j)
      /\ active[p] = j
  BY DEF OrderInv, TypeOK, JobRecord, StartJob, Live, JobsKnow, JobsOwned
<1>1. PICK t \in TasksOf(p) : task[t] = "Initial"
  BY <1>0 DEF JobKnows
<1>2. /\ task' = IF plan = "stopping" THEN StopRunning(task, p) ELSE task
      /\ job' = [job EXCEPT ![j].st = IF refused THEN "done" ELSE "running",
                            ![j].todo = IF refused THEN {} ELSE todo,
                            ![j].err = refused]
  BY DEF StartJob
<1>3. /\ \A k \in JobSlot \ {j} : job'[k] = job[k]
      /\ job'[j].phase = p /\ job'[j].cur = job[j].cur
      /\ job'[j].st = IF refused THEN "done" ELSE "running"
      /\ job'[j].todo = IF refused THEN {} ELSE todo
      /\ job'[j].err = refused
  BY <1>0, <1>2 DEF TypeOK, JobRecord
<1>4. \A u \in Task : PhaseOf[u] # p => task'[u] = task[u]
  BY <1>0, <1>2 DEF TypeOK, StopRunning
<1>5. ~PhaseComplete(task, p)
  BY <1>1 DEF PhaseComplete
<1>6. JobKnows(j)'
  <2>1. CASE refused
    BY <2>1, <1>3, ErrorKnowsNothing
  <2>2. CASE ~refused
    <3>1. task' = task
      BY <1>2, <2>2
    <3>2. /\ job'[j].st = "running" /\ job'[j].cur = NoTask
          /\ job'[j].phase = p /\ job'[j].todo = todo
      BY <1>0, <1>3, <2>2 DEF JobKnows
    <3>3. NoTask \notin Task
      BY ShapeAssumption DEF NoTask
    <3>4. TasksOf(p) \subseteq Task
      BY DEF TasksOf
    <3>5. CASE Kind[p] = "config"
      BY <3>1, <3>2, <3>5, <1>1 DEF JobKnows
    <3>6. CASE Kind[p] # "config"
      <4>1. todo = {u \in TasksOf(p) : task[u] # "Success"}
        BY <3>6
      <4>2. \A u \in TasksOf(p) :
               task'[u] = "Success" <=> u \notin todo \cup {NoTask}
        BY <4>1, <3>1, <3>3, <3>4
      <4>3. todo \subseteq TasksOf(p) /\ NoTask \notin todo
        BY <4>1, <3>3, <3>4
      <4> HIDE DEF todo, refused
      <4> QED
        BY <3>2, <3>6, <4>2, <4>3 DEF JobKnows
    <3> QED
      BY <3>5, <3>6
  <2> QED
    BY <2>1, <2>2
<1> QED
  BY <1>0, <1>3, <1>4, <1>5, <1>6 DEF JobEffect

LEMMA CallbackEffect ==
    ASSUME OrderInv, TypeOK', NEW j \in JobSlot,
           \/ StartCallbackTask(j) \/ EndCallbackPhase(j)
           \/ \E o \in {"Success", "Failed", "Stopped"} : EndCallbackTask(j, o)
    PROVE  JobEffect(j)
<1> DEFINE p == job[j].phase
<1>0. /\ TypeOK /\ job[j] \in JobRecord /\ p \in Phase
      /\ job[j].st = "running" /\ Live(j) /\ JobKnows(j)
      /\ active[p] = j /\ Kind[p] \in {"callback", "config"}
      /\ TasksOf(p) \subseteq Task /\ NoTask \notin Task
  BY ShapeAssumption
     DEF OrderInv, TypeOK, JobRecord, StartCallbackTask, EndCallbackPhase,
         EndCallbackTask, Live, JobsKnow, JobsOwned, ActiveJobs, TasksOf, NoTask
<1>1. Kind[p] = "callback"
  BY <1>0 DEF StartCallbackTask, EndCallbackPhase, EndCallbackTask, JobKnows
<1>2. /\ job[j].todo \subseteq TasksOf(p)
      /\ job[j].cur \in (TasksOf(p) \cup {NoTask}) \ job[j].todo
      /\ \A t \in TasksOf(p) :
            task[t] = "Success" <=> t \notin job[j].todo \cup {job[j].cur}
  BY <1>0, <1>1 DEF JobKnows
<1>3. CASE StartCallbackTask(j)
  <2>1. PICK t \in job[j].todo :
           /\ task' = [task EXCEPT ![t] = "Running"]
           /\ job' = [job EXCEPT ![j].cur = t, ![j].todo = @ \ {t}]
    BY <1>3 DEF StartCallbackTask
  <2>2. t \in TasksOf(p) /\ t \in Task /\ PhaseOf[t] = p /\ job[j].cur = NoTask
    BY <1>2, <1>3, <2>1 DEF TasksOf, StartCallbackTask
  <2>3. /\ \A k \in JobSlot \ {j} : job'[k] = job[k]
        /\ job'[j].phase = p /\ job'[j].st = "running"
        /\ job'[j].cur = t /\ job'[j].todo = job[j].todo \ {t}
    BY <1>0, <2>1 DEF TypeOK, JobRecord
  <2>4. \A u \in Task : task'[u] = IF u = t THEN "Running" ELSE task[u]
    BY <1>0, <2>1, <2>2 DEF TypeOK
  <2>5. ~PhaseComplete(task, p)
    BY <1>2, <2>1, <2>2 DEF PhaseComplete
  <2>6. \A u \in TasksOf(p) : task'[u] = "Success"
                                <=> u \notin (job[j].todo \ {t}) \cup {t}
    BY <1>0, <1>2, <2>2, <2>4
  <2>7. JobKnows(j)'
    BY <1>1, <1>2, <2>2, <2>3, <2>6 DEF JobKnows
  <2> QED
    BY <1>0, <2>2, <2>3, <2>4, <2>5, <2>7 DEF JobEffect
<1>4. CASE EndCallbackPhase(j)
  <2>1. /\ \A k \in JobSlot \ {j} : job'[k] = job[k]
        /\ job'[j].phase = p /\ job'[j].st = "done"
        /\ task' = task
    BY <1>4, <1>0 DEF EndCallbackPhase, TypeOK, JobRecord
  <2>2. PhaseComplete(task, p)
    BY <1>4, <1>0, <1>2 DEF EndCallbackPhase, PhaseComplete
  <2>3. JobKnows(j)'
    BY <2>1, <2>2 DEF JobKnows, PhaseComplete
  <2> QED
    BY <1>0, <2>1, <2>3 DEF JobEffect
<1>5. ASSUME NEW o \in {"Success", "Failed", "Stopped"}, EndCallbackTask(j, o)
      PROVE  JobEffect(j)
  <2> DEFINE t == job[j].cur
  <2>1. t \in TasksOf(p) /\ t \in Task /\ PhaseOf[t] = p
    BY <1>5, <1>0, <1>2 DEF EndCallbackTask, TasksOf
  <2>2. \A u \in Task : task'[u] = IF u = t THEN o ELSE task[u]
    BY <1>5, <1>0, <2>1 DEF EndCallbackTask, TypeOK
  <2>3. /\ \A k \in JobSlot \ {j} : job'[k] = job[k]
        /\ job'[j].phase = p /\ job'[j].cur = NoTask
    BY <1>5, <1>0 DEF EndCallbackTask, TypeOK, JobRecord
  <2>4. ~PhaseComplete(task, p)
    BY <1>2, <2>1 DEF PhaseComplete
  <2>5. job'[j].st # "free" /\ JobKnows(j)'
    <3>1. CASE o = "Success"
      <4>1. job'[j].st = "running" /\ job'[j].todo = job[j].todo
        BY <1>5, <1>0, <3>1 DEF EndCallbackTask, TypeOK, JobRecord
      <4>2. \A u \in TasksOf(p) : task'[u] = "Success"
                                    <=> u \notin job[j].todo \cup {NoTask}
        <5>1. t \notin job[j].todo
          BY <1>2
        <5> QED
          BY <5>1, <1>0, <1>2, <2>1, <2>2, <3>1
      <4> QED
        BY <1>0, <1>1, <1>2, <2>3, <4>1, <4>2 DEF JobKnows
    <3>2. CASE o # "Success"
      <4>1. job'[j].st = "done" /\ job'[j].err
        BY <1>5, <1>0, <3>2 DEF EndCallbackTask, TypeOK, JobRecord
      <4> QED
        BY <4>1, ErrorKnowsNothing
    <3> QED
      BY <3>1, <3>2
  <2> QED
    BY <1>0, <2>1, <2>2, <2>3, <2>4, <2>5 DEF JobEffect
<1> QED
  BY <1>3, <1>4, <1>5

LEMMA ConfigEffect ==
    ASSUME OrderInv, TypeOK', NEW j \in JobSlot,
           \/ ApplyConfigPhase(j) \/ PuppetTimeout(j) \/ EndConfigPhase(j)
           \/ \E t \in Task, o \in {"Success", "Failed"} : PuppetFeedback(j, t, o)
    PROVE  JobEffect(j)
<1> DEFINE p == job[j].phase
<1>0. /\ TypeOK /\ job[j] \in JobRecord /\ p \in Phase
      /\ job[j].st \in {"running", "waiting"} /\ Live(j) /\ JobKnows(j)
      /\ TasksOf(p) \subseteq Task
  BY DEF OrderInv, TypeOK, JobRecord, ApplyConfigPhase, PuppetTimeout,
         EndConfigPhase, PuppetFeedback, Live, JobsKnow, TasksOf
<1>1. CASE ApplyConfigPhase(j)
  <2>1. /\ job[j].todo \subseteq TasksOf(p)
        /\ \E t \in TasksOf(p) : task[t] = "Initial"
    BY <1>0, <1>1 DEF ApplyConfigPhase, JobKnows
  <2>2. /\ \A k \in JobSlot \ {j} : job'[k] = job[k]
        /\ job'[j].phase = p /\ job'[j].st = "waiting"
    BY <1>0, <1>1 DEF ApplyConfigPhase, TypeOK, JobRecord
  <2>3. \A t \in Task : PhaseOf[t] # p => task'[t] = task[t]
    BY <1>1, <2>1 DEF ApplyConfigPhase, TasksOf
  <2>4. ~PhaseComplete(task, p)
    BY <2>1 DEF PhaseComplete
  <2>5. JobKnows(j)'
    BY <2>2 DEF JobKnows
  <2> QED
    BY <1>0, <2>2, <2>3, <2>4, <2>5 DEF JobEffect
<1>2. CASE PuppetTimeout(j)
  <2>1. job' = job /\ job[j].st = "waiting" /\ ~PhaseComplete(task, p)
    BY <1>2 DEF PuppetTimeout, PhaseComplete
  <2>2. \A t \in Task : PhaseOf[t] # p => task'[t] = task[t]
    BY <1>2 DEF PuppetTimeout
  <2>3. JobKnows(j)'
    BY <2>1 DEF JobKnows
  <2> QED
    BY <1>0, <2>1, <2>2, <2>3 DEF JobEffect
<1>3. CASE EndConfigPhase(j)
  <2>1. /\ \A k \in JobSlot \ {j} : job'[k] = job[k]
        /\ job'[j].phase = p /\ job'[j].st = "done"
        /\ task' = task
        /\ job'[j].err = \E t \in TasksOf(p) : task[t] \in {"Failed", "Stopped"}
    BY <1>0, <1>3 DEF EndConfigPhase, TypeOK, JobRecord
  <2>2. ~job'[j].err => PhaseComplete(task', p)
    <3> SUFFICES ASSUME ~job'[j].err, NEW t \in TasksOf(p)
                 PROVE  task[t] = "Success"
      BY <2>1 DEF PhaseComplete
    <3>1. task[t] \notin {"Initial", "Running"}
      BY <1>3 DEF EndConfigPhase
    <3>2. task[t] \notin {"Failed", "Stopped"}
      BY <2>1
    <3> QED
      BY <3>1, <3>2, <1>0 DEF TypeOK, TaskState
  <2>3. JobKnows(j)'
    BY <2>1, <2>2 DEF JobKnows
  <2> QED
    BY <1>0, <2>1, <2>3 DEF JobEffect
<1>4. ASSUME NEW t \in Task, NEW o \in {"Success", "Failed"},
             PuppetFeedback(j, t, o)
      PROVE  JobEffect(j)
  <2>1. job' = job /\ job[j].st = "waiting" /\ PhaseOf[t] = p
    BY <1>4 DEF PuppetFeedback, TasksOf
  <2>2. ~PhaseComplete(task, p)
    BY <1>4 DEF PuppetFeedback, PhaseComplete
  <2>3. \A u \in Task : PhaseOf[u] # p => task'[u] = task[u]
    BY <1>0, <1>4, <2>1 DEF PuppetFeedback, TypeOK
  <2>4. JobKnows(j)'
    BY <2>1 DEF JobKnows
  <2> QED
    BY <1>0, <2>1, <2>2, <2>3, <2>4 DEF JobEffect
<1> QED
  BY <1>1, <1>2, <1>3, <1>4

LEMMA JobOrder ==
    ASSUME OrderInv, NEW j \in JobSlot, Job(j) \/ JobDies(j)
    PROVE  OrderInv'
<1>1. TypeOK'
  BY JobTypeOK DEF OrderInv
<1>2. JobStep
  BY DEF Job, JobDies, StartJob, StartCallbackTask, EndCallbackPhase,
         ApplyConfigPhase, PuppetTimeout, EndConfigPhase, EndCallbackTask,
         PuppetFeedback
<1>3. CASE JobDies(j)
  <2>1. /\ \A k \in JobSlot \ {j} : job'[k] = job[k]
        /\ job'[j].phase = job[j].phase /\ job'[j].st = "done" /\ job'[j].err
        /\ task' = task /\ Live(j)
    BY <1>3 DEF JobDies, OrderInv, TypeOK, JobRecord
  <2>2. JobEffect(j)
    BY <2>1, ErrorKnowsNothing DEF JobEffect
  <2> QED
    BY <1>1, <1>2, <2>2, JobEffectOrder
<1>4. CASE Job(j)
  <2>1. JobEffect(j)
    BY <1>1, <1>4, StartJobEffect, CallbackEffect, ConfigEffect DEF Job
  <2> QED
    BY <1>1, <1>2, <2>1, JobEffectOrder
<1> QED
  BY <1>3, <1>4

-----------------------------------------------------------------------------

LEMMA NextOrder ==
    ASSUME Steady, NoJoins, OrderInv, [Next]_vars
    PROVE  OrderInv'
<1>1. CASE UNCHANGED vars
  <2>1. PlanHeld' /\ TypeOK'
    BY <1>1 DEF vars, OrderInv, PlanHeld, TypeOK
  <2> QED
    BY <1>1, <2>1, JobsUntouched DEF vars, OrderInv, Rest
<1>2. ~CoordinatorDies /\ ~PhasesRaise /\ ~RunPlanRaises /\ ~RestartService
  BY DEF Steady, CoordinatorDies, PhasesRaise, RunPlanRaises, RestartService
<1>3. ~MonitorPlan
  BY DEF MonitorPlan, OrderInv, Rest
<1>4. CASE PlanKilled
  <2>1. pc # "phases" /\ UNCHANGED <<pc, active, toStart, job>>
    BY <1>4 DEF PlanKilled, OrderInv, PlanHeld, Executing, coordVars
  <2>2. task \in [Task -> TaskState] /\ \A t \in Task : task[t] # "Running"
    BY <2>1, NothingLeft DEF OrderInv, TypeOK
  <2>3. [t \in Task |-> IF plan = "stopped" /\ task[t] = "Running"
                        THEN "Stopped" ELSE task[t]] = task
    BY <2>2
  <2>4. task' = task /\ taskId' = taskId /\ plan' \notin ActiveState
    BY <1>4, <2>3 DEF PlanKilled, FixInitialPlan, ActiveState
  <2>5. PlanHeld' /\ TypeOK'
    BY <1>4, <2>1, <2>4, RepairTypeOK DEF PlanKilled, OrderInv, PlanHeld
  <2> QED
    BY <2>1, <2>4, <2>5, JobsUntouched DEF OrderInv, Rest
<1> QED
  BY <1>1, <1>2, <1>3, <1>4, RequestOrder, CoordinatorOrder, JobOrder DEF Next

(* The strengthening is an invariant of the specification. *)
LEMMA OrderInvariant ==
    ASSUME Steady, NoJoins
    PROVE  Spec => []OrderInv
BY InitOrder, NextOrder, PTL DEF Spec

(* ready_phases: for every plan in which only the cleanup phase waits for several
   phases, no task is touched before all its phase waits for has succeeded, in
   whatever order the jobs end, fail or die and clients stop and resume. *)
THEOREM PhasesInOrder ==
    ASSUME Steady, NoJoins
    PROVE  Spec => []PhaseOrder
BY OrderInvariant, PTL DEF OrderInv

(* _fail_running_tasks: when run_plan has returned no task is left Running, whether
   its job has returned, died or was told to stop. *)
THEOREM NothingLeftRunning ==
    ASSUME Steady, NoJoins
    PROVE  Spec => []NoTaskLeftRunning
<1>1. OrderInv => NoTaskLeftRunning
  BY DEF OrderInv, Rest, NoTaskLeftRunning
<1> QED
  BY <1>1, OrderInvariant, PTL

=============================================================================
