----------------------------- MODULE Snapshots -----------------------------
(***************************************************************************)
(* Snapshots of the deployment: the snapshot items under /snapshots, the   *)
(* requests that create, remove and restore one (SnapshotController and    *)
(* SnapshotExecutionMixin), the snapshot plans they build and run, the     *)
(* model backups kept for them, and the deployment plans in between.       *)
(*                                                                         *)
(* What the plugins' callback tasks do to the volumes of the nodes is      *)
(* external: a phase of a create plan snapshots one volume, a phase of a   *)
(* remove plan drops it, a phase that fails may have done so or not.       *)
(***************************************************************************)
EXTENDS Integers, Sequences, FiniteSets

CONSTANTS
    Upgrade,        \* the name of the deployment snapshot
    Named,          \* names of named backup snapshots
    Shapes,         \* the phases the installed plugins may ask for
    Faults,         \* what else happens: see below
    MaxQueue        \* bound: run_plan messages waiting

ASSUME SnapshotAssumption ==
    /\ Upgrade \notin Named /\ "none" \notin Named \cup {Upgrade}
    /\ Shapes \subseteq Seq({"tagged", "default", "post"})
    /\ \A s \in Shapes : s # <<>> /\ \A i \in 1..Len(s) - 1 : s[i] # "post"
    /\ Faults \subseteq {"enqueue", "late", "plan_while_stopping",
                      "restore_after_removal"}
    /\ MaxQueue \in Nat

(* Faults: apply_async raises an error ("enqueue"); run_plan's message is taken later
   than the ten seconds that run_plan_background waits for it ("late"), so that other
   requests find the plan still initial; a plan is asked for while one is stopping; a restore is asked
   for a snapshot whose removal was stopped or failed before its first phase. *)

Name == Named \cup {Upgrade}

VARIABLES
    shape,      \* the phases of this deployment's plugins
    snap,       \* name -> snapshot item
    plan,       \* the current plan
    queue,      \* run_plan messages
    coord,      \* run_plan's own state
    job,        \* the phase job: "none", "queued", "running", "ok" or "error"
    backups,    \* names with a model backup snapshot_<name>
    good,       \* is there a backup of the last successful deployment plan?
    disk        \* name -> volumes that hold a snapshot of that name

vars == <<shape, snap, plan, queue, coord, job, backups, good, disk>>

Absent == [st |-> "absent", prev |-> "none", ts |-> "none", active |-> FALSE]
NoPlan == [kind |-> "none", st |-> "none", action |-> "none", target |-> "none",
           phases |-> <<>>, done |-> 0, failed |-> FALSE]
IdleCoord == [st |-> "idle", action |-> "none", name |-> "none"]

\* The volumes the plugins snapshot: one per phase, none in the last, "post" one.
Volume == {i \in 1..Len(shape) : shape[i] # "post"}

-----------------------------------------------------------------------------
(* Items, plans and what the code reads of them *)

PlanExists == plan.kind # "none"
SnapshotPlan == plan.kind \in {"create", "remove", "restore"}
PlanActive == plan.st \in {"running", "stopping"}

(* ModelItem._set_state *)
SetState(i, st) ==
    IF i.st = st THEN i
    ELSE [i EXCEPT !.st = st, !.prev = IF i.st = "ForRemoval" THEN i.prev ELSE i.st]

(* ModelItem.set_previous_state *)
SetPreviousState(i) == SetState(i, IF i.prev = "none" THEN "Initial" ELSE i.prev)

(* PluginApiContext._snapshot_object; current_snapshot_object *)
ActiveNames(s) == {n \in Name : s[n].active}
CurrentOf(s) ==
    IF Cardinality(ActiveNames(s)) = 1 THEN CHOOSE n \in ActiveNames(s) : TRUE ELSE "none"

(* PluginApiContext.snapshot_action, with "error" for the exceptions it raises *)
SnapshotAction(s) ==
    LET n == CurrentOf(s)
    IN  CASE n = "none" -> "error"
          [] n # "none" /\ s[n].st = "ForRemoval" -> "remove"
          [] n # "none" /\ s[n].st = "Initial" -> "create"
          [] n # "none" /\ s[n].st = "Applied" /\ s[n].ts = "ok" /\ n = Upgrade -> "restore"
          [] OTHER -> "error"

(* SnapshotExecutionMixin.snapshot_status, for the items s and the plan p *)
SnapshotStatus(s, p, n) ==
    LET exists == p.kind # "none"
        active == p.st \in {"running", "stopping"}
        related == exists /\ CurrentOf(s) = n
        isSnapshot == p.kind \in {"create", "remove", "restore"}
    IN  CASE s[n].st = "absent" -> "no_snapshot"
          [] s[n].st # "absent" /\ ~active /\ related /\ isSnapshot
                /\ p.failed /\ p.kind # "restore" -> "failed"
          [] OTHER ->
                CASE s[n].ts = "ok" ->
                        IF related /\ isSnapshot THEN "exists" ELSE "exists_previous_plan"
                  [] s[n].ts = "none" -> "not_started_yet"
                  [] s[n].ts = "failed" -> IF active THEN "in_progress" ELSE "failed"

(* reset_snapshot_active_attribute *)
ResetActive(s) ==
    IF plan.st = "running" THEN s
    ELSE [n \in Name |-> [s[n] EXCEPT !.active = FALSE]]

(* _snapshot_tasks_needed; the plan is gone when it is asked for a snapshot plan *)
TasksNeeded(s, kind) ==
    LET n == CurrentOf(s)
        status == IF n = "none" THEN "no_snapshot" ELSE SnapshotStatus(s, NoPlan, n)
    IN  \/ kind = "create" /\ status \in {"no_snapshot", "not_started_yet"}
        \/ kind = "remove" /\ status \in {"exists_previous_plan", "failed", "not_started_yet"}
        \/ kind = "restore" /\ status \in {"exists", "exists_previous_plan"}

-----------------------------------------------------------------------------
(* Plan creation *)

Phase(vol, clean) == [vol |-> vol, clean |-> clean]

(* _create_removal_tasks(is_snapshot=True): a CleanupTask for every snapshot item
   that is ForRemoval, whichever snapshot the plan is for. *)
CleanupOf(s) == {n \in Name : s[n].st = "ForRemoval"}

(* SnapshotPlanBuilder.build: the groups in the order of the rule set.  Only the
   rules of remove_snapshot have a final group for CleanupTasks; the others put
   them with the tasks that match no rule, before "post". *)
BuildPhases(kind, s) ==
    LET clean == CleanupOf(s)
        phase(i) == Phase(IF shape[i] = "post" THEN 0 ELSE i,
                          IF shape[i] = "default" /\ kind # "remove" THEN clean ELSE {})
        before == [i \in 1..Cardinality({j \in DOMAIN shape : shape[j] # "post"}) |-> phase(i)]
        after == IF Len(before) < Len(shape) THEN <<phase(Len(shape))>> ELSE <<>>
        apart == IF clean = {} THEN <<>> ELSE <<Phase(0, clean)>>
    IN  IF kind = "remove" THEN before \o after \o apart
        ELSE IF \E i \in DOMAIN shape : shape[i] = "default" THEN before \o after
        ELSE before \o apart \o after

SnapshotPlanFor(kind, s) ==
    [kind |-> kind, st |-> "initial", action |-> SnapshotAction(s), target |-> CurrentOf(s),
     phases |-> BuildPhases(kind, s), done |-> 0, failed |-> FALSE]

(* _create_plan_with_type for a snapshot plan: the model may be refused before the
   old plan is dropped, plugins may fail after it, and otherwise the plan is made.
   `undone' are the items when no plan is made. *)
CreateSnapshotPlan(kind, s, undone) ==
    \/ plan' = plan /\ snap' = undone /\ queue' = queue
    \/ plan' = NoPlan /\ snap' = undone /\ queue' = queue
    \/ /\ TasksNeeded(s, kind) /\ SnapshotAction(s) # "error"
       /\ plan' = SnapshotPlanFor(kind, s)
       /\ \/ snap' = s /\ queue' = queue + 1       \* run_plan_background
          \/ /\ "enqueue" \in Faults               \* ... which could not be queued
             /\ queue' = queue
             /\ snap' = IF kind = "remove" THEN undone ELSE s

(* Served: the request that queued run_plan has been answered.
   RequestAllowed: check_cannot_create_plan and check_plan_not_running *)
Served == plan.st = "initial" /\ queue > 0 => "late" \in Faults
RequestAllowed == ~PlanActive /\ queue < MaxQueue /\ Served

(* _validate_create_snapshot_name *)
MayCreate(n) ==
    /\ n = Upgrade => \A m \in Named : snap[m].st = "absent"
    /\ snap[n].st = "absent"
    /\ n # Upgrade => good

(* _validate_and_create_snapshot_item: a new item is active *)
WithNew(s, n) ==
    [s EXCEPT ![n] = [st |-> "Initial", prev |-> "none", ts |-> "none", active |-> TRUE]]

(* POST /snapshots/<n>: SnapshotController.create_snapshot *)
CreateSnapshot(n) ==
    /\ RequestAllowed
    /\ LET reset == ResetActive(snap)
       IN  IF MayCreate(n)
           THEN CreateSnapshotPlan("create", WithNew(reset, n), reset)
           ELSE snap' = reset /\ UNCHANGED <<plan, queue>>
    /\ UNCHANGED <<shape, coord, job, backups, good, disk>>

(* _validate_delete_snapshot *)
MayRemove(s, n) ==
    SnapshotStatus(s, plan, n) \in {"not_started_yet", "exists", "exists_previous_plan", "failed"}

(* _delete_post_run_plan_checks: no plan will remove the snapshot *)
PutBack(s, n) == [s EXCEPT ![n] = SetPreviousState(s[n])]

(* SnapshotExecutionMixin.delete_snapshot: the snapshot asked for is the active one ... *)
Activated(n) == [ResetActive(snap) EXCEPT ![n].active = snap[n].st # "absent"]
(* ... and set_snapshot_for_removal *)
ForRemoval(s, n) == [s EXCEPT ![n] = SetState(s[n], "ForRemoval")]

(* DELETE /snapshots/<n>, or PUT with action "remove", or one turn of
   prepare_restore's _remove_snapshot *)
DeleteSnapshot(n) ==
    /\ RequestAllowed
    /\ LET reset == Activated(n)
           forRemoval == ForRemoval(reset, n)
       IN  IF MayRemove(reset, n)
           THEN CreateSnapshotPlan("remove", forRemoval, PutBack(forRemoval, n))
           ELSE snap' = reset /\ UNCHANGED <<plan, queue>>
    /\ UNCHANGED <<shape, coord, job, backups, good, disk>>

(* _validate_restore_snapshot *)
MayRestore(s) ==
    /\ \A m \in Named : s[m].st = "absent"
    /\ SnapshotStatus(s, plan, Upgrade) \in {"exists", "exists_previous_plan"}

(* PUT /snapshots/snapshot: SnapshotController._restore_snapshot *)
RestoreSnapshot ==
    /\ RequestAllowed
    /\ snap[Upgrade].st = "ForRemoval" => "restore_after_removal" \in Faults
    /\ LET reset == Activated(Upgrade)
       IN  IF MayRestore(reset)
           THEN CreateSnapshotPlan("restore", reset, reset)
           ELSE snap' = reset /\ UNCHANGED <<plan, queue>>
    /\ UNCHANGED <<shape, coord, job, backups, good, disk>>

(* POST /plans: the active attributes are reset first, running plan or not *)
CreateDeploymentPlan ==
    /\ plan.st = "stopping" => "plan_while_stopping" \in Faults
    /\ Served
    /\ snap' = ResetActive(snap)
    /\ \/ plan' = plan
       \/ ~PlanActive /\ plan' = NoPlan
       \/ ~PlanActive /\ plan' = [NoPlan EXCEPT !.kind = "deployment", !.st = "initial",
                                                !.phases = <<Phase(0, {})>>]
    /\ UNCHANGED <<shape, queue, coord, job, backups, good, disk>>

(* PUT /plans/plan, state running: nmp_run_validator, run_plan_background *)
RunPlanRequest ==
    /\ \/ plan.st = "initial"
       \/ plan.st = "failed" /\ ~SnapshotPlan       \* resume
    /\ queue < MaxQueue /\ Served
    /\ queue' = queue + 1
    /\ UNCHANGED <<shape, snap, plan, coord, job, backups, good, disk>>

(* PUT /plans/plan, state stopped: stop_plan_validator, stop_plan *)
StopPlan ==
    /\ plan.st = "running" /\ plan.kind # "restore"
    /\ plan' = [plan EXCEPT !.st = "stopping"]
    /\ UNCHANGED <<shape, snap, queue, coord, job, backups, good, disk>>

(* DELETE /plans/plan *)
DeletePlan ==
    /\ PlanExists /\ ~PlanActive /\ Served
    /\ plan' = NoPlan
    /\ UNCHANGED <<shape, snap, queue, coord, job, backups, good, disk>>

(* model_changed, after any change of the model *)
ModelChanged ==
    /\ plan.st \in {"initial", "failed"}
    /\ plan' = [plan EXCEPT !.st = "invalid"]
    /\ UNCHANGED <<shape, snap, queue, coord, job, backups, good, disk>>

-----------------------------------------------------------------------------
(* run_plan, the phase jobs and the end of the plan *)

\* Mutant: a plan without a failed task is successful.
EndUnlessFailed(p) ==
    [p EXCEPT !.st = IF ~p.failed THEN "successful"
                     ELSE IF p.st = "running" THEN "failed" ELSE "stopped"]

(* BasePlan.end *)
EndOf(p) ==
    [p EXCEPT !.st = IF p.done = Len(p.phases) THEN "successful"
                     ELSE IF p.st = "running" THEN "failed" ELSE "stopped"]

(* _clear_plan: Removed items go, and a successful snapshot plan leaves the active
   snapshot Applied *)
ClearPlan(s, successful) ==
    LET kept == [n \in Name |-> IF s[n].st = "Removed" THEN Absent ELSE s[n]]
        n == CurrentOf(kept)
    IN  IF successful /\ SnapshotPlan /\ n # "none"
        THEN [kept EXCEPT ![n] = SetState(@, "Applied")]
        ELSE kept

(* run_plan takes a message: it ends a plan whose coordinator died, gives up when
   the plan is gone or may not run, backs the model up or drops the backup of the
   last successful plan, and starts the plan. *)
RunPlan ==
    /\ queue > 0 /\ coord.st = "idle"
    /\ queue' = queue - 1
    /\ IF PlanActive
       THEN /\ plan' = EndOf([plan EXCEPT !.failed = @ \/ job = "running"])
            /\ snap' = ClearPlan(snap, FALSE)
            /\ job' = "none"
            /\ UNCHANGED <<coord, backups, good>>
       ELSE IF ~PlanExists \/ (SnapshotPlan /\ SnapshotAction(snap) = "error")
       THEN UNCHANGED <<plan, snap, job, coord, backups, good>>
       ELSE LET action == IF SnapshotPlan THEN SnapshotAction(snap) ELSE "none"
                name == CurrentOf(snap)
                starts == plan.st \in {"initial", "failed"}
            IN  /\ backups' = IF action = "create" THEN backups \cup {name} ELSE backups
                /\ good' = (good /\ SnapshotPlan)
                /\ plan' = IF starts THEN [plan EXCEPT !.st = "running", !.failed = FALSE] ELSE plan
                /\ coord' = IF starts THEN [st |-> "phases", action |-> action, name |-> name]
                            ELSE coord
                /\ UNCHANGED <<snap, job>>
    /\ UNCHANGED <<shape, disk>>

NextPhase == plan.phases[plan.done + 1]
IsLast == plan.done + 1 = Len(plan.phases)

\* Mutant: the timestamp is left alone when the plan starts.
AtPhaseStartKept(s) == s

(* _process_timestamp_at_ss_phasestart: a snapshot counts as failed from the start
   of the first phase, except while it is restored *)
AtPhaseStart(s) ==
    LET n == CurrentOf(s)
    IN  IF SnapshotPlan /\ plan.done = 0 /\ plan.kind # "restore" /\ n # "none"
        THEN [s EXCEPT ![n].ts = "failed"]
        ELSE s

(* _process_timestamp_at_ss_phaseend after the last phase; without an active
   snapshot it raises an AttributeError when the phase went well *)
AtPhaseEnd(s, ok) ==
    LET n == CurrentOf(s)
    IN  IF ~SnapshotPlan \/ ~IsLast \/ n = "none" THEN s
        ELSE IF ~ok THEN (IF plan.kind = "restore" THEN s ELSE [s EXCEPT ![n].ts = "failed"])
        ELSE IF s[n].st \in {"Removed", "ForRemoval"} THEN s
        ELSE [s EXCEPT ![n] = [SetState(@, "Applied") EXCEPT !.ts = "ok"]]

EndRaises(s) == SnapshotPlan /\ IsLast /\ CurrentOf(s) = "none"

(* _run_next_phases: the next phase goes to a worker *)
EnqueuePhase ==
    /\ coord.st = "phases" /\ job = "none"
    /\ NextPhase.clean = {}
    /\ job' = "queued"
    /\ UNCHANGED <<shape, snap, plan, queue, coord, backups, good, disk>>

(* ... or run_plan runs it, when it holds cleanup tasks; a phase that mixes them with
   callback tasks raises a ValueError (_analyse_phase).  No other phase is looked for
   afterwards. *)
RunCleanupPhase ==
    /\ coord.st = "phases" /\ job = "none"
    /\ NextPhase.clean # {}
    /\ IF NextPhase.vol # 0 \/ plan.st = "stopping"
       THEN /\ coord' = [coord EXCEPT !.st = "failing"]
            /\ UNCHANGED <<snap, plan>>
       ELSE LET removed == [n \in Name |->
                               IF n \in NextPhase.clean /\ snap[n].st = "ForRemoval"
                               THEN SetState(snap[n], "Removed") ELSE snap[n]]
                started == AtPhaseStart(removed)
            IN  /\ snap' = AtPhaseEnd(started, TRUE)
                /\ plan' = [plan EXCEPT !.done = @ + 1]
                /\ coord' = [coord EXCEPT !.st = IF EndRaises(started) THEN "failing" ELSE "ending"]
    /\ UNCHANGED <<shape, queue, job, backups, good, disk>>

(* _run_plan_phase_in_worker: a stopped plan's phase returns at once *)
StartPhase ==
    /\ job = "queued"
    /\ IF plan.st = "stopping"
       THEN job' = "error" /\ snap' = snap
       ELSE job' = "running" /\ snap' = AtPhaseStart(snap)
    /\ UNCHANGED <<shape, plan, queue, coord, backups, good, disk>>

(* What the callbacks of a phase may have done to the volumes: external. *)
DiskAfter(ok) ==
    LET n == plan.target
        v == {NextPhase.vol} \ {0}
        acted == CASE plan.action = "create" -> [disk EXCEPT ![n] = @ \cup v]
                   [] plan.action = "remove" -> [disk EXCEPT ![n] = @ \ v]
                   [] OTHER -> disk
    IN  IF ok THEN {acted} ELSE {acted, disk}

(* The tasks of the phase are over, well or not, and the last phase sets the
   timestamp. *)
FinishPhase ==
    /\ job = "running"
    /\ \E ok \in BOOLEAN :
        /\ disk' \in DiskAfter(ok)
        /\ snap' = AtPhaseEnd(snap, ok)
        /\ job' = IF ok /\ ~EndRaises(snap) THEN "ok" ELSE "error"
        /\ plan' = [plan EXCEPT !.failed = @ \/ ~ok,
                                !.done = IF ok THEN @ + 1 ELSE @]
    /\ UNCHANGED <<shape, queue, coord, backups, good>>

(* The worker dies with the phase: its tasks stay running and its result is an error,
   and run_plan fails the tasks. *)
WorkerDies ==
    /\ job = "running"
    /\ disk' \in DiskAfter(FALSE)
    /\ job' = "error"
    /\ plan' = [plan EXCEPT !.failed = TRUE]
    /\ UNCHANGED <<shape, snap, queue, coord, backups, good>>

(* _run_all_phases takes a phase's result; the next phase starts only after a good one *)
CollectPhase ==
    /\ coord.st = "phases" /\ job \in {"ok", "error"}
    /\ job' = "none"
    /\ coord' = [coord EXCEPT !.st = IF job = "error" THEN "failing"
                                     ELSE IF plan.done = Len(plan.phases) THEN "ending"
                                     ELSE "phases"]
    /\ UNCHANGED <<shape, snap, plan, queue, backups, good, disk>>

\* Mutant: the backup goes although the removal failed.
CompletePlanForgetful ==
    /\ coord.st \in {"ending", "failing"}
    /\ LET successful == coord.st = "ending"
       IN  /\ snap' = ClearPlan(snap, successful)
           /\ plan' = EndOf(plan)
           /\ backups' = IF coord.action = "remove" THEN backups \ {coord.name} ELSE backups
           /\ good' = (good \/ (successful /\ ~SnapshotPlan))
    /\ coord' = IdleCoord
    /\ UNCHANGED <<shape, queue, job, disk>>

(* _run_plan_complete, then the backups *)
CompletePlan ==
    /\ coord.st \in {"ending", "failing"}
    /\ LET successful == coord.st = "ending"
       IN  /\ snap' = ClearPlan(snap, successful)
           /\ plan' = EndOf(plan)
           /\ backups' = IF successful /\ coord.action = "remove"
                         THEN backups \ {coord.name} ELSE backups
           /\ good' = (good \/ (successful /\ ~SnapshotPlan))
    /\ coord' = IdleCoord
    /\ UNCHANGED <<shape, queue, job, disk>>

(* The celery service dies with run_plan and its phase job; its message may be
   delivered again. *)
Crash ==
    /\ coord.st # "idle"
    /\ disk' \in IF job = "running" THEN DiskAfter(FALSE) ELSE {disk}
    /\ plan' = [plan EXCEPT !.failed = @ \/ job = "running"]
    /\ coord' = IdleCoord
    /\ job' = "none"
    /\ queue' \in {queue, queue + 1} /\ queue' <= MaxQueue
    /\ UNCHANGED <<shape, snap, backups, good>>

(* _fix_plan, by monitor_plan or when litpd starts *)
FixPlan ==
    /\ PlanActive /\ coord.st = "idle"
    /\ plan' = EndOf(plan)
    /\ UNCHANGED <<shape, snap, queue, coord, job, backups, good, disk>>

-----------------------------------------------------------------------------
Init ==
    /\ shape \in Shapes
    /\ snap = [n \in Name |-> Absent]
    /\ plan = NoPlan
    /\ queue = 0
    /\ coord = IdleCoord
    /\ job = "none"
    /\ backups = {}
    /\ good \in BOOLEAN
    /\ disk = [n \in Name |-> {}]

Next ==
    \/ \E n \in Name : CreateSnapshot(n) \/ DeleteSnapshot(n)
    \/ RestoreSnapshot \/ CreateDeploymentPlan \/ RunPlanRequest
    \/ StopPlan \/ DeletePlan \/ ModelChanged
    \/ RunPlan \/ EnqueuePhase \/ RunCleanupPhase \/ StartPhase \/ FinishPhase
    \/ WorkerDies \/ CollectPhase \/ CompletePlan \/ Crash \/ FixPlan

Spec == Init /\ [][Next]_vars

-----------------------------------------------------------------------------
(* An Applied snapshot with a timestamp, which is what the deployment can be restored
   to, is on every volume while no plan works on it, whatever failed before:
   the timestamp is emptied before the first task and set after the last one. *)
TimestampMeansComplete ==
    \A n \in Name :
        snap[n].st = "Applied" /\ snap[n].ts = "ok" /\ ~PlanActive => disk[n] = Volume

(* A snapshot plan that is successful has done what its request asked for: after a
   create the item has its timestamp, the model backup it is restored from and every
   volume; after a remove nothing is left on the volumes and the
   item is gone (or Removed, when run_plan died before it deleted Removed items). *)
SuccessMeansDone ==
    plan.st = "successful" /\ coord.st = "idle" =>
        LET n == plan.target
        IN  /\ plan.kind = "create" =>
                 snap[n].ts = "ok" /\ n \in backups /\ disk[n] = Volume
            /\ plan.kind = "remove" =>
                 snap[n].st \in {"absent", "Removed"} /\ disk[n] = {}

(* Every snapshot that can be restored has the model backup that plugins restore
   from (snapshot_model), no plan in between having dropped it. *)
RestorableHasBackup ==
    \A n \in Name : snap[n].st = "Applied" /\ snap[n].ts = "ok" => n \in backups

(* Volumes that hold a snapshot belong to an item of the model: after a removal that
   failed the item stays, so that the removal can be asked for again. *)
ItemForDisk == \A n \in Name : disk[n] # {} => snap[n].st # "absent"
=============================================================================
