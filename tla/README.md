# LITP core: a verification project

LITP (`src/src/litp`) keeps a model of a deployment as a tree of items, lets
plugins turn the difference between the model and what is deployed into a *plan*
(phases of tasks), and executes the plan on the management server and the nodes.
This project models the parts of LITP that decide what is done to a deployment and
in which order, and that have to survive failures: items, the creation of plans,
their execution, Puppet, snapshots, the import of ISO images and the start of the
service.

The modules are checked with TLC on small instances, and what matters most is proved
for all instances with TLAPS. `PROJECT.json` lists the runs, the source lines
each definition stands for, the hazards of the code, and the theorems.

## 1. The system

| Component | State | Operations | Interacts with |
|---|---|---|---|
| Execution manager (`core/execution_manager.py`) | the current plan, `_active_phases`, overall errors | `create_plan`, `run_plan`, `stop_plan`, `delete_plan`, `kill_plan`, `monitor_plan`, `_fix_plan` | all of the below |
| Plan (`core/plan.py`) | state, celery task id, tasks by phase, required phases | `run`, `stop`, `end`, `mark_invalid`, `ready_phases`, `_build_phase_dependencies` | plan, task and item rows of the database |
| Celery workers (`core/worker`) | queues `litp_plan` (one process) and `litp_task` | `run_plan`, `run_plan_phase`, `monitor_plan` (every minute) | the execution manager in each worker process |
| Plan requests (`service/controllers/plan.py`) | none | create, run, resume, stop, delete | execution manager; `apply_async` to the workers |
| Item and XML requests (`service/controllers`, `xml/xml_loader.py`) | none | create, update, remove items; load, merge, replace documents | model manager; `model_changed()` marks a runnable plan invalid |
| Model manager, items (`core/model_manager.py`, `model_item.py`) | item states and properties | `create_item`, `update_item`, `remove_item`, `set_all_applied`, restores | tasks refer to items |
| Validation (`core/validators.py`, `plugins/core/core_plugin.py`, `extensions/core_extension.py`) | none (pure) | `validate_model`, views | plan creation |
| Plan builder (`core/plan_builder.py`, `topsort.py`, `plan_types/`) | none (pure) | `build` | tasks from plugins, cluster order |
| Puppet manager (`core/puppet_manager.py`) | tasks of the phase, processed nodes, manifests | `add_phase`, `apply_nodes`, `wait_for_phase` | MCollective, PuppetDB, the phase job |
| Snapshots (`service/controllers/snapshot.py`, `mixins.py`) | snapshot items, model backups | create, remove, restore | snapshot plans through the same `run_plan` |
| Maintenance, ISO import (`core/maintenance.py`, `core/iso_import.py`) | maintenance property, state file | import of an ISO, import of packages | an importer process, Puppet agents, litpd |
| Service start (`core/service.py`, `litpd.sh`, `migration/`) | registered types, recorded versions | repair of the plan, migrations, restores | data layer, extensions |
| Data layer (`data/`) | SQLAlchemy sessions, rows, model backups | load, commit, expire | everything |
| Thread pool (`core/litp_threadpool.py`) | jobs | run, wait | service; no producer of jobs is left |

The processes share the database only. A session keeps a row it has loaded until it
is expired (`expire_on_commit=False`), no row is locked, and the last commit wins.
What is hard here:

- a request or `run_plan` decides on a row it loaded earlier and overwrites it;
- phases of independent clusters run at once, and fail, stop and end in any order;
- the coordinator, a job, the workers, the importer or litpd die between two
  commits, and `monitor_plan` or the next start has to repair what is left;
- messages are repeated or taken late, and a job's message holds a phase index only;
- Puppet agents run when they like, and their reports may be of an earlier catalog;
- a plan may fail, be resumed, fail elsewhere and be resumed again;
- an item may be removed, recovered, inherited and restored, in long sequences;
- a start of litpd may fail half-way through a migration.

What has to be right, component by component, is what the runs of section 3 check.

## 2. Modules

    PlanLifecycle                 what a plan promises (abstract)
        ^ refinement (INSTANCE)
    PlanExecution                 requests, coordinator, jobs, failures, repair
        ^ PlanExecution_proofs < PlanExecution_order < PlanExecution_success
              < PlanExecution_refinement
    PhaseDependencies             how the required phases are computed
        ^ PhaseDependencies_proofs
    ItemLifecycle                 items under requests, documents, plans, restores
    PuppetPhase < PuppetPhase_proofs               config phases: manifests, reports
    PlanTypes, ModelValidation < PlanCreation      create_plan up to the builder
    PlanBuilder                   tasks to phases, lock tasks
    Snapshots < Snapshots_proofs  snapshot items, plans and backups
    IsoLayout < IsoImport < IsoImport_proofs       maintenance mode, import
    CoreExtension < Extensions < ServiceStart      start, migrations, restores

(`A < B`: B extends A.) A module `MCx` extends `x` with the shapes and inputs of its
runs. `PlanExecution` takes the result of `PhaseDependencies` as its constant `Req`:
its assumption that requirements precede a phase is the theorem
`RequirementsAlwaysPrecede`. What a phase of its kind "config" does is a choice of
outcomes; `PuppetPhase` shows what these outcomes mean. Its plan has any shape;
`PlanCreation` and `PlanBuilder` say which shapes there are.

### PlanExecution

| Variable | In the code |
|---|---|
| `plan` | `BasePlan._state`; `"none"` without a plan row |
| `task`, `item` | `Task.state`, `ModelItem._state` |
| `taskId` | `_celery_task_id`: none, the live coordinator's, or that of one that failed or is lost |
| `pending` | requests that have loaded the plan and not committed |
| `queue` | messages in `litp_plan` |
| `pc`, `seen`, `toStart`, `active`, `errs` | where `run_plan` is, the plan state it loaded, phases to enqueue, `_active_phases`, `overall_result['errors']` |
| `job` | `run_plan_phase` messages and jobs, and results not yet collected |
| `puppet`, `backup` | Puppet enabled on the nodes; LAST_SUCCESSFUL_PLAN backup |
| `litpd` | up, or waiting in `kill_plan` |

An action is the work of one process between two commits others can observe.

- Requests: `CreatePlan`, `CreatePlanFails` (the `finally` block of
  `_create_plan_with_type` removes the old plan), `DeletePlan`, `StopPlan`,
  `ChangeModel`, `ChangeModelOnly`, `RunPlanBackground`, `KillPlan`. A request kind in
  `LongRequests` is two steps, `BeginRequest` (load and check) and the commit.
- Coordinator (`run_plan`): `StartRunPlan`, `DisablePuppet`, `RunPlanStart`,
  `SetCeleryTaskId`, `FirstReadyPhases`, `EnqueuePhase`, `RunCleanupPhase`,
  `CollectPhase`, `PhasesOver`, `ClearPlan`, `EndPlan`, `BackupModel`,
  `FinishRunPlan`; `PhasesRaise` and `RunPlanRaises` for an exception of the phases and one
  of `_run_plan_complete`.
- Jobs (`run_plan_phase`): `StartJob`, `StartCallbackTask`, `EndCallbackTask`,
  `EndCallbackPhase`, `ApplyConfigPhase`, `PuppetFeedback`, `PuppetTimeout`,
  `EndConfigPhase`.
- Failures and repair: `JobDies`, `CoordinatorDies`, `MonitorPlan`,
  `RestartService`, `PlanKilled`.

Abstractions. A plan's shape (phases, requirements, kinds, tasks, items) is a
constant, so every plan created in a behaviour has the same shape; a plan is only
created successfully when none of the items is Applied, since it has tasks for all.
Items are not removed here. What a plugin or Puppet does is the choice of an outcome.
Deleting the rows of a plan makes the jobs that hold them fail. A job slot is
used again when its result has been collected or nobody waits for it.

### PhaseDependencies

The loop of `_build_phase_dependencies`, one action per branch. `Init` chooses any
plan of the layout that `PlanBuilder.build` produces (`PlanLayout`): groups before
the clusters, one contiguous section for each cluster in an order that respects
`dependency_list`, groups after the clusters, cleanup. The constants `BootClusters`,
`MixedClusters` and `PostClusters` say which clusters have tasks outside their
sections.

### ItemLifecycle

`model` holds an item's row (state, previous state, value, applied value, applied-
properties-determinable), `deployed` what is on the nodes, `task` and `target` what the
plan has done and would do, `saved` the model of the last successful plan. Actions: the
requests (`CreateItem`, `CreateInherited`, `RecreateItem`, `RecreateItemFails`,
`UpdateItemRequest`, `RemoveItemRequest`), `ImportXml` for a document and a mode
(load, merge, replace), `RestoreModel`, `PrepareRestore`, and the plan (`CreatePlan`,
`RunPlan`, `RunTasks`, `ResumePlan`, `PlanSucceeds`, `PlanFails`, `PlanDies`). An item
has one property; removal, recovery and inheritance work on subtrees and on the copies
of a source, recursively, as in the code.

### PuppetPhase

One worker in the config phases of a plan: `add_phase` with the tasks it replaces
(`persisted`, `backup`), manifests and their version, `apply_nodes`, `wait_for_phase`
with its polls, reports, failures without tasks and their retries, time-out, stop and
clean-up. Manifests are sets of tasks: the order inside a manifest is left out. Beside
it Puppet agents start and end runs of whatever manifest they find, PuppetDB answers
late or not at all, and another worker writes the manifest version. `Faults` says
which queries may go unanswered ("query" for reports and resources, "events" for the
events of a report), and whether runs fail without a task and stops come late.

### PlanCreation, PlanTypes, ModelValidation, PlanBuilder

Algorithms on inputs, in steps where the code has steps that can end it.
`ModelValidation` is what is asked of the model (structure of items, dependency lists,
services, networks); `PlanTypes` the tags, groups and rules of the four plan types;
`PlanCreation` goes from the model and the plugins' answers to tasks in groups;
`PlanBuilder` from the tasks of groups to phases: the dependency graph, its
topological sort, the packing into phases, net and callback phases, lock tasks.

### Snapshots

`snap` (state, previous state, timestamp, active attribute of each snapshot item),
`plan` with its phases, the messages and the coordinator of `run_plan`, the phase job,
model backups, and `disk`: which volumes hold a snapshot. Requests create, delete and
restore snapshots, create, run, stop and delete plans; phases start, finish and
fail; the worker and the service die and are repaired. `SnapshotStatus` and
`SnapshotAction` are the decisions of `mixins.py` and the plugin API; what plugins do to
the volumes is external.

### IsoImport, IsoLayout

`IsoLayout` turns the contents of an ISO into errors or the actions of the importer.
`IsoImport` has the request that enters maintenance mode and forks the importer, litpd
with its property and state file, the importer with its actions and
`trigger_and_wait`, requests to import packages, plans, and the Puppet agents.

### ServiceStart, Extensions, CoreExtension

`CoreExtension` lists the item types and the migrations of the core as they are;
`Extensions` adds an extension whose migrations use the other operations;
`ServiceStart` has the steps of `litpd.sh` and `run_service`, what each commits, deaths
in between, package changes, requests, backups and `restore_model`.

## 3. Runs

All runs pass but `joins`, which checks a comment of the code that the code does not
keep.

| Run | Instance | Shows | Distinct states, time |
|---|---|---|---|
| `deployment` | two clusters that do not wait for one another, cleanup; 5 tasks, 2 job slots, queue of 2, all requests at any time, dying jobs, fairness | order of phases, no task left Running, no error means complete, Applied means done, backups of success only, refinement of PlanLifecycle; plans and shutdowns end | 189,606; 39 s |
| `recovery` | a phase, two branches, cleanup; all five failures, late stops, patient clients | no repair calls a plan successful that is not complete | 1,218,786; 45 s |
| `joins` | a phase that waits for two clusters | *violated*: two jobs run the phase that waits for both, and `run_plan` ends the plan while one of them works | 1 s |
| `sections` | up to 5 phases, 3 clusters, all acyclic dependencies | the dependencies are sound and not too strict | 91,928; 27 s |
| `items` | an item, a child, a source and a copy; documents, restores | Applied tells what is deployed, removal covers subtrees | 266,712; 76 s |
| `item_failures` | two items below a third, one inherits from the other; failing, stopped and dying plans, failing recoveries, restores | parents and sources of items stay; requests take nothing out of the model that is on the nodes | 1,895,968; 184 s |
| `puppet` | two nodes, tasks of an earlier plan, stale reports, taskless failures, mco and PuppetDB errors, stop, resume | success is enforced, no task left running, what was configured is kept; the phase ends | 441,207; 30 s |
| `builder` | some thousand inputs of two clusters | order, completeness, locks, no spurious cycles | 40 s |
| `snapshots` | the deployment snapshot and a named one, three shapes of plans | timestamp, success and backup mean what they say | 1,628,628; 54 s |
| `import` | three nodes, concurrency 1, one import of several kinds of ISO | the import is alone, Done means applied, concurrency, packages change safely; the import ends | 2,246,648; 189 s |
| `startup` | core versions 1, 2, 15, two package changes | the model is that of the loaded versions, and whole | 162 s |
| `creation` | some hundred thousand models and answers of plugins | clusters ordered, removal complete, tasks in order | 304,287; 38 s |

Bounds. `JobSlot` has two elements, the largest number of phases that can be ready
at once in these shapes; `MaxQueue` of 2 in `deployment` allows a run message to be
repeated while another waits. Two tasks in a phase suffice for a phase that is partly
done (in `deployment` those of a config phase, so that one may fail after the other has
succeeded), two branches for independent failures, a root that is not started when
the plan stops for one that a resumption skips, and the phases before and after them
for something to wait for. Five phases and three clusters hold a section of two phases, a
dependency, an independent cluster and a phase on either side. In `items` the four
items hold one parent and one source relation that share an item; two values tell
a changed property from an unchanged one. In `item_failures` the two relations share
both their ends, and one value suffices: what counts is whether anything is deployed. What a
plan leaves on the nodes of an item it deletes is called `Left` in `deployed`, so that
a new item at this path is not blamed for it. In `puppet` one version beside the current
one is a stale report, two reports a late one after it, one retry of a taskless failure
its success and its exhaustion. In `import` a concurrency of 1 with three nodes has a
batch and nodes waiting for it. In `startup` two package changes are an upgrade and
its reversal. Job slots are interchangeable, hence the symmetry of `recovery`
and `joins`; runs with liveness use none. Deadlock is checked in `import` only:
elsewhere a state with nothing left to do is a proper end (every item
Applied and no plan, the end of a loop, of a phase or of a build).

Fairness. `FairSpec` of PlanExecution has weak fairness of the coordinator, of each job,
of `monitor_plan` and of the loop in `kill_plan`: Celery workers take the next message
when free, Celery beat starts `monitor_plan` every minute, a callback returns (the
callback API asks plugins to check `is_running` regularly) and a config phase has a
timeout (43200 s unless it is set to 0). `PuppetPhase` has weak fairness of the worker,
a loop with sleeps, and none of the agents: `PhaseEnds` rests on the time-out and
the polls. `IsoImport` has weak fairness of the importer, a sequential script whose
commands have time-outs, and of the start of litpd after the importer has written Done,
for then the importer restarts it; nothing else does (`litpd.service:14`, `Restart=no`).
Requests, agents' runs and failures are never obliged to happen.

Faults. Where the code does not do what its comments or users expect, the cause is
named in a constant (`Faults`, `LongRequests`, `Patient`, `GrowSources`, `Overwrites`,
`BadRecovery`, `PlanFailures`, `Restores`, `Documents`, `BootClusters`, `PostClusters`,
`Inputs`), which the passing runs leave out for the properties it breaks. Section 6
lists these cases; adding the value named there to the run's cfg reproduces them.

## 4. Proofs

Every theorem holds for all values of the constants that satisfy the assumptions of
its module and the hypotheses it names. A hypothesis is there because TLC refutes the
property without it; each is satisfied by the run that checks the same property,
except that `recovery` checks `SuccessfulPlanComplete` beyond the theorem's
hypotheses, with crashes and repairs.

### Plan execution

From `ShapeAssumption` (any plan whose requirements precede each phase and whose
phases are not empty) and `EnvironmentAssumption`:

- `TypeCorrect`: `Spec => []TypeOK`, one lemma for each of the requests, the
  coordinator, the jobs and the repairs.
- `PlanOver` (`PlanOverWhenRunPlanReturns`), if stops do not commit late, the
  coordinator does not die and `_run_plan_complete` raises no exception: these are the
  three ways to leave a plan active. The property speaks of `pc = "idle"` only; the inductive
  invariant `PlanAtRest` says that the row is not active at "idle", "disable",
  "start", "backup" and "finish" either.
- `PhasesInOrder`, `NothingLeftRunning` (module `_order`), under `Steady` (requests read
  and commit at once, and of the processes only jobs die) and `NoJoins` (only the
  cleanup phase waits for several phases). With joins TLC refutes each of these
  properties and those below (shape `Join` with all requests and dying jobs), for the reason
  that `joins` shows: two jobs run one phase. Neither is inductive. `OrderInv` adds
  where the coordinator can be while the plan is active (`PlanHeld`), that every live job
  is the one job its phase is active with (`JobsOwned`), that a phase handed out,
  waiting or running has its requirements complete, and that tasks are Running only in
  phases with a job that will set them or be found dead. `NoJoins` is what makes a
  phase ready once: the only phase it waits for is collected once.
- `NoErrorIsSuccess`, `BackupIsOfSuccess`, `SuccessIsComplete` (module `_success`), with
  `CleanupLast` (nothing waits for a cleanup phase) in addition; for any number of
  independent clusters. `SuccessInv` says that, while no error has been returned, every
  phase is complete, started, waits for one that is not complete or not collected, or
  comes after a root that a resumption has skipped (`MaySkip`). When the
  phases are over none is started; a phase that is not complete would then wait for
  another that is not complete, and the least of them (`LeastOfSome`, from the
  well-foundedness of the naturals) waits for nothing: it is a skipped root, which the
  properties name (`RootSkipped`). A skipped root is Initial, so `plan.end()` does
  not call the plan successful.
- `ImplementsLifecycle` (module `_refinement`): `Spec => LifecycleSpec`, under the same
  hypotheses. One step per action, each a step of PlanLifecycle or a stutter; the
  state that `run_plan` has loaded is a variable of PlanLifecycle too, so that requests
  may come between its load and its commit.
- `AppliedIsDone` (`AppliedWhenDone`), under the same hypotheses: an item becomes Applied
  only in a step after which all tasks that act on it have succeeded, or a root has
  been skipped.

### Phase dependencies

From `ClusterAssumption`, for any clusters, dependency lists and number of phases:

- `TypeCorrect`, `RequirementsAlwaysPrecede`. `IInv` adds that the ends of
  sections lie behind the phase the loop is at, and that no cluster depends on
  itself, which is needed in the branch for required clusters: the code enters the
  current phase in `section_ends` before it looks the requirements up there.
- `DependenciesAlwaysRespected`, `NonParallelAlwaysAlone`, `IndependentAlwaysParallel`,
  under `Sectioned` (no phase outside the sections belongs to
  one cluster). `Before(p)`, the phases that are complete before p can start, is a
  recursive function: the lemmas `BeforeKept`, `BeforeNew` and `BeforeTransitive` unfold
  it by one phase, so that no induction over phases is needed; the steps of the
  loop are the induction. `SectionInv` describes what the loop has built: the front, the
  sections with what each waits for, the rest, what `section_ends` and
  `extended_sections` hold, and, for `IndependentAlwaysParallel`, that nothing else is
  waited for.

### Puppet

From `PuppetAssumption` (plans that validation accepts: the phases share no task, and no
two tasks of a plan on one node take the place of the same keys), for any nodes,
tasks, plans, time-outs, retries, runs of agents and failures of commands:

- `TypeCorrect`: `Spec => []TypeOK`. The lemmas before it say what `Continue`,
  `ProcessFeedback`, `Check` and the commands do to the manager and the agents; the
  other proofs use them in place of the definitions.
- `SuccessIsEnforced` (`SuccessMeansEnforced`), if queries for events are answered
  ("events" not in `Faults`; those for reports and resources may fail). The property
  speaks of tasks only. `EnforcedInv` adds that manifests are written once in a phase
  (`WritesOnce`), that nobody knows a version ahead of `litp_config_version`
  (`VersionsBehind`) and, the heart of it, `RunsCurrent`: once the manifests are
  written, every report and every run with a version not below the phase's is of
  the manifest its node has now. The write step makes it true: all runs and reports
  there are then have an older version.
- `OutcomeIsFinal` (`PhaseOutcome`), for hostnames in lower case (`MixedCase = {}`).
  `OutcomeInv` adds that what is persisted, compiled or reported for a node are its own
  tasks (`OnNodes`), that only tasks of the phase run (`RunningCurrent`), and that the
  manager waits for the node of each task that runs and has not processed it yet
  (`ManagerCurrent`): so `wait_for_phase` cannot run out of nodes, or complete, before
  its tasks have ended.
- `EarlierConfigurationKept` (`LastGoodKept`), under the same hypothesis. `KeptInv` adds
  to `OutcomeInv` that no step changes a task of another phase, that backups hold
  tasks of earlier plans only, and that each of those is persisted itself or through a
  task that has taken its place (`Covered`): one that has succeeded, or one of this
  phase that has it in its backup.

### Snapshots

From `SnapshotAssumption`, for any snapshots and any phases the plugins ask for:

- `RestorableIsBackedUp` (`RestorableHasBackup`), without any hypothesis on faults or
  the number of `run_plan` messages, beyond what `snapshots` checks. `BackupInv` says
  that a timestamp goes with a backup whatever becomes of the item (`StampBackedUp`);
  that `run_plan` works on an active plan and a job for a `run_plan` (`Owned`); that the
  snapshot it set out to work on is the active one or none is (`OneSnapshot`), and has a
  backup unless it is being removed; and that every snapshot that is ForRemoval is in
  each cleanup phase of a snapshot plan, one of which is still to come (`Cleaned`). The
  last is what makes it safe to drop a backup when a removal has ended well: the item is
  Removed by then, even if a repeated message made `run_plan` execute another plan than
  the request meant. It rests on `BuildFacts`, which follows the phases through
  `SnapshotPlanBuilder.build`.
- `TimestampIsComplete` (`TimestampMeansComplete`) and `SuccessIsDone`
  (`SuccessMeansDone`), under `Orderly`: none of `Faults`, and one `run_plan` message at
  a time, which may be delivered again after a crash. These are the values of
  `snapshots`; section 6 says what breaks the properties without them. `DoneInv` adds
  to `BackupInv` that a timestamp is given with the state Applied (`StampApplied`), so
  that `set_previous_state` cannot make such an item Initial again and a restore cannot
  turn into a create; that it is given for all volumes, even while a plan works
  (`StampComplete`); and, for a snapshot plan, that its phases have every volume and the
  last phase of a removal alone has the item (`WellBuilt`), that the phases done have done
  their part (`Progress`), and that as long as the plan may run, or be run again by a
  message that is still there, its target is the active snapshot and has the state and
  timestamp that go with the phases done (`OnTarget`). A message is what matters: a
  request finds none, so the snapshot plan it finds can no longer run and the request
  may reset the active attributes.

### Import

From `ImportAssumption` and `NamesAssumption` (nodes, repositories and images are
different things, and an ISO has finitely many images), for any nodes and ISOs:

- `ImportIsAlone` (`ImportAlone`), under `Guarded` (nobody leaves maintenance mode by
  hand, the request's commit is not lost, and `run_plan`'s message is not taken late).
  `AloneInv` says that while an importer works litpd is closed in memory and
  would be closed again by what it reads at its next start: the property is
  committed or the request that commits it alive, and the state file is one that
  keeps it closed.
- `ConcurrencyIsKept` (`ConcurrencyKept`), if the commands to enable and disable
  Puppet reach the nodes. `BatchInv` relates the enabled agents to the batch that
  `trigger_and_wait` has triggered at each of its steps, and the runs going on to
  those that began before it.
- `DoneIsApplied` (`DoneMeansApplied`), under the same hypothesis on these commands.
  `VersionInv` says that no agent has a catalog ahead of the version, or goes back to an
  older one; `AppliedInv` that the nodes which have not applied the current version are
  among those that `trigger_and_wait` has not struck off, so that its end with none
  left means all; `ImagesInv` that an image which is not known to be good is still to be
  verified by an action of the importer.
- `PackagesAlwaysChangeSafely` (`PackagesChangeSafely`), under `Undisturbed`: `Guarded`,
  no request to import packages still at work when the import begins
  ("late_packages"), and nothing else mounted in place of the ISO that the request has
  checked ("iso_changed"). `NoOther` says that the importer alone touches packages,
  `CheckedIso` that its ISO has passed the checks of the request, `PuppetOff` that Puppet
  stays disabled once the action that disables it is done, and `StaleInv` that a
  repository without a current index, or a cache that is older, is still to be
  mended by an action.

Both rest on the order of the actions (`ActionsInOrder`): `Rank` numbers the verbs, the
list is a concatenation of stretches of rising rank, and `InOrder` says what of this
each tail of the list keeps, so that no induction over the list is needed.

### Only model-checked

- Liveness (`PlanEnds`, `PhaseEnds`, `ImportEnds`): fairness is out of the prover's
  reach.
- `ItemLifecycle` (RECURSIVE operators over the tree), and `PlanBuilder`, `PlanCreation` and
  `ServiceStart` (recursive functions and folds over graphs, lists and versions), for
  which proofs would need induction over data.
- Properties of PlanExecution under crashes of the coordinator or the service, or
  exceptions of `run_plan`.

## 5. Plan

Done: the modules, runs and theorems above. Next: `SuccessfulPlanComplete` with a
coordinator that dies, where a task that a left-over job sets must not be counted.

Not modelled, and why:

- the thread pool of litpd: its job registry has no producer left;
- database schema, encryption, metrics, XML export, schema writer, command-line
  tools, sockets and authentication: generated text, formatting and I/O without a
  protocol of their own;
- validators of single property values: regular expressions and pure checks;
- *items*: read-only and non-configuration properties, defaults, removal of
  several levels of copies, schema validation;
- *Puppet*: the text of manifests, concurrent writes of one file in `_write_templates`;
- *builder*: the order inside a phase, the check of `ha_manager`, the validation of
  `node_upgrade_ordering`;
- *snapshots*: `exclude_nodes`, `force`, nodes left locked, plugins without tasks;
- *import*: concurrent import requests, a state file that is read while written;
- *start*: snapshot model sets, the registry of plugins, copies of items and item
  states during migration.

## 6. Where the code and its comments or users' expectations part

Met while modelling; line numbers are those of the source. In brackets the constant
that brings the case into the model.

### Plan execution

- `stop_plan` decides on the plan its session loaded and its commit overwrites the
  state that `plan.end()` wrote meanwhile: `run_plan` returns and the plan is stopping
  for good (`execution_manager.py:605`), where `clear_celery_task` says "If we got so far
  it means the plan is over one way or another" (`:149`).
  [`LongRequests = {"stop"}`, `PlanOverWhenRunPlanReturns`]
- `run_plan` disables Puppet before `_run_plan_start` and returns at once when
  `BasePlan.run()` refuses the plan (`:792`); `_run_plan_complete` says "Litp cannot leave
  Puppet disabled. Always re-enable it." (`:1043`).
- `_run_plan_start` checks the state that `run_plan` loaded at its start and commits
  RUNNING over an INVALID committed since (`:978`); `nmp_run_validator` refuses such a
  plan with "Plan is invalid - model changed" (`service/controllers/plan.py:92`). The same
  happens when litpd is shut down or restarted in between.
- When two required phases complete between two polls, `ready_phases` returns the phase
  that waits for both of them for each of the two, and two jobs run it at once
  (`:955`); `_run_next_phases` documents "one for each phase that has been enqueued"
  (`:959`). The first of the two that fails ends the phases, and `_run_plan_complete`, "all
  phases should have completed and committed" (`:1036`), clears the plan while
  the other works. [run `joins`]
- On resume `ready_phases` returns the failed phases and those that wait for a successful
  phase; a phase that waits for nothing and was never started is in neither set, no
  error is recorded and all items become Applied (`plan.py:324`); its docstring says
  "Returns a set comprising the indices of all phases that are ready to be started"
  (`:302`). [`RootSkipped` in `NoErrorMeansComplete`, `AppliedWhenDone` and
  `BackupOfSuccessOnly`: `deployment` reaches it]
- `monitor_plan` asks for the result of `plan.celery_task_id`, which `run_plan` commits
  after the RUNNING state: a worker lost in between leaves a running plan that is never
  repaired (`execution_manager.py:2381`); the docstring says "Will call _fix_plan if a
  plan is running but the associated celery job is ready" (`:2378`).
  [`Faults = {"coordinator"}`, `PlanEnds`]
- An exception in `_clear_plan` or `_enable_puppet` (`execution_manager.py:1041-1056`)
  skips `plan.end()`, and the `finally` commits: the plan stays active, and `monitor_plan`
  does not repair it since the celery task has been cleared. [`Faults = {"raise"}`,
  `PlanEnds`]
- A resumed config phase sets its successful tasks Running again, so an item stays
  Applied while its task runs and fails; `AppliedWhenDone` is about the step in which
  the item becomes Applied.
- A callback left over by a dead coordinator finds the plan failed and leaves its task
  Stopped; the resumed plan finds nothing to run, records no error and sets all items
  Applied. [`Faults = {"coordinator"}`, `NoErrorMeansComplete`]

### Phase dependencies

- A post-cluster phase of a cluster with a `dependency_list` waits for the sections of
  the required clusters only, never for its own (`plan.py:149`); the rule of
  POST_CLUSTER_GROUP says `"requires": [deployment_plan_groups.CLUSTER_GROUP]`
  (`deployment_plan_ruleset.py:125`). [`PostClusters`]
- A boot phase of one cluster makes that cluster's section continue it without waiting
  for the PRE_CLUSTER phase in between. [`BootClusters`]

### Items

- A child may be created under a source whose copy is ForRemoval, against the docstring
  at `model_manager.py:2066`. [`GrowSources`]
- Recovering a parent sets a child whose previous state is Removed back to Removed, and
  the next plan that stops marks the child for removal below what stays.
  [`PlanFailures`: "stopped", `RemovalCoversSubtree`]
- A coordinator that dies leaves Removed items and items whose tasks were run but that are
  still Applied. [`PlanFailures`: "died", `AppliedIsDeployed`] Under every kind of failure
  `item_failures` shows that parents and sources are kept (`ModelIntact`) and that a
  request never takes an item out of the model that is on the nodes
  (`RequestsKeepDeployed`).
- A second failure after `fix_removed_items_on_resume` deletes items of which
  something is left deployed: the plan does this, not a request (`LeftBehind`).
- Re-creating a ForRemoval item with invalid properties keeps the recovery, without
  `model_changed`. [`BadRecovery`]
- Recovering a source whose copy has overwritten all properties. [`Overwrites`]
- `restore_model` with a created plan (`litp_service.py:268`), and after
  `prepare_restore`. [`Restores`: "planned", "prepared"; `AppliedIsDeployed`]
- An exception that is not caught commits a partial load without `model_changed`.
- An XML element of another type deletes the item and its descendants at once
  (`xml_loader.py:613`, "Allow xml replace and merge to remove item, as it is recreated
  after"), but the children are not recreated. [`Documents <- RetypedDocuments`,
  `ModelIntact`]
- `_determine_removals` compares paths with `startswith` (`xml_loader.py:702`): replacing
  `/.../n1` also removes `/.../n10`. A comma is missing in `remove_item`'s list of paths
  ("/snapshots" "/litp").

### Puppet

- A resumed phase backs its successful tasks up as themselves (docstring
  `puppet_manager.py:280`); `complete_phase` empties `phase_tasks` before
  `disable_puppet_on_hosts` (`:917`, `execution_manager.py:1423`).
- Hostnames in mixed case do not match reports (`:652`). [`MixedCase`]
- The path of McoFailed skips `restore_backed_up_tasks`; Stopped tasks are dropped at
  clean-up; a taskless failure of a single node fails at once; a failed query for
  resources makes tasks without events look failed.
- `PuppetDbApi._query` answers with nothing when PuppetDB does not (`puppetdb_api.py:42`),
  so a report whose events could not be read looks like one of a run in which nothing
  failed: its tasks are among the resources without an event, and a task that failed is
  called successful. [`Faults`: "events", `SuccessMeansEnforced`]

### Plan builder

- Chains of net tasks keep only phase 0 (`plan_builder.py:1113`, comment `:1079`).
  [`Inputs` without `WithoutNetChains`, `OrderRespected`]
- A node left locked in a later cluster is unlocked only in its own cluster's PRE_NODE
  phase (comment `model_manager.py:2544`); if its cluster is exempt a KeyError is raised
  (`:951`); without tasks the plan is empty and the node stays locked.
- A plugin's requirement that contradicts a dependency of the model through others is
  a CyclicGraphException; `_cluster_has_lock_tasks` compares with `startswith`.

### Plan creation

- A ForRemoval cluster that depends on a deleted one raises a ViewError (`Dangling`);
  `cluster_dependency_graph` is kept across deployments; a staying service may depend on
  one for removal, and cyclic dependencies of services are not found. `creation` has
  inputs of all these cases; `ClustersOrdered` speaks of clusters only.
- A RemoteExecutionTask that is split loses its `tag_name` (`execution_manager.py:1819`);
  its tag is ignored in snapshot plans.
- A task that requires a ConfigTask filtered out for a ForRemoval node is refused; a
  bond task is moved to the VxVM group after validation; requirements of packages on
  repositories are added after it.
- A ForRemoval item under a node whose tasks are persisted on other nodes only gets neither
  a deconfigure nor a CleanupTask (`OnlyElsewhere`, the exception in `RemovalComplete`);
  plugin and core may both replace the same key; duplicate
  unique ids are found only within one plugin.
- Errors of validation keep the old plan, later failures drop it; a reboot plan's path
  may name an Initial node.

### Snapshots

- After a removal that failed before its last phase the item can go while volumes
  hold the snapshot (comment `mixins.py:200`). [property `ItemForDisk`]
- A restore after a removal that was stopped or failed before its first phase
  (`plugin_context_api.py:92`). [`Faults`: "restore_after_removal"]
- Plans asked for while one is stopping, late messages, messages that cannot be queued
  [`Faults`: "plan_while_stopping", "late", "enqueue"], and a second run message that
  finds another plan [`MaxQueue = 2`] break `TimestampMeansComplete` or
  `SuccessMeansDone`, never `RestorableHasBackup`.
- A create plan with a pending cleanup in the default group is a ValueError; a
  restore that succeeds updates the timestamp (`core_extension.py:491`).

### Import

- The importer parses the ISO again without the model ["iso_changed"], and a request to
  import packages is not waited for ["late_packages"]: `PackagesChangeSafely`.
- Leaving maintenance mode by hand ["user"], a death between fork and commit
  ["uncommitted", docstring `maintenance.py:18`], a late run message ["late_plan"]:
  `ImportAlone`. Commands that do not arrive are only logged (`rpc_commands.py:560`)
  ["lost"]: `ConcurrencyKept`. The importer dying after DONE leaves maintenance mode on
  ["importer_at_end"]: `ImportEnds`.
- An error after Puppet was disabled leaves it disabled; "Starting" is read as Unknown
  and becomes Failed; `_is_plan_running` uses `litp show`, which is answered 503; images
  directly under `images/` are always an error; exclude rules are combined with or.

### Service start

- A crash between the migrator's commit and the final one, and putting a package back
  after it ["put_back"]; a default model without versions ["before_first_start"];
  `restore_model` re-reads versions from disk ["restore_before_restart"]; requests
  while starting ["while_starting"].
- `create_litp_items` runs before migrations, so a model older than 1.8.22 cannot start;
  backward migrations are neither sorted nor reversed, and RenameProperty's raises;
  AddProperty on inherited items; a prefix mismatch in `_upgrade_backup_snapshots`;
  `check_model_item_types` looks at backups too; versions of five components;
  `data/migrator.py` commits, then renames.
- The lock of `litpd.sh` may be judged stale while its owner works (156-169).
