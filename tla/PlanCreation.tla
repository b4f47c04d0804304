---------------------------- MODULE PlanCreation ----------------------------
(***************************************************************************)
(* ExecutionManagerNextGen._create_plan_with_type up to the plan builder:  *)
(* the model is validated, plugins are asked for tasks, and the tasks are  *)
(* checked, completed with the removal of items that no plugin removes,    *)
(* split by node and sorted into groups.  The builder's own work on the    *)
(* tasks of a group, and which nodes are locked, is module PlanBuilder.    *)
(*                                                                         *)
(* What plugins return is the input: tasks 1 .. n with                     *)
(*   type, item, nodes, tag, key (call type and call id of a ConfigTask),  *)
(*   req, needs, calls (the tasks, items and call ids it requires),        *)
(*   replaces, waits (the bootmgr tasks that wait for a node to boot) and  *)
(*   bond (marked to run with a VxVM upgrade of its node);                 *)
(* an entry of a plugin's answer is a task or an OrderedTaskList, here a   *)
(* sequence of tasks.                                                      *)
(***************************************************************************)
EXTENDS PlanTypes, ModelValidation, TLC

CONSTANTS
    Node,       \* the managed nodes
    Where,      \* item -> "ms", "infrastructure", "cluster" or the node it is under
    Under,      \* item -> the items whose path starts with its path
    NetItem,    \* items of the network types
    NodeItem,   \* node -> its own item
    Inputs      \* sets of inputs

VARIABLES
    in,         \* what create_plan is given
    pc,
    plan,       \* ExecutionManager.plan: "old", "none" or "new"
    tasks,      \* the tasks of the plan so far
    cleanup,    \* items with a CleanupTask
    phases      \* the phases of a snapshot plan

vars == <<in, pc, plan, tasks, cleanup, phases>>

Snapshot == in.type \in {"create", "remove", "restore"}
Ids == DOMAIN in.task
PlanType == {"deployment", "reboot", "create", "remove", "restore"}
PriorityOf == [t \in PlanType |-> Priority(t)] @@ << >>
OrderOf == [t \in PlanType |-> GroupOrder(t)] @@ << >>

\* A task object: of is the plugin's task (0 for the core's own), part the node of a
\* piece of a split RemoteExecutionTask.
Object(t) ==
    [of |-> t, part |-> "whole", type |-> in.task[t].type, item |-> in.task[t].item,
     nodes |-> in.task[t].nodes, tag |-> in.task[t].tag, key |-> in.task[t].key,
     replaces |-> in.task[t].replaces, group |-> "none"]

\* get_node_for_model_item; "none" for items under neither a node nor the MS.
ItemNode(i) == IF Where[i] \in Node \cup {"ms"} THEN Where[i] ELSE "none"

\* get_task_node: the node that the task runs on.
NodeOf(o) ==
    CASE o.type = "Config" -> CHOOSE n \in o.nodes : TRUE
      [] o.type = "Remote" -> CHOOSE n \in o.nodes : TRUE
      [] OTHER -> ItemNode(o.item)

-----------------------------------------------------------------------------
(* What plugins return *)

Entries == UNION {ToSet(in.plugins[p]) : p \in DOMAIN in.plugins}

\* _get_tasks_from_ordered_task_list: every task of a list requires the one before.
Previous(t) == {x \in Ids : \E l \in Entries : \E i \in DOMAIN l :
                                i > 1 /\ l[i] = t /\ l[i - 1] = x}
Requires(t) == in.task[t].req \cup Previous(t)

\* _rewrite_ordered_task_lists: the tasks that others require come along.
WithRequired ==
    LET all[i \in Nat] ==
            IF i = 0 THEN UNION {ToSet(l) : l \in Entries}
            ELSE LET before == all[i - 1] IN before \cup UNION {Requires(t) : t \in before}
    IN  all[Cardinality(Ids)]

\* can_have_dependency_for_validation, before tasks have groups.
SameNode(s, t) ==
    /\ NodeOf(s) = NodeOf(t)
    /\ ItemNode(s.item) = ItemNode(t.item) \/ "none" \in {ItemNode(s.item), ItemNode(t.item)}

\* OrderedTaskList.validate
ListOk(l) == /\ l # <<>>
             /\ \A i \in 1 .. Len(l) - 1 : SameNode(Object(l[i]), Object(l[i + 1]))

\* RemoteExecutionTask.validate
NodesOk(t) == in.task[t].type = "Remote" => in.task[t].nodes # {}

\* _check_duplicated_tasks: two ConfigTasks of one plugin with one unique id.
UniqueIds(answer) ==
    LET ids == {t \in UNION {ToSet(l) : l \in ToSet(answer)} : in.task[t].type = "Config"}
    IN  \A s, t \in ids : in.task[s].nodes = in.task[t].nodes /\ in.task[s].key = in.task[t].key
                          => s = t

\* _check_tasks
AnswersOk ==
    \A p \in DOMAIN in.plugins :
        /\ \A l \in ToSet(in.plugins[p]) : (\A i \in DOMAIN l : NodesOk(l[i])) /\ ListOk(l)
        /\ UniqueIds(in.plugins[p])

-----------------------------------------------------------------------------
(* From plugins' tasks to the tasks of a deployment plan *)

Config(T) == {o \in T : o.type = "Config"}

\* _validate_task_replaces
ReplacesOk(T) ==
    \A s, t \in Config(T) : \A k \in s.replaces :
        s.nodes = t.nodes => /\ k \in t.replaces => s = t
                             /\ t.key = k => s.key = k

\* _filter_faulty_node_configtasks
FilterFaulty(T) == {o \in T : o.type = "Config" => o.nodes \cap in.gone = {}}

PersistedOf(i) == {p \in in.persisted : p.item = i}

\* Mutant: an item that is under no node is not removed from the nodes' manifests.
DeconfigNodesOfItem(i) == {ItemNode(i)}

\* Whose manifest an item is removed from: its node's, or else of every node that it
\* was configured on.
DeconfigNodes(i) ==
    IF ItemNode(i) # "none" THEN {ItemNode(i)} ELSE {p.node : p \in PersistedOf(i)}

\* call_type_and_id_in_tasks
Redefined(p, T) == \E o \in Config(T) : o.nodes = {p.node} /\ o.key = p.key

\* _create_removal_tasks, for an item that no task of T is about.  (Plugins' config
\* tasks for nodes that go were filtered out before.)
NeedsDeconfigure(i) == PersistedOf(i) # {} /\ i \notin NetItem
LeftOn(n, i, T) == {p \in PersistedOf(i) : p.node = n /\ ~Redefined(p, T)}
Deconfigure(i, T) ==
    {[of |-> 0, part |-> "whole", type |-> "Config", item |-> i, nodes |-> {n}, tag |-> "none",
      key |-> <<"notify", i>>, replaces |-> {p.key : p \in LeftOn(n, i, T)}, group |-> "none"] :
        n \in {x \in DeconfigNodes(i) \ in.gone : LeftOn(x, i, T) # {}}}
CleansUp(i, T) ==
    \/ ~NeedsDeconfigure(i)
    \/ \E n \in DeconfigNodes(i) : \/ n \in in.gone
                                   \/ \E p \in PersistedOf(i) : p.node = n /\ Redefined(p, T)

Unplanned(T) == {i \in in.removal : ~\E o \in T : o.item = i}
RemovalTasks(T) == UNION {Deconfigure(i, T) : i \in {x \in Unplanned(T) : NeedsDeconfigure(x)}}
CleanupTasks(T) == {i \in Unplanned(T) : CleansUp(i, T)}

\* _get_all_nodes, and of these the ones that the lock policies lock.
AllNodes(T) == UNION {IF o.type = "Callback" THEN {ItemNode(o.item)} ELSE o.nodes : o \in T}
Locked(T) == AllNodes(T) \cap in.lockable

\* _split_remote_execution_tasks: a piece has the requirements of the task, not its tag.
Pieces(o, L) ==
    IF o.type # "Remote" \/ Cardinality(o.nodes) = 1 THEN {o}
    ELSE LET apart == o.nodes \cap (L \cup {"ms"})
         IN  {[o EXCEPT !.part = n, !.nodes = {n}, !.tag = "none"] : n \in apart} \cup
             IF o.nodes = apart THEN {} ELSE {[o EXCEPT !.nodes = o.nodes \ apart]}
Split(T, L) == UNION {Pieces(o, L) : o \in T}

\* _task_matches_criteria, of the execution manager and of SnapshotPlanBuilder
IsUnder(o, place) ==
    LET at == IF o.type = "Config" THEN NodeOf(o) ELSE Where[o.item]
    IN  CASE place = "any" -> TRUE
          [] place = "ms" -> at = "ms"
          [] place = "node" -> at \in Node
          [] place = "cluster" -> at \in Node \cup {"cluster"}
Matches(o, c) == c.tag \in {"any", o.tag} /\ o.type \in c.types /\ IsUnder(o, c.under)

\* _setup_task_group; _extract_ruleset_group_from_task
GroupOf(o) ==
    LET rules == Ruleset(in.type)
        matching == {i \in DOMAIN rules : \E c \in rules[i].criteria : Matches(o, c)}
    IN  IF o.tag \notin ValidTags(in.type) \cup {"none"} \/ matching = {}
        THEN UnmatchedGroupName(in.type)
        ELSE rules[CHOOSE i \in matching : \A j \in matching : i <= j].group
Grouped(T) == {[o EXCEPT !.group = GroupOf(o)] : o \in T}

\* _get_task_boot_group
BootGroup == IF in.initialLocks THEN "UPGRADE_BOOT" ELSE "BOOT"

\* The "arbitrary rules" of _create_plan: tasks that boot a node, and those that wait
\* for it to boot, which are then made to require them.
Boots(o) == o.type # "Config" /\ o.tag = "BOOT"
Waits(o) == o.type = "Callback" /\ o.group = "NODE" /\ o.of # 0 /\ in.task[o.of].waits
Booted(T) == {IF Boots(o) \/ Waits(o) THEN [o EXCEPT !.group = BootGroup] ELSE o : o \in T}
BootRulesRaise(T) == \E o \in T : Boots(o) /\ ItemNode(o.item) = "none"
RequiredBoots(o, T) ==
    IF o.of # 0 /\ in.task[o.of].waits /\ o.group = BootGroup
    THEN {b \in T : Boots(b) /\ b # o /\ ItemNode(b.item) = ItemNode(o.item)} ELSE {}

Prepared ==
    LET asked == FilterFaulty({Object(t) : t \in WithRequired})
        all == asked \cup RemovalTasks(asked)
    IN  Grouped(Split(all, Locked(all)))

-----------------------------------------------------------------------------
(* _validate_task_dependencies and _validate_task_group *)

\* The group of a task that another one requires; "none" when it has been filtered
\* out, or split into pieces altogether.
GroupIn(T, r) ==
    LET whole == {o \in T : o.of = r /\ o.part = "whole"}
    IN  IF whole = {} THEN "none" ELSE (CHOOSE o \in whole : TRUE).group

RunsOn(o) == IF o.type = "Callback" THEN {ItemNode(o.item)} ELSE o.nodes

TaskRequirementOk(o, r, T) ==
    /\ GroupIn(T, r) = o.group
    /\ o.group = "NODE" =>
          LET q == CHOOSE x \in T : x.of = r /\ x.part = "whole"
          IN  Cardinality(RunsOn(o)) = 1 /\ RunsOn(o) = RunsOn(q)

\* Mutant: where the tasks of a required item are is not looked at.
ItemRequirementOfNode(o, i, T) == o.group = "NODE" => Where[i] \in Node /\ RunsOn(o) = {Where[i]}

ItemRequirementOk(o, i, T) ==
    /\ o.group = "NODE" => Where[i] \in Node /\ RunsOn(o) = {Where[i]}
    /\ \A q \in T : q.item \in Under[i] =>
          PriorityOf["deployment"][q.group] <= PriorityOf["deployment"][o.group]

CallRequirementOk(o, k, T) == \A q \in Config(T) \ {o} : q.key = k => q.group = o.group

DependenciesOk(T) ==
    \A o \in {x \in T : x.of # 0} :
        /\ \A r \in Requires(o.of) : TaskRequirementOk(o, r, T)
        /\ \A b \in RequiredBoots(o, T) : b.group = o.group
        /\ \A i \in in.task[o.of].needs : ItemRequirementOk(o, i, T)
        /\ \A k \in in.task[o.of].calls : CallRequirementOk(o, k, T)

TaskGroupOk(T) ==
    \A o \in T : o.type # "Config" /\ o.group \in {"NODE", "CLUSTER", "PRE_NODE"}
                 => Where[o.item] \in Node \cup {"cluster"}

-----------------------------------------------------------------------------
(* What the plan builders do before they sort *)

\* PlanBuilder._ensure_presence_of_both_vxvm_upgrade_and_bond
Upgraded(T) == {Where[o.item] : o \in {x \in T : x.tag = "VXVM"}}
Regrouped(T) ==
    {IF o.of # 0 /\ in.task[o.of].bond /\ o.nodes \cap Upgraded(T) # {}
     THEN [o EXCEPT !.group = "VXVM"] ELSE o : o \in T}
RegroupRaises(T) == ~(Upgraded(T) \subseteq Node)

\* SnapshotPlanBuilder._group_tasks and build
SnapshotPhases(T) ==
    SelectSeq([i \in DOMAIN OrderOf[in.type] |->
                  {o \in T : o.group = OrderOf[in.type][i]}],
              LAMBDA phase : phase # {})
CleanupTask(i) ==
    [of |-> 0, part |-> "whole", type |-> "Cleanup", item |-> i, nodes |-> {}, tag |-> "none",
     key |-> <<"cleanup", i>>, replaces |-> {}, group |-> "none"]

-----------------------------------------------------------------------------
(* _create_plan_with_type *)

Init ==
    /\ \E f \in Inputs : in \in f
    /\ pc = "validate" /\ plan = "old"
    /\ tasks = {} /\ cleanup = {} /\ phases = <<>>

Refuse(kept) == pc' = "refused" /\ plan' = kept /\ UNCHANGED <<in, tasks, cleanup, phases>>

\* _has_errors_before_create_plan: the earlier plan stays when the model is refused.
\* Snapshot plans are not validated by the model manager or the core plugin.
ModelRefused == pc = "validate" /\ in.type = "deployment" /\ ModelErrors(in.model) # {} /\ Refuse(plan)

ModelAccepted ==
    pc = "validate" /\ (Snapshot \/ (in.type = "deployment" /\ ModelErrors(in.model) = {}))

NoCredentials == ModelAccepted /\ ~in.credentials /\ Refuse("none")

ValidateModel ==
    /\ ModelAccepted /\ in.credentials
    /\ pc' = "plugins"
    /\ plan' = IF Snapshot THEN "none" ELSE plan
    /\ UNCHANGED <<in, tasks, cleanup, phases>>

\* validate_reboot_plan: the path of a reboot plan is empty or a node's.
RebootRefused ==
    /\ pc = "validate" /\ in.type = "reboot"
    /\ in.path \notin {"all"} \cup {NodeItem[n] : n \in Node}
    /\ Refuse(plan)

\* create_reboot_tasks and _create_reboot_plan: a callback task for the node, or for
\* every node that has been deployed.
RebootTask(n) ==
    [of |-> 0, part |-> "whole", type |-> "Callback", item |-> NodeItem[n], nodes |-> {},
     tag |-> "none", key |-> <<"_reboot_node_and_wait", n>>, replaces |-> {}, group |-> "none"]
CreateRebootTasks ==
    /\ pc = "validate" /\ in.type = "reboot"
    /\ in.path \in {"all"} \cup {NodeItem[n] : n \in Node}
    /\ tasks' = Grouped({RebootTask(n) : n \in
                    {x \in Node : IF in.path = "all" THEN x \notin in.initial
                                  ELSE NodeItem[x] = in.path}})
    /\ pc' = "check"
    /\ UNCHANGED <<in, plan, cleanup, phases>>

\* _create_plugin_tasks, _rewrite_ordered_task_lists and _validate_task_replaces
PluginTasksOk == AnswersOk /\ (~Snapshot => ReplacesOk({Object(t) : t \in WithRequired}))
PluginTasksRefused == pc = "plugins" /\ ~PluginTasksOk /\ Refuse("none")

PrepareTasks ==
    /\ pc = "plugins" /\ ~Snapshot /\ PluginTasksOk
    /\ tasks' = Prepared
    /\ cleanup' = CleanupTasks(FilterFaulty({Object(t) : t \in WithRequired}))
    /\ pc' = "boot"
    /\ UNCHANGED <<in, plan, phases>>

SetBootGroups ==
    /\ pc = "boot"
    /\ IF BootRulesRaise(tasks) THEN Refuse("none")
       ELSE /\ tasks' = Booted(tasks)
            /\ pc' = "check"
            /\ UNCHANGED <<in, plan, cleanup, phases>>

TasksRefused == pc = "check" /\ ~(DependenciesOk(tasks) /\ TaskGroupOk(tasks)) /\ Refuse("none")

\* The plan builder starts: it cannot go on without an order of the clusters.
CannotBuild ==
    \/ tasks = {} /\ cleanup = {}
    \/ RegroupRaises(tasks)
    \/ \E d \in ToSet(in.model.clusters) : CannotOrder(d)

BuildPlan ==
    /\ pc = "check" /\ DependenciesOk(tasks) /\ TaskGroupOk(tasks)
    /\ IF CannotBuild THEN Refuse("none")
       ELSE /\ tasks' = Regrouped(tasks)
            /\ pc' = "accepted" /\ plan' = "new"
            /\ UNCHANGED <<in, cleanup, phases>>

\* The tasks of a snapshot plan are not checked any further.
BuildSnapshotPlan ==
    /\ pc = "plugins" /\ Snapshot /\ PluginTasksOk
    /\ LET all == Grouped({Object(t) : t \in UNION {ToSet(l) : l \in Entries}} \cup
                          {CleanupTask(i) : i \in in.removal})
       IN  IF all = {} THEN Refuse("none")
           ELSE /\ tasks' = all
                /\ phases' = SnapshotPhases(all)
                /\ pc' = "accepted" /\ plan' = "new"
                /\ UNCHANGED <<in, cleanup>>

Next ==
    \/ ModelRefused \/ NoCredentials \/ ValidateModel
    \/ RebootRefused \/ CreateRebootTasks
    \/ PluginTasksRefused \/ PrepareTasks \/ SetBootGroups
    \/ TasksRefused \/ BuildPlan \/ BuildSnapshotPlan

Spec == Init /\ [][Next]_vars

-----------------------------------------------------------------------------

\* A cluster for removal depends on one that is gone: it passes validation.
Dangling(d) == \E c \in DOMAIN d : d[c].removal /\ ~(ToSet(d[c].deps) \subseteq DOMAIN d)

(* A deployment plan is never stuck on its clusters: once the model has passed  *)
(* validation, get_ordered_clusters, which checks the dependency lists again    *)
(* and in its own way, orders every cluster, each after those it depends on.    *)
(* The one exception is a cluster for removal that depends on a missing one;    *)
(* then the plan is refused, and never built without an order.                  *)
ClustersOrdered ==
    pc \in {"plugins", "boot", "check", "accepted"} /\ in.type = "deployment" =>
        \A d \in ToSet(in.model.clusters) :
            LET order == OrderedClusters(d)
            IN  IF Dangling(d) THEN pc # "accepted"
                ELSE /\ ~CannotOrder(d)
                     /\ ToSet(order) = DOMAIN d /\ Len(order) = Cardinality(DOMAIN d)
                     /\ \A i \in DOMAIN order : \A c \in ToSet(d[order[i]].deps) :
                           \E j \in 1 .. i - 1 : order[j] = c

\* An item under a node that was configured on other nodes only.
OnlyElsewhere(i) ==
    ItemNode(i) # "none" /\ PersistedOf(i) # {} /\ \A p \in PersistedOf(i) : p.node # ItemNode(i)

(* Every item for removal has a task or a CleanupTask in a deployment plan, but *)
(* one that was configured on other nodes than its own only.  An item that no   *)
(* plugin removes is taken out of the manifest of the node it is under, or,     *)
(* under none, of every node it was configured on, unless the node itself goes; *)
(* and no ConfigTask is for a node that goes.                                   *)
RemovalComplete ==
    pc = "accepted" /\ in.type = "deployment" =>
        /\ \A i \in in.removal :
              OnlyElsewhere(i) \/ i \in cleanup \/ \E o \in tasks : o.item = i
        /\ \A p \in {x \in in.persisted : x.item \in in.removal \ NetItem
                                          /\ ItemNode(x.item) \in {"none", x.node}} :
              (\A o \in tasks : o.item = p.item => o.of = 0)
                => \/ p.node \in in.gone
                   \/ \E o \in Config(tasks) :
                        o.nodes = {p.node} /\ p.key \in o.replaces \cup {o.key}
        /\ \A o \in Config(tasks) : o.nodes \cap in.gone = {}

\* Is task q over before o starts, or put before it by the builder of their group?
Follows(o, q) ==
    LET index == PriorityOf["deployment"]
    IN  index[q.group] < index[o.group] \/ (q.group = o.group /\ q.part = "whole")

(* What a plugin says a task requires comes before it in the plan: no task is   *)
(* in an earlier group than a task it requires, or than a task of an item it    *)
(* requires.  In a snapshot plan no task runs before one whose group its own    *)
(* group requires, and a callback task with a tag is in the group of the tag.   *)
TasksInOrder ==
    pc = "accepted" =>
        /\ ~Snapshot => \A o \in {x \in tasks : x.of # 0} :
              /\ \A q \in tasks : q.of \in Requires(o.of) => Follows(o, q)
              /\ \A q \in RequiredBoots(o, tasks) : Follows(o, q)
              /\ \A i \in in.task[o.of].needs : \A q \in tasks :
                    q.item \in Under[i] => q.group = o.group \/ Follows(o, q)
        /\ \A i, j \in DOMAIN phases : \A o \in phases[i], q \in phases[j] :
              /\ i < j => \A k \in DOMAIN Ruleset(in.type) :
                    Ruleset(in.type)[k].group = o.group => q.group \notin Ruleset(in.type)[k].requires
              /\ o.type = "Callback" /\ o.tag \in ValidTags(in.type) => o.group = o.tag

=============================================================================
