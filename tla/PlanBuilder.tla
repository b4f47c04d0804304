---------------------------- MODULE PlanBuilder ----------------------------
(***************************************************************************)
(* How a deployment plan is put together (core/plan_builder.py,            *)
(* core/topsort.py, core/lock_task_creator.py and the lock policies of     *)
(* core/execution_manager.py): the tasks of every group are ordered by     *)
(* their dependencies, packed into phases, and the phases of a node that   *)
(* must be locked go between its lock and its unlock task.                 *)
(* Tasks are numbers, in the order in which topsort sorts them; a phase of *)
(* a group is a set of them, a phase of the plan holds such a set or the   *)
(* lock or the unlock task of a node.                                      *)
(***************************************************************************)
EXTENDS Integers, FiniteSets, Sequences, SequencesExt

CONSTANTS
    Cluster,      \* the clusters, in the order they are deployed
    NodesOf,      \* cluster -> its nodes, in the order they are upgraded
    Inputs        \* families of inputs that the builder may be given

NoNode == "none"
Nodes == UNION {ToSet(NodesOf[c]) : c \in ToSet(Cluster)}

\* What a task does, as far as the builder tells tasks apart.
Kind == {"cfg", "call", "netcfg", "netcall", "disk", "package", "repository"}
Callback == {"call", "netcall"}
Net == {"netcfg", "netcall"}

\* DEPLOYMENT_PLAN_RULESET: what each group requires.
GroupRequires ==
    [MS |-> {}, BOOT |-> {"MS"}, PRE_CLUSTER |-> {"BOOT"}, PRE_NODE |-> {"PRE_CLUSTER"},
     UPGRADE_BOOT |-> {"PRE_NODE"}, VXVM |-> {"UPGRADE_BOOT"}, NODE |-> {"VXVM"},
     CLUSTER |-> {"NODE"}, POST_CLUSTER |-> {"CLUSTER"}]
Group == DOMAIN GroupRequires
ClusterGroup == {"UPGRADE_BOOT", "VXVM", "NODE", "CLUSTER", "PRE_NODE"}
NodeGroup == {"UPGRADE_BOOT", "VXVM", "NODE"}

\* How a task relates to the tasks that earlier plans applied successfully.
Prior == {"new",        \* no earlier task with its unique id
          "same",       \* an equal one
          "regrouped",  \* an equal one that was in another group
          "changed",    \* one with other parameters
          "gone"}       \* only the earlier one: plugins no longer ask for it

\* Lock policies of a create_plan request (service/controllers/plan.py).
Policy == [action : {"create_locks", "no_locks", "initial_locks"}, exempt : SUBSET ToSet(Cluster)]

\* tasks 1..n with their attributes; req: what plugins say a task requires;
\* dep: the model says the task's item depends on the other task's item.
InputType(in) ==
    /\ in.n \in Nat
    /\ in.kind \in [1 .. in.n -> Kind] /\ in.group \in [1 .. in.n -> Group]
    /\ in.node \in [1 .. in.n -> Nodes \cup {"ms", NoNode}]
    /\ in.cluster \in [1 .. in.n -> ToSet(Cluster) \cup {NoNode}]
    /\ in.req \in [1 .. in.n -> SUBSET (1 .. in.n)]
    /\ in.dep \in [1 .. in.n -> SUBSET (1 .. in.n)]
    /\ in.decon \subseteq 1 .. in.n           \* deconfigure tasks
    /\ in.prior \in [1 .. in.n -> Prior]
    /\ in.undet \subseteq 1 .. in.n           \* items in an undetermined state
    /\ in.policies \subseteq Policy /\ in.policies # {}
    /\ in.initial \subseteq Nodes             \* nodes not deployed yet
    /\ in.left \in Nodes \cup {NoNode}        \* the node left locked

ASSUME InputAssumption == \A f \in Inputs : \A in \in f : InputType(in)

VARIABLES
    in,        \* the input
    todo,      \* groups and clusters still to sort
    phases,    \* the phases so far
    status     \* "building", "built", "cyclic", "no_lock_task"

vars == <<in, todo, phases, status>>

Tasks == 1 .. in.n
IsCallback(t) == in.kind[t] \in Callback
IsNet(t) == in.kind[t] \in Net /\ t \notin in.decon

-----------------------------------------------------------------------------
(* merge_prev_successful_and_current_tasks *)

\* The state of a task after the merge: an equal earlier task is used instead
\* of the new one, and runs again if the state of its items is not known.
TaskState(t) ==
    IF in.prior[t] = "gone" \/ (in.prior[t] = "same" /\ t \notin in.undet)
    THEN "Success" ELSE "Initial"

\* The order of the merged list: what the earlier tasks leave, then the new ones.
Reused(t) == in.prior[t] \in {"same", "gone"}
Before(s, t) == \/ Reused(s) /\ ~Reused(t)
                \/ (Reused(s) <=> Reused(t)) /\ s < t

\* Mutant: an equal earlier task hides the new one though its items are undetermined.
KeptIfNew(t) == TaskState(t) = "Initial" /\ in.prior[t] \notin {"same", "regrouped"}

\* _remove_prev_successful_tasks: does the task stay in the plan?
Kept(t) == /\ TaskState(t) = "Initial"
           /\ t \in in.undet \/ IsCallback(t) \/ in.prior[t] \notin {"same", "regrouped"}

-----------------------------------------------------------------------------
(* The dependency graph of the tasks of one group: task -> tasks. *)

\* Mutant: configure and deconfigure tasks may depend on each other.
CanHaveAnyDependency(s, t) == in.node[s] = in.node[t]

CanHaveDependency(s, t) ==
    /\ s \in in.decon <=> t \in in.decon
    /\ \/ in.node[s] = in.node[t]
       \/ NoNode \in {in.node[s], in.node[t]} /\ {in.group[s], in.group[t]} = {"MS"}

\* A loop over a sequence, without the overhead of the library's FoldLeft.
FoldSteps(step(_, _), base, s) ==
    LET f[i \in Nat] == IF i = 0 THEN base ELSE step(f[i - 1], s[i]) IN f[Len(s)]

\* The transitive closure of a graph.
Closure(g) ==
    FoldSteps(LAMBDA h, k : [t \in DOMAIN h |-> IF k \in h[t] THEN h[t] \cup h[k] ELSE h[t]],
              g, SetToSeq(DOMAIN g))

\* get_plugin_requires: what plugins ask for, and every package after the
\* repositories of its node; only tasks of the same collection.
PluginRequires(t, S) ==
    LET repositories == {r \in S : in.kind[r] = "repository" /\ in.node[r] = in.node[t]
                                   /\ r \notin in.decon}
    IN  ((in.req[t] \cap S) \cup
         IF in.kind[t] = "package" /\ t \notin in.decon THEN repositories ELSE {}) \ {t}

\* _create_graph_from_task_requires
RequireGraph(S) ==
    LET reach == Closure([t \in S |-> PluginRequires(t, S)])
    IN  [t \in S |-> {d \in reach[t] \ {t} : CanHaveDependency(t, d)}]

\* Items a task's item depends on; a deconfigure task takes them the other way.
ModelDependencies(t, S) ==
    LET dep == Closure([s \in 1 .. in.n |-> in.dep[s]])
    IN  (IF t \in in.decon THEN {s \in S : t \in dep[s]} ELSE dep[t] \cap S) \ {t}

\* create_graph_from_static_sibling_require: one dependency.
AddModelDependency(g, t, d) ==
    IF /\ ~ (in.kind[t] = "package" /\ in.kind[d] = "package")
       /\ CanHaveDependency(t, d)
       /\ t \notin g[d]
    THEN [g EXCEPT ![t] = @ \cup {d}] ELSE g

ModelGraph(g, S) ==
    FoldSteps(LAMBDA h, t : FoldSteps(LAMBDA k, d : AddModelDependency(k, t, d), h,
                                      SetToSortSeq(ModelDependencies(t, S), <)),
              g, SetToSortSeq(S, Before))

\* _get_dependency_graph, with bridge_static_and_plugin_dependencies.
DependencyGraph(S) ==
    LET g == Closure(ModelGraph(RequireGraph(S), S)) IN [t \in S |-> g[t] \ {t}]

\* topsort: the layers of a graph.
Sorted(g, n) ==
    LET done[i \in Nat] ==
          IF i = 0 THEN {} ELSE LET d == done[i - 1] IN d \cup {t \in DOMAIN g : g[t] \subseteq d}
    IN  done[n]
Topsort(g) ==
    LET layer(i) == Sorted(g, i) \ Sorted(g, i - 1)
    IN  SelectSeq([i \in 1 .. Cardinality(DOMAIN g) |-> layer(i)], LAMBDA l : l # {})
Cyclic(g) == Sorted(g, Cardinality(DOMAIN g)) # DOMAIN g

-----------------------------------------------------------------------------
(* Packing the tasks of a group into phases. *)

HasNet(phase) == \E t \in phase : IsNet(t)
AddTo(ps, i, t) == IF i > Len(ps) THEN Append(ps, {t}) ELSE [ps EXCEPT ![i] = @ \cup {t}]

\* Mutant: a task may join the phase of a callback it depends on.
PlaceRegularTaskBeside(ps, t, deps) ==
    LET stop == {i \in 1 .. Len(ps) : HasNet(ps[i])}
    IN  AddTo(ps, IF stop = {} THEN 1 ELSE Max(stop) + 1, t)

\* _place_regular_task: after the last net phase, and after the last phase with
\* a dependency when either of the two is a callback.
PlaceRegularTask(ps, t, deps) ==
    LET stop == {i \in 1 .. Len(ps) :
                   \/ HasNet(ps[i])
                   \/ \E d \in deps \cap ps[i] : IsCallback(t) \/ IsCallback(d)}
    IN  AddTo(ps, IF stop = {} THEN 1 ELSE Max(stop) + 1, t)

\* _place_net_task: net tasks keep to themselves, as early as they can be;
\* what they depend on in disks does not count.
PlaceNetTask(ps, t, deps) ==
    LET last == Max({i \in 1 .. Len(ps) : deps \cap ps[i] # {}})
    IN  IF ps = <<>> THEN <<{t}>>
        ELSE IF deps = {}
             THEN IF \A s \in ps[1] : IsNet(s) THEN AddTo(ps, 1, t) ELSE InsertAt(ps, 1, {t})
        ELSE IF \E d \in deps \cap ps[last] : IsCallback(t) \/ IsCallback(d) \/ ~IsNet(d)
             THEN IF last < Len(ps) /\ ~HasNet(ps[last + 1])
                  THEN InsertAt(ps, last + 1, {t}) ELSE AddTo(ps, last + 1, t)
        ELSE AddTo(ps, 1, t)

WithoutDisks(t, deps) == IF IsNet(t) THEN {d \in deps : in.kind[d] # "disk"} ELSE deps

\* _compact_phases: in every layer the net tasks, then callbacks, then the others.
CompactPhases(layers, g) ==
    LET rank(t) == IF IsNet(t) THEN 1 ELSE IF IsCallback(t) THEN 2 ELSE 3
        first(s, t) == rank(s) < rank(t) \/ (rank(s) = rank(t) /\ s < t)
        place(ps, t) == IF IsNet(t) THEN PlaceNetTask(ps, t, g[t]) ELSE PlaceRegularTask(ps, t, g[t])
    IN  FoldSteps(LAMBDA ps, l : FoldSteps(place, ps, SetToSortSeq(l, first)), <<>>, layers)

\* update_phases_with_segregated_config_tasks
PutConfigTasks(ps, i, cfg, g) ==
    IF /\ i < Len(ps)
       /\ \A t \in ps[i + 1] : ~IsCallback(t) /\ g[t] \cap cfg = {}
       /\ HasNet(cfg) <=> HasNet(ps[i + 1])
    THEN [ps EXCEPT ![i + 1] = @ \cup cfg]
    ELSE InsertAt(ps, i + 1, cfg)

\* _segregate_callback_tasks: the loop also visits the phases it inserts.
SegregateCallbackTasks(ps, g) ==
    LET split(qs, i) ==
          LET call == {t \in qs[i] : IsCallback(t)}
          IN  IF i > Len(qs) \/ call = {} \/ call = qs[i] THEN qs
              ELSE PutConfigTasks([qs EXCEPT ![i] = call], i, qs[i] \ call, g)
    IN  FoldSteps(split, ps, [i \in 1 .. 2 * Len(ps) |-> i])

RemovePrevSuccessful(ps) ==
    SelectSeq([i \in DOMAIN ps |-> {t \in ps[i] : Kept(t)}], LAMBDA p : p # {})

\* _sort_tasks
SortTasks(S) ==
    LET g == DependencyGraph(S)
        h == [t \in S |-> WithoutDisks(t, g[t])]
    IN  RemovePrevSuccessful(SegregateCallbackTasks(CompactPhases(Topsort(g), h), h))

-----------------------------------------------------------------------------
(* Which nodes to lock. *)

ClusterOf(n) == CHOOSE c \in ToSet(Cluster) : n \in ToSet(NodesOf[c])

\* _is_node_to_be_locked
IsNodeToBeLocked(n, p) ==
    IF n \in in.initial THEN p.action = "initial_locks" /\ Len(NodesOf[ClusterOf(n)]) > 1
    ELSE /\ ~ (p.action = "initial_locks" /\ Len(NodesOf[ClusterOf(n)]) <= 1)
         /\ p.action # "no_locks"
         /\ ~ (p.action = "create_locks" /\ ClusterOf(n) \in p.exempt)

\* _add_node_left_locked
LeftLockedAgain ==
    IF /\ in.left # NoNode
       /\ \E p \in in.policies : p.action = "create_locks" /\ ClusterOf(in.left) \notin p.exempt
    THEN {in.left} ELSE {}

\* _get_nodes_to_be_locked; plugins then create a lock and an unlock task for
\* each of these nodes (create_lock_tasks).
LockTasks ==
    LeftLockedAgain \cup
    {n \in {in.node[t] : t \in {s \in Tasks : in.prior[s] # "gone"}} \cap Nodes :
        \A p \in in.policies : IsNodeToBeLocked(n, p)}

-----------------------------------------------------------------------------
(* The plan. *)

\* all_groups_sequence, PLAN_GROUP_SEQUENCE and CLUSTER_GROUP_SEQUENCE.
GroupSequence == LET ls == Topsort(GroupRequires) IN [i \in DOMAIN ls |-> CHOOSE x \in ls[i] : TRUE]
ClusterSequence == SelectSeq(GroupSequence, LAMBDA x : x \in ClusterGroup)
NodeSequence == SelectSeq(GroupSequence, LAMBDA x : x \in NodeGroup)
PlanSequence ==
    LET first == Min({i \in DOMAIN GroupSequence : GroupSequence[i] \in ClusterGroup})
    IN  SubSeq(GroupSequence, 1, first - 1) \o Cluster \o
        SubSeq(GroupSequence, first + Len(ClusterSequence), Len(GroupSequence))

OfGroup(x) == {t \in Tasks : in.group[t] = x}
OfNodes(x, N) == {t \in OfGroup(x) : in.node[t] \in N}
OfCluster(x, c) ==
    IF x \in NodeGroup THEN OfNodes(x, ToSet(NodesOf[c]))
    ELSE {t \in OfGroup(x) : in.cluster[t] = c}

\* Phases of the plan.
LockPhase(n) == [tasks |-> {}, lock |-> n, unlock |-> NoNode]
UnlockPhase(n) == [tasks |-> {}, lock |-> NoNode, unlock |-> n]
TaskPhases(ps) == [i \in DOMAIN ps |-> [tasks |-> ps[i], lock |-> NoNode, unlock |-> NoNode]]
SortedPhases(S) == TaskPhases(SortTasks(S))

\* Mutant: the unlock task comes before the last of the node's phases.
ApplyLockTasksEarly(n, ps) ==
    <<LockPhase(n)>> \o SubSeq(ps, 1, Len(ps) - 1) \o <<UnlockPhase(n)>> \o <<ps[Len(ps)]>>

\* _apply_lock_tasks
ApplyLockTasks(n, ps) == <<LockPhase(n)>> \o ps \o <<UnlockPhase(n)>>

NodePhases(n) == FlattenSeq([i \in DOMAIN NodeSequence |-> SortedPhases(OfNodes(NodeSequence[i], {n}))])

\* Has a node anything left to do?
HasPhases(n) == \E t \in Tasks : in.group[t] \in NodeGroup /\ in.node[t] = n /\ Kept(t)

\* The locked section of a cluster: its locked nodes one by one, then the others.
LockedSection(c) ==
    LET required(n) == n \in LockTasks /\ HasPhases(n)
        nodes == SelectSeq(NodesOf[c], required) \o SelectSeq(NodesOf[c], LAMBDA n : ~required(n))
        phasesOf(n, ps) == IF required(n) THEN ApplyLockTasks(n, ps) ELSE ps
    IN  FlattenSeq([i \in DOMAIN nodes |-> phasesOf(nodes[i], NodePhases(nodes[i]))])

HasLockTasks(c) == ToSet(NodesOf[c]) \cap LockTasks # {}

\* The unlock task for the node left locked ends the phases before its cluster's nodes.
UnlockLeft(c) ==
    IF in.left \in ToSet(NodesOf[c]) /\ LockTasks # {} THEN <<UnlockPhase(in.left)>> ELSE <<>>

\* _get_cluster_phases, for one cluster.
ClusterPhases(c) ==
    LET phasesOf(x) ==
          IF ~ (HasLockTasks(c) /\ x \in NodeGroup) THEN SortedPhases(OfCluster(x, c))
          ELSE IF x = Head(NodeSequence) THEN LockedSection(c) ELSE <<>>
        all(x) == phasesOf(x) \o IF x = "PRE_NODE" THEN UnlockLeft(c) ELSE <<>>
    IN  FlattenSeq([i \in DOMAIN ClusterSequence |-> all(ClusterSequence[i])])

\* The task collections that the builder sorts for one entry of the sequence.
Collections(x) ==
    IF x \in ToSet(Cluster)
    THEN {OfCluster(y, x) : y \in ClusterGroup \ (IF HasLockTasks(x) THEN NodeGroup ELSE {})}
         \cup IF HasLockTasks(x)
              THEN {OfNodes(y, {n}) : y \in NodeGroup, n \in ToSet(NodesOf[x])} ELSE {}
    ELSE {OfGroup(x)}

-----------------------------------------------------------------------------
\* The shortcut of build: everything has been applied before.
NothingToDo ==
    /\ \A t \in Tasks : in.prior[t] \in {"same", "regrouped", "gone"}
    /\ \A t \in Tasks : in.prior[t] # "gone" => t \notin in.undet
    /\ in.left = NoNode

Init ==
    /\ \E f \in Inputs : in \in f
    /\ phases = <<>>
    /\ todo = IF NothingToDo \/ Tasks = {} THEN <<>> ELSE PlanSequence
    /\ status = "building"

\* One group, or one cluster with all its groups.
SortNext ==
    /\ status = "building" /\ todo # <<>>
    /\ LET x == Head(todo) IN
       IF \E S \in Collections(x) : Cyclic(DependencyGraph(S))
       THEN status' = "cyclic" /\ UNCHANGED <<todo, phases>>
       ELSE IF x \in ToSet(Cluster) /\ UnlockLeft(x) # <<>> /\ in.left \notin LockTasks
       THEN status' = "no_lock_task" /\ UNCHANGED <<todo, phases>>
       ELSE /\ phases' = phases \o IF x \in ToSet(Cluster) THEN ClusterPhases(x)
                                   ELSE SortedPhases(OfGroup(x))
            /\ todo' = Tail(todo)
            /\ UNCHANGED status
    /\ UNCHANGED in

Finish ==
    /\ status = "building" /\ todo = <<>>
    /\ status' = "built"
    /\ UNCHANGED <<in, todo, phases>>

Next == SortNext \/ Finish
Spec == Init /\ [][Next]_vars

-----------------------------------------------------------------------------
(* Properties of a finished plan. *)

InPhase(t, i) == t \in phases[i].tasks
\* Two tasks that the builder sorts together.
Together(s, t) ==
    /\ in.group[s] = in.group[t] /\ in.cluster[s] = in.cluster[t]
    /\ CanHaveDependency(s, t)
\* d is finished before t starts, or Puppet orders the two within one phase.
InOrder(d, t) ==
    \A i, j \in DOMAIN phases :
        InPhase(t, i) /\ InPhase(d, j) => j < i \/ (j = i /\ ~IsCallback(d) /\ ~IsCallback(t))
Contradicted(t, d) == t \in Closure([s \in Tasks |-> PluginRequires(s, Tasks)])[d]

(* A task runs after what plugins say it requires and after the tasks of the  *)
(* items its item depends on in the model - a deconfigure task before them -, *)
(* unless the plugins' word contradicts the model: the packing of layers into *)
(* as few phases as possible, the separate phases of net tasks, the split of  *)
(* mixed phases and the removal of applied tasks together keep the order of   *)
(* _get_dependency_graph.  Net tasks do not wait for disks.                   *)
OrderRespected ==
    status = "built" =>
        \A t, d \in Tasks :
            /\ t # d /\ Together(t, d)
            /\ ~ (IsNet(t) /\ in.kind[d] = "disk")
            /\ \/ d \in PluginRequires(t, Tasks)
               \/ /\ IF t \in in.decon THEN t \in in.dep[d] ELSE d \in in.dep[t]
                  /\ ~ Contradicted(t, d)
                  /\ {in.kind[t], in.kind[d]} # {"package"}
            => InOrder(d, t)

(* Every task that plugins ask for runs exactly once, unless an equal task    *)
(* was applied before and the state of its items is known; nothing that was   *)
(* only applied by an earlier plan runs again.  Lock tasks do not repeat      *)
(* either.                                                                    *)
NothingLost ==
    status = "built" =>
        \A t \in Tasks :
            Cardinality({i \in DOMAIN phases : InPhase(t, i)}) =
                IF in.prior[t] \in {"new", "changed"} \/ (in.prior[t] # "gone" /\ t \in in.undet)
                THEN 1 ELSE 0

\* Is node n locked when phase i starts?
Locks(n, i) == Cardinality({j \in 1 .. i - 1 : phases[j].lock = n})
Unlocks(n, i) == Cardinality({j \in 1 .. i - 1 : phases[j].unlock = n})
LockedAt(i) == {n \in Nodes : Locks(n, i) + (IF n = in.left THEN 1 ELSE 0) > Unlocks(n, i)}

(* The tasks of a node that has lock tasks run while it is locked, with no    *)
(* other node of its cluster locked, and when the plan ends every node is     *)
(* unlocked, the one an earlier plan left locked included.                    *)
LockedWhileChanged ==
    status = "built" =>
        /\ \A i \in DOMAIN phases : \A t \in phases[i].tasks :
              in.group[t] \in NodeGroup /\ in.node[t] \in LockTasks => in.node[t] \in LockedAt(i)
        /\ \A i \in DOMAIN phases, c \in ToSet(Cluster) :
              Cardinality(LockedAt(i) \cap ToSet(NodesOf[c])) <= 1
        /\ LockTasks # {} => LockedAt(Len(phases) + 1) = {}

(* Plan building fails with a cyclic dependency only when what plugins and    *)
(* the model ask for is cyclic: dependencies between configure and            *)
(* deconfigure tasks, which the model states both ways round, do not count.   *)
NoSpuriousCycle ==
    status = "cyclic" =>
        LET requires == Closure([t \in Tasks |-> PluginRequires(t, Tasks)])
        IN  Cyclic([t \in Tasks |->
                {d \in Tasks \ {t} :
                    /\ t \in in.decon <=> d \in in.decon
                    /\ \/ d \in requires[t]
                       \/ d \in ModelDependencies(t, Tasks)}])

=============================================================================
