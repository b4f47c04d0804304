-------------------------- MODULE ModelValidation --------------------------
(***************************************************************************)
(* What create_plan asks of the model before it asks plugins for tasks:    *)
(* the ModelValidator's checks of every item against its type, the core    *)
(* plugin's validate_model, and the views of the core extension that the   *)
(* plan builder and plugins read afterwards.                               *)
(*                                                                         *)
(* A model is a record: the clusters of its deployments, the services and  *)
(* nodes of one cluster, its networks and sshd-config items, and one item  *)
(* with the properties and children of its type.  Everything may be        *)
(* ForRemoval ("removal").  An error is named for the check that gives it. *)
(***************************************************************************)
EXTENDS Integers, Sequences, FiniteSets, SequencesExt

CONSTANTS
    MaxClusters,    \* the most clusters that a deployment may hold
    ItemType        \* the type of the item: properties, children, collection

Live(f) == {x \in DOMAIN f : ~f[x].removal}
Duplicates(s) == Cardinality(ToSet(s)) < Len(s)

-----------------------------------------------------------------------------
(* Dependencies between clusters.  A deployment maps its clusters to their   *)
(* dependency_list, a sequence of names.                                     *)

\* topsort: the nodes of a graph that are left when there are no more leaves.
Stuck(g) ==
    LET rest[i \in Nat] ==
            IF i = 0 THEN DOMAIN g
            ELSE LET before == rest[i - 1]
                 IN  {c \in before : (g[c] \ {c}) \cap before # {}}
    IN  rest[Cardinality(DOMAIN g)]

Named(d) == UNION {ToSet(d[c].deps) : c \in DOMAIN d}
Graph(d) == [c \in DOMAIN d \cup Named(d) |-> IF c \in DOMAIN d THEN ToSet(d[c].deps) ELSE {}]

\* _validate_cluster_no_cyclical_dependencies: the graph is kept from one
\* deployment to the next.
Accumulated(ds) ==
    FoldLeft(LAMBDA g, d :
                [c \in DOMAIN g \cup DOMAIN d \cup Named(d) |->
                    IF c \in DOMAIN d /\ d[c].deps # <<>> THEN ToSet(d[c].deps)
                    ELSE IF c \in DOMAIN g THEN g[c] ELSE {}],
             << >>, ds)
CyclicDependencies(ds) == \E k \in DOMAIN ds : Stuck(Accumulated(SubSeq(ds, 1, k))) # {}

\* A cluster that stays depends only on clusters that stay.
SiblingsStay(d, c) == ~d[c].removal => ToSet(d[c].deps) \subseteq Live(d)

\* Mutant: a cluster may depend on itself (the check for cycles does not see it).
DependencyListWithSelf(d, c) ==
    Len(d[c].deps) <= MaxClusters - 1 /\ SiblingsStay(d, c) /\ ~Duplicates(d[c].deps)

\* _validate_cluster_dependency_list
DependencyListOk(d, c) ==
    /\ Len(d[c].deps) <= MaxClusters - 1
    /\ c \notin ToSet(d[c].deps)
    /\ SiblingsStay(d, c)
    /\ ~Duplicates(d[c].deps)

\* CoreExtension.get_ordered_clusters: the layers of the graph, each in the order
\* of the names, then the clusters that the graph does not mention.
OrderedClusters(d) ==
    LET g == Graph([c \in {x \in DOMAIN d : d[x].deps # <<>>} |-> d[c]])
        layers[i \in Nat] ==
            IF i = 0 THEN [left |-> DOMAIN g, order |-> <<>>]
            ELSE LET before == layers[i - 1]
                     leaves == {c \in before.left : g[c] \cap before.left = {}}
                 IN  [left |-> before.left \ leaves,
                      order |-> before.order \o SetToSortSeq(leaves, <)]
    IN  layers[Cardinality(DOMAIN g)].order \o SetToSortSeq(DOMAIN d \ DOMAIN g, <)

\* The errors for which it raises ViewError instead.
CannotOrder(d) ==
    \/ \E c \in DOMAIN d : c \in ToSet(d[c].deps) \/ Duplicates(d[c].deps)
    \/ Stuck(Graph(d)) # {}
    \/ ~(Named(d) \subseteq DOMAIN d)

-----------------------------------------------------------------------------
(* The other checks of the core plugin *)

NetworkNamesUnique(m) ==
    \A a, b \in Live(m.networks) : m.networks[a].name = m.networks[b].name => a = b

\* Hostnames are compared in lower case, those of nodes for removal too.
HostnamesUnique(m) ==
    \A a, b \in DOMAIN m.nodes : m.nodes[a].host.lower = m.nodes[b].host.lower => a = b

\* _validate_clustered_service_node_list: any node of the cluster will do.
NodeListOk(m, s) ==
    /\ ToSet(m.services[s].nodes) \subseteq DOMAIN m.nodes \ {"ms"}
    /\ ~Duplicates(m.services[s].nodes)

\* _validate_clustered_service_dependency_list and _does_not_depend_on_self: any
\* service of the cluster, one for removal too.
ServiceDependenciesOk(m, s) ==
    /\ ToSet(m.services[s].deps) \subseteq DOMAIN m.services
    /\ s \notin ToSet(m.services[s].deps)

SshdConfigOk(m) ==
    /\ Cardinality(Live(m.sshd)) <= 1
    /\ \A x \in Live(m.sshd) : m.sshd[x].onMs

(* CorePlugin.validate_model *)
CorePluginErrors(m) ==
    {e \in {"networks", "node_list", "services", "hostnames", "cycle", "dependency_list", "sshd"} :
        \/ e = "networks" /\ ~NetworkNamesUnique(m)
        \/ e = "node_list" /\ \E s \in Live(m.services) : ~NodeListOk(m, s)
        \/ e = "services" /\ \E s \in Live(m.services) : ~ServiceDependenciesOk(m, s)
        \/ e = "hostnames" /\ ~HostnamesUnique(m)
        \/ e = "cycle" /\ CyclicDependencies(m.clusters)
        \/ e = "dependency_list" /\ \E d \in ToSet(m.clusters) : \E c \in DOMAIN d :
                                        ~DependencyListOk(d, c)
        \/ e = "sshd" /\ ~SshdConfigOk(m)}

-----------------------------------------------------------------------------
(* ModelValidator.validate_item_type, for an item with the properties props   *)
(* (of which the values of bad fail their type's validators), the children    *)
(* kids, and the members of its collection.                                   *)

\* _check_allowed_properties and _check_property_access (access is write).
PropertiesAllowed(i) == i.props \subseteq ItemType.properties

\* _run_property_validators; no item validator is run when one of them fails.
PropertyValuesOk(i) == i.bad \cap i.props = {}

\* _check_required_properties
PropertiesPresent(i) == ItemType.required \ ItemType.defaulted \subseteq i.props

\* _check_required_children: a required child is removed with its parent only.
ChildrenPresent(i) ==
    /\ ItemType.children \subseteq DOMAIN i.kids
    /\ \A k \in ItemType.children \cap DOMAIN i.kids : ~i.kids[k].removal

\* _validate_item_type_instance
Present(i) == {k \in DOMAIN i.members : i.members[k].st \notin {"ForRemoval", "Removed"}}
CountOk(i) == Cardinality(Present(i)) \in ItemType.min .. ItemType.max

(* ModelManagerNextGen.validate_model: items that are ForRemoval are not looked at. *)
ModelManagerErrors(m) ==
    {e \in {"properties", "children", "count"} :
        /\ ~m.item.removal
        /\ \/ e = "properties" /\ ~(/\ PropertiesAllowed(m.item) /\ PropertyValuesOk(m.item)
                                    /\ PropertiesPresent(m.item))
           \/ e = "children" /\ ~ChildrenPresent(m.item)
           \/ e = "count" /\ ~CountOk(m.item)}

ModelErrors(m) == ModelManagerErrors(m) \cup CorePluginErrors(m)

=============================================================================
