--------------------------- MODULE MCPlanCreation ---------------------------
(***************************************************************************)
(* Inputs of plan creation for TLC, one family for each part of it: the    *)
(* dependencies between clusters, the rest of the model, the removal of    *)
(* items, what tasks require, snapshot tasks and reboot plans.             *)
(***************************************************************************)
EXTENDS PlanCreation

Nodes == {"n1", "n2"}
Places == [i_ms |-> "ms", i_n1 |-> "n1", i_n2 |-> "n2", i_c |-> "cluster",
           i_x |-> "infrastructure", net1 |-> "n1", node1 |-> "n1", node2 |-> "n2"]
Subtrees == [i_ms |-> {"i_ms"}, i_n1 |-> {"i_n1"}, i_n2 |-> {"i_n2"}, i_c |-> {"i_c"},
             i_x |-> {"i_x"}, net1 |-> {"net1"}, node1 |-> {"node1", "i_n1", "net1"},
             node2 |-> {"node2", "i_n2"}]
NodeItems == [n1 |-> "node1", n2 |-> "node2"]
NetItems == {"net1"}
SmallType == [properties |-> {"a", "b"}, required |-> {"a", "b"}, defaulted |-> {"b"},
              children |-> {"child"}, min |-> 1, max |-> 2]

Empty == << >>
GoodItem == [removal |-> FALSE, props |-> {"a"}, bad |-> {},
             kids |-> [child |-> [removal |-> FALSE]], members |-> [m1 |-> [st |-> "Applied"]]]
Host(x) == [lower |-> x]
GoodModel == [clusters |-> << [x \in {1} |-> [deps |-> <<>>, removal |-> FALSE]] >>,
              services |-> Empty,
              nodes |-> [ms |-> [host |-> Host("ms"), removal |-> FALSE],
                         n1 |-> [host |-> Host("h1"), removal |-> FALSE],
                         n2 |-> [host |-> Host("h2"), removal |-> FALSE]],
              networks |-> Empty, sshd |-> Empty, item |-> GoodItem]
Task(type, item, nodes, tag) ==
    [type |-> type, item |-> item, nodes |-> nodes, tag |-> tag,
     key |-> <<"none", "none">>,
     req |-> {}, needs |-> {}, calls |-> {}, replaces |-> {}, waits |-> FALSE, bond |-> FALSE]
Callback(item, tag) == Task("Callback", item, {}, tag)
Config1(item, node, tag, id) == [Task("Config", item, {node}, tag) EXCEPT !.key = <<"file", id>>]
Remote(item, nodes, tag) == Task("Remote", item, nodes, tag)

Base == [type |-> "deployment", path |-> "all", initial |-> {}, credentials |-> TRUE,
         model |-> GoodModel, plugins |-> << << <<1>> >> >>, task |-> <<Callback("i_ms", "none")>>,
         gone |-> {}, removal |-> {}, persisted |-> {}, lockable |-> {}, initialLocks |-> FALSE]

-----------------------------------------------------------------------------
(* Clusters 1, 2 and 3; 4 does not exist. *)

Lists == {<<>>} \cup {<<a>> : a \in 1 .. 4} \cup {<<a, a>> : a \in 1 .. 3} \cup
         {<<1, 2>>, <<3, 1>>, <<2, 3>>, <<2, 4>>}
Clusters(S) == [S -> [deps : Lists, removal : BOOLEAN]]
Deployments ==
    {<<d>> : d \in UNION {Clusters(S) : S \in {{1}, {1, 2}, {1, 2, 3}}}} \cup
    {<<d, e>> : d \in Clusters({1, 2}), e \in Clusters({1})}
ClusterInputs == {[Base EXCEPT !.model.clusters = ds] : ds \in Deployments}

-----------------------------------------------------------------------------
(* The rest of the model *)

Service == [nodes : {<<"n1">>, <<"n1", "n2">>, <<"n1", "n1">>, <<"n3">>},
            deps : {<<>>, <<"s1">>, <<"s2">>, <<"s3">>}, removal : BOOLEAN]
ServiceModels == {[GoodModel EXCEPT !.services = f, !.nodes.n2.removal = r] :
                    f \in [{"s1", "s2"} -> Service], r \in BOOLEAN}
Managed == [host : {Host("ms"), Host("h1"), Host("h2")}, removal : BOOLEAN]
HostModels == {[GoodModel EXCEPT !.nodes.n1 = a, !.nodes.n2 = b] : a \in Managed, b \in Managed}
NetworkModels == {[GoodModel EXCEPT !.networks = f, !.sshd = g] :
                    f \in [{"w1", "w2"} -> [name : {"mgmt", "data"}, removal : BOOLEAN]],
                    g \in [{"x1", "x2"} -> [onMs : BOOLEAN, removal : BOOLEAN]]}
Members == UNION {[S -> [st : {"Initial", "ForRemoval"}]] : S \in SUBSET {"m1", "m2", "m3"}}
Child == UNION {[S -> [removal : BOOLEAN]] : S \in SUBSET {"child"}}
ItemModels == {[GoodModel EXCEPT !.item.members = f, !.item.kids = k, !.item.removal = r] :
                  f \in Members, k \in Child, r \in BOOLEAN} \cup
              {[GoodModel EXCEPT !.item.props = f, !.item.bad = b] :
                  f \in SUBSET {"a", "b", "c"}, b \in SUBSET {"a"}}
ModelInputs ==
    {[Base EXCEPT !.model = m] :
        m \in ServiceModels \cup HostModels \cup NetworkModels \cup ItemModels}
    \cup {[Base EXCEPT !.credentials = FALSE]}

-----------------------------------------------------------------------------
(* Removal: item i, what of it was configured before, and what plugins do. *)

Answers(i) ==
    {<<Callback("i_ms", "none")>>,
     <<Callback(i, "none")>>,
     <<Config1(i, "n1", "none", "new")>>,
     <<Config1("i_c", "n1", "none", "old")>>,
     <<[Config1("i_c", "n1", "none", "new") EXCEPT !.replaces = {<<"file", "old">>}]>>,
     <<Config1("i_c", "n2", "none", "old"), Config1("i_c", "ms", "none", "old")>>,
     <<Config1("i_c", "n1", "none", "old"), Config1("i_c", "n1", "none", "old")>>,
     <<Config1("i_c", "n1", "none", "old"),
       [Config1("i_c", "n1", "none", "new") EXCEPT !.replaces = {<<"file", "old">>}]>>}
RemovalInputs ==
    {[Base EXCEPT !.removal = {c[1]} \cup (IF c[2] = {} THEN {} ELSE {"node1", "i_n1", "net1"}),
                  !.gone = c[2],
                  !.persisted = {[item |-> c[1], node |-> n, key |-> <<"file", "old">>] : n \in c[3]},
                  !.task = c[4],
                  !.plugins = << [k \in DOMAIN c[4] |-> <<k>>] >>] :
        c \in {"i_n1", "i_ms", "i_x", "net1"} \X {{}, {"n1"}} \X (SUBSET {"ms", "n1", "n2"})
             \X (UNION {Answers(i) : i \in {"i_n1", "i_ms", "i_x", "net1"}})}

-----------------------------------------------------------------------------
(* Task 2 requires task 1, in one of four ways. *)

Tags == {"none", "NODE", "CLUSTER", "POST_CLUSTER", "BOOT", "invalid"}
Kinds == UNION {{Config1("i_n1", "n1", g, "one"), Config1("i_ms", "ms", g, "one"),
                 Config1("i_x", "n1", g, "two"), Config1("i_c", "n2", g, "two"),
                 Callback("i_n1", g), Callback("i_n2", g), Callback("i_ms", g),
                 Callback("i_c", g), Callback("i_x", g),
                 Remote("i_n1", {"n1"}, g), Remote("i_c", {"n1", "n2"}, g),
                 Remote("i_ms", {"ms", "n1"}, g)} : g \in Tags} \cup {Remote("i_c", {}, "none")}
Way(t, u, way) ==
    << t, CASE way = "task" -> [u EXCEPT !.req = {1}]
            [] way = "item" -> [u EXCEPT !.needs = {t.item}]
            [] way = "node" -> [u EXCEPT !.needs = {"node1"}]
            [] way = "call" -> [u EXCEPT !.calls = {t.key}]
            [] way = "list" -> u >>
\* Nobody requires a task that may be split.
NotSplit(t, way) == way \in {"task", "list"} => Cardinality(t.nodes) <= 1
RequireInputs ==
    {[Base EXCEPT !.task = Way(c[1], c[2], c[3]),
                  !.plugins = IF c[3] = "list" THEN << << <<1, 2>> >> >>
                              ELSE IF c[3] = "task" THEN << << <<2>> >> >>
                              ELSE << << <<1>>, <<2>> >> >>,
                  !.lockable = c[4]] :
        c \in {x \in Kinds \X Kinds \X {"task", "item", "node", "call", "list"} \X {{}, {"n1", "n2"}} :
               NotSplit(x[1], x[3])}}

BootTasks(i, j, g) == << Callback(i, "BOOT"), [Callback(j, g) EXCEPT !.waits = TRUE] >>
BondTasks(i, g) == << [Config1("net1", "n1", "none", "bond") EXCEPT !.bond = TRUE],
                      [Config1("i_n1", "n1", "none", "app") EXCEPT !.req = {1}],
                      Callback(i, g) >>
RuleInputs ==
    {[Base EXCEPT !.task = ts, !.plugins = << [k \in DOMAIN ts |-> <<k>>] >>, !.initialLocks = b] :
        ts \in {BootTasks(i, j, g) : i \in {"i_n1", "i_n2", "i_x"}, j \in {"i_n1", "i_n2"},
                                     g \in {"none", "NODE", "CLUSTER"}} \cup
               {BondTasks(i, g) : i \in {"i_n1", "i_n2", "i_c"}, g \in {"VXVM", "NODE"}},
        b \in BOOLEAN}

-----------------------------------------------------------------------------

SnapshotInputs ==
    UNION {{[Base EXCEPT !.type = p, !.task = <<t, u>>, !.plugins = << << <<1>> >>, << <<2>> >> >>,
                         !.removal = r] :
                t \in {Callback("i_ms", g) : g \in ValidTags(p) \cup {"none", "invalid"}},
                u \in {Callback("i_n1", g) : g \in ValidTags(p) \cup {"none"}} \cup
                      {Remote("i_n1", {"n1"}, g) : g \in ValidTags(p)},
                r \in {{}, {"i_x"}}} : p \in {"create", "remove", "restore"}}
    \cup {[Base EXCEPT !.type = p, !.plugins = << >>] : p \in {"create", "remove", "restore"}}

RebootInputs == {[Base EXCEPT !.type = "reboot", !.path = p, !.initial = s] :
                    p \in {"all", "node1", "i_x"}, s \in SUBSET Nodes}

AllInputs == {ClusterInputs, ModelInputs, RemovalInputs, RequireInputs, RuleInputs,
              SnapshotInputs, RebootInputs}

=============================================================================
