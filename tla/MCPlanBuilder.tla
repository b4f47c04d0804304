--------------------------- MODULE MCPlanBuilder ---------------------------
EXTENDS PlanBuilder

Clusters == <<"c1", "c2">>
ClusterNodes == [c1 |-> <<"n1", "n2">>, c2 |-> <<"n3">>]

CreateLocks == [action |-> "create_locks", exempt |-> {}]
ExceptC1 == [action |-> "create_locks", exempt |-> {"c1"}]
NoLocks == [action |-> "no_locks", exempt |-> {}]
InitialLocks == [action |-> "initial_locks", exempt |-> {}]

\* n tasks on n1, in one group, that differ in nothing.
Plain(n) ==
    [n |-> n, kind |-> [t \in 1 .. n |-> "cfg"], group |-> [t \in 1 .. n |-> "NODE"],
     node |-> [t \in 1 .. n |-> "n1"], cluster |-> [t \in 1 .. n |-> "c1"],
     req |-> [t \in 1 .. n |-> {}], dep |-> [t \in 1 .. n |-> {}], decon |-> {},
     prior |-> [t \in 1 .. n |-> "new"], undet |-> {}, policies |-> {NoLocks},
     initial |-> {}, left |-> NoNode]

\* All graphs over n tasks with some of the given edges.
GraphsOf(n, edges) == {[t \in 1 .. n |-> {d \in 1 .. n : <<t, d>> \in e}] : e \in SUBSET edges}
\* Acyclic dependencies: a task depends on tasks with a smaller number only.
Downward(n) == GraphsOf(n, {e \in (1 .. n) \X (1 .. n) : e[2] < e[1]})
\* The other acyclic graphs too.
Acyclic(n) == {g \in GraphsOf(n, {e \in (1 .. n) \X (1 .. n) : e[1] # e[2]}) : ~Cyclic(g)}

\* A net config task that depends on another one that cannot be in the first phase.
NetChain(i) == \E t, d \in 1 .. i.n : d \in i.req[t] /\ i.kind[t] = "netcfg" /\ i.kind[d] = "netcfg"

\* Four tasks of all kinds with all dependencies among them.
Packing == {[Plain(4) EXCEPT !.kind = k, !.req = g] :
              k \in [1 .. 4 -> {"cfg", "call", "netcfg", "netcall"}], g \in Downward(4)}
Disks == {[Plain(3) EXCEPT !.kind = k, !.req = g] :
              k \in [1 .. 3 -> {"disk", "call", "netcfg"}], g \in Downward(3)}
\* Three tasks with dependencies of plugins and of the model.
Graphs == {[Plain(3) EXCEPT !.kind = k, !.req = g, !.dep = h, !.decon = d] :
              k \in {<<"cfg", "call", "cfg">>, <<"call", "call", "cfg">>, <<"package", "package", "repository">>},
              g \in Downward(3), h \in Acyclic(3), d \in SUBSET (1 .. 3)}
\* Three config tasks, some applied before.
Applied == {[Plain(3) EXCEPT !.kind = <<"cfg", k, "cfg">>, !.req = g, !.prior = <<p, IF k = "call" THEN "new" ELSE q, r>>,
                             !.undet = u] :
              k \in {"cfg", "call"}, g \in Downward(3), p \in Prior, q \in Prior, r \in Prior,
              u \in SUBSET (1 .. 3)}
\* Tasks on several nodes and in several groups.
Place == {[group |-> x, node |-> n, cluster |-> c] : x \in {"UPGRADE_BOOT", "NODE", "PRE_NODE"},
              n \in {"n1"}, c \in {"c1"}}
         \cup {[group |-> "NODE", node |-> "n2", cluster |-> "c1"],
               [group |-> "NODE", node |-> "n3", cluster |-> "c2"],
               [group |-> "CLUSTER", node |-> NoNode, cluster |-> "c2"],
               [group |-> "MS", node |-> "ms", cluster |-> NoNode],
               [group |-> "POST_CLUSTER", node |-> NoNode, cluster |-> NoNode]}
Locking == {[Plain(3) EXCEPT !.kind = <<"cfg", "call", "call">>,
                             !.group = [t \in 1 .. 3 |-> pl[t].group],
                             !.node = [t \in 1 .. 3 |-> pl[t].node],
                             !.cluster = [t \in 1 .. 3 |-> pl[t].cluster],
                             !.policies = ps, !.initial = i, !.left = l] :
              pl \in [1 .. 3 -> Place], i \in {{}, {"n2"}},
              ps \in {{CreateLocks}, {ExceptC1}, {NoLocks}, {InitialLocks}, {ExceptC1, InitialLocks}},
              l \in {NoNode, "n1", "n3"}}

WithoutNetChains == {{i \in Packing : ~NetChain(i)}, Disks, Graphs, Applied, Locking}
=============================================================================
