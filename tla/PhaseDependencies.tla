------------------------- MODULE PhaseDependencies -------------------------
(***************************************************************************)
(* BasePlan._build_phase_dependencies (core/plan.py): which phases of a    *)
(* plan wait for which.  The loop goes through the phases in plan order,   *)
(* one action for each branch of its body.  The phases that wait for       *)
(* nothing in common are executed at the same time (PlanExecution).        *)
(***************************************************************************)
EXTENDS Integers, FiniteSets

CONSTANTS
    Cluster,        \* item ids of the clusters
    MaxPhases,      \* bound: phases of a plan
    BootClusters,   \* clusters a whole phase before the sections may belong to
    MixedClusters,  \* clusters with tasks in the other phases before them
    PostClusters    \* clusters with tasks in the phases after the sections

NonParallel == ""   \* id of a phase that does not belong to one cluster
Id == Cluster \cup {NonParallel}
NoPhase == -1

ASSUME ClusterAssumption ==
    /\ NonParallel \notin Cluster
    /\ MaxPhases \in Nat \ {0}
    /\ BootClusters \subseteq Cluster
    /\ MixedClusters \subseteq Cluster
    /\ PostClusters \subseteq Cluster

VARIABLES
    n,      \* number of phases
    cid,    \* phase -> _phase_cluster_id
    inn,    \* phase -> _get_clusters_in_phase
    deps,   \* cluster -> its dependency_list
    idx,    \* phase_idx
    req,    \* required_phases
    ends,   \* section_ends; NoPhase for an id that is not a key
    ext     \* extended_sections

planVars == <<n, cid, inn, deps>>
vars == <<n, cid, inn, deps, idx, req, ends, ext>>

Phases == 0..(n - 1)

(* The phases of the plan that PlanBuilder.build returns: the groups before the
   clusters, one contiguous section for each cluster in ordered_clusters, the
   groups after the clusters and the cleanup phase.  A phase whose tasks all
   belong to one cluster has that cluster's id, whatever its group. *)
PlanLayout ==
    \E first, last \in 0..n :
        /\ first <= last
        /\ \A p \in Phases :
              cid[p] \in IF p < first THEN BootClusters \cup {NonParallel}
                         ELSE IF p < last THEN Cluster
                         ELSE PostClusters \cup {NonParallel}
        /\ \A p \in 0..(first - 1) : inn[p] \subseteq MixedClusters \cup BootClusters
        /\ \A p \in last..(n - 1) : inn[p] \subseteq PostClusters
        /\ \A p, q \in first..(last - 1) :
              /\ cid[q] \in deps[cid[p]] => q < p
              /\ cid[p] = cid[q] => \A r \in p..q : cid[r] = cid[p]

(* ordered_clusters is a topological order: the dependencies have no cycle. *)
Acyclic == \E rank \in [Cluster -> 1..Cardinality(Cluster)] :
              \A c \in Cluster : \A d \in deps[c] : rank[d] < rank[c]

Init ==
    /\ n \in 1..MaxPhases
    /\ deps \in [Cluster -> SUBSET Cluster]
    /\ Acyclic
    /\ cid \in [Phases -> Id]
    /\ \E mixed \in [{p \in Phases : cid[p] = NonParallel} ->
                    SUBSET (BootClusters \cup MixedClusters \cup PostClusters)] :
          inn = [p \in Phases |-> IF cid[p] = NonParallel THEN mixed[p]
                                                        ELSE {cid[p]}]
    /\ PlanLayout
    /\ idx = 0
    /\ req = [p \in Phases |-> {}]
    /\ ends = [c \in Id |-> NoPhase]
    /\ ext = {}

-----------------------------------------------------------------------------

(* section_ends.keys() *)
Known == {c \in Id : ends[c] # NoPhase}

(* Mutants: dependency lists are ignored; a cluster is taken to require itself. *)
ReqClustersIgnored == {}
ReqClustersWithSelf == inn[idx] \cup UNION {deps[c] : c \in inn[idx]}

(* _req_clusters *)
ReqClusters == UNION {deps[c] : c \in inn[idx]}

(* Mutant: a section is continued by any cluster. *)
SameSectionAnyCluster ==
    idx > 0 /\ (cid[idx] = NonParallel <=> cid[idx - 1] = NonParallel)

SameSection == idx > 0 /\ cid[idx] = cid[idx - 1]

(* Mutant: the first phase of a section is kept as its end. *)
RequiresSectionStart(rs) ==
    /\ req' = [req EXCEPT ![idx] = rs]
    /\ ends' = [ends EXCEPT ![cid[idx]] = IF @ = NoPhase THEN idx ELSE @]
    /\ idx' = idx + 1
    /\ UNCHANGED planVars

(* What every branch does for the phase: its requirements are recorded and it
   becomes the last phase of its section. *)
Requires(rs) ==
    /\ req' = [req EXCEPT ![idx] = rs]
    /\ ends' = [ends EXCEPT ![cid[idx]] = idx]
    /\ idx' = idx + 1
    /\ UNCHANGED planVars

FirstPhase ==
    /\ idx = 0
    /\ Requires({})
    /\ UNCHANGED ext

(* Continuation of a cluster or non-parallelisable phase *)
ContinueSection ==
    /\ idx < n
    /\ SameSection
    /\ Requires({idx - 1})
    /\ UNCHANGED ext

(* A cluster that this phase's clusters depend on is already in the plan. *)
AfterRequiredClusters ==
    /\ idx \in 1..(n - 1)
    /\ ~SameSection
    /\ ReqClusters \cap Known # {}
    /\ LET met == ReqClusters \cap (Known \cup {cid[idx]})
       IN  /\ Requires({IF c = cid[idx] THEN idx ELSE ends[c] : c \in met})
           /\ ext' = ext \cup met

(* Non-parallelisable phase following a cluster-specific phase *)
NonParallelPhase ==
    /\ idx \in 1..(n - 1)
    /\ ~SameSection
    /\ ReqClusters \cap Known = {}
    /\ cid[idx] = NonParallel
    /\ Requires({idx - 1} \cup {ends[c] : c \in Known \ (ext \cup {NonParallel})})
    /\ UNCHANGED ext

(* Continuation of a cluster seen previously in the plan, or the first phase of
   a cluster, which waits for the last non-parallelisable phase *)
ClusterPhase ==
    /\ idx \in 1..(n - 1)
    /\ ~SameSection
    /\ ReqClusters \cap Known = {}
    /\ cid[idx] # NonParallel
    /\ LET section == IF cid[idx] \in Known THEN cid[idx] ELSE NonParallel
       IN  Requires({ends[section]} \ {NoPhase})
    /\ UNCHANGED ext

Next ==
    \/ FirstPhase
    \/ ContinueSection
    \/ AfterRequiredClusters
    \/ NonParallelPhase
    \/ ClusterPhase

Spec == Init /\ [][Next]_vars

-----------------------------------------------------------------------------
(* Properties *)

TypeOK ==
    /\ n \in 1..MaxPhases
    /\ cid \in [Phases -> Id]
    /\ inn \in [Phases -> SUBSET Cluster]
    /\ deps \in [Cluster -> SUBSET Cluster]
    /\ idx \in 0..n
    /\ req \in [Phases -> SUBSET Phases]
    /\ ends \in [Id -> Phases \cup {NoPhase}]
    /\ ext \subseteq Cluster

(* The requirements of a phase precede it in the plan: the phases can never wait
   for each other, or for themselves. *)
RequirementsPrecede ==
    \A p \in Phases : \A r \in req[p] : r < p

Closed(S) == \A r \in S : req[r] \subseteq S

(* The phases that have to be complete before phase p can be started: the least
   set with the requirements of p and of all its members *)
Before(p) ==
    {q \in Phases : \A S \in SUBSET Phases :
                       req[p] \subseteq S /\ Closed(S) => q \in S}

(* The clusters that cluster c depends on, directly or not *)
DependsOn(c, d) ==
    \E path \in SUBSET Cluster :
        /\ c \in path /\ d \in path /\ c # d
        /\ \A e \in path \ {d} : deps[e] \cap path # {}

(* The loop has been through phase p, and q precedes it. *)
Built(q, p) == q < p /\ p < idx

(* A phase of a cluster waits for the phases of its own cluster and of the
   clusters in its dependency_list that precede it in the plan. *)
DependenciesRespected ==
    \A p, q \in Phases :
        /\ Built(q, p)
        /\ cid[p] \in Cluster
        /\ cid[q] \in deps[cid[p]] \cup {cid[p]}
        => q \in Before(p)

(* A phase that belongs to no single cluster, the cleanup phase among them, never runs
   beside another phase: it waits for everything before it, and everything after it
   waits for it. *)
NonParallelAlone ==
    \A p, q \in Phases :
        Built(q, p) /\ NonParallel \in {cid[p], cid[q]} => q \in Before(p)

(* Clusters that have nothing to do with each other are deployed at the same
   time: between them no phase waits for the other. *)
IndependentClustersParallel ==
    \A p, q \in Phases :
        /\ Built(q, p)
        /\ q \in Before(p)
        /\ \A r \in q..p : cid[r] # NonParallel
        => cid[q] = cid[p] \/ DependsOn(cid[p], cid[q])

=============================================================================
