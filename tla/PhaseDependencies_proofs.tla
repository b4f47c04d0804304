---------------------- MODULE PhaseDependencies_proofs ----------------------
(***************************************************************************)
(* Proofs about PhaseDependencies, for any clusters, dependency lists and  *)
(* number of phases.  The requirements of a phase precede it, which is     *)
(* what PlanExecution assumes of Req (ShapeAssumption); they are strong    *)
(* enough (DependenciesRespected, NonParallelAlone) and not too strong     *)
(* (IndependentClustersParallel).  Hypothesis of the last three: only the  *)
(* phases between the first and the last cluster phase belong to one       *)
(* cluster (Sectioned).                                                    *)
(***************************************************************************)
EXTENDS PhaseDependencies, TLAPS

(* What the loop relies on in its input: a phase with a cluster's id has tasks
   of that cluster only, and no cluster depends on itself. *)
InputOK ==
    /\ \A p \in Phases : cid[p] # NonParallel => inn[p] = {cid[p]}
    /\ \A c \in Cluster : c \notin deps[c]

(* section_ends only holds phases the loop has been through. *)
EndsBehind == \A c \in Id : ends[c] < idx

IInv == TypeOK /\ InputOK /\ EndsBehind /\ RequirementsPrecede

LEMMA InitIInv == Init => IInv
<1> SUFFICES ASSUME Init PROVE IInv
  OBVIOUS
<1>1. \A c \in Cluster : c \notin deps[c]
  <2>1. PICK rank \in [Cluster -> 1..Cardinality(Cluster)] :
           \A c \in Cluster : \A d \in deps[c] : rank[d] < rank[c]
    BY DEF Init, Acyclic
  <2>2. \A c \in Cluster : rank[c] \in Int
    BY <2>1
  <2> QED
    BY <2>1, <2>2
<1>2. PICK mixed \in [{p \in Phases : cid[p] = NonParallel} ->
                        SUBSET (BootClusters \cup MixedClusters \cup PostClusters)] :
         inn = [p \in Phases |-> IF cid[p] = NonParallel THEN mixed[p]
                                                         ELSE {cid[p]}]
  BY DEF Init
<1>3. inn \in [Phases -> SUBSET Cluster]
  BY <1>2, ClusterAssumption DEF Init, Id
<1>4. n \in Nat \ {0}
  BY ClusterAssumption DEF Init
<1>5. TypeOK
  BY <1>3, <1>4 DEF Init, TypeOK, Phases
<1>6. InputOK
  BY <1>1, <1>2 DEF InputOK
<1>7. EndsBehind /\ RequirementsPrecede
  BY <1>4 DEF Init, EndsBehind, RequirementsPrecede, NoPhase, Phases
<1> QED
  BY <1>5, <1>6, <1>7 DEF IInv

(* What a branch of the loop has to show: the requirements it records lie behind
   the phase. *)
LEMMA RequiresKeepsIInv ==
    ASSUME IInv, idx < n, NEW rs, rs \subseteq 0..(idx - 1), Requires(rs),
           ext' \subseteq Cluster
    PROVE  IInv'
<1> USE DEF Phases
<1>1. /\ n \in Nat /\ idx \in Phases /\ n' = n /\ Phases' = Phases
      /\ cid[idx] \in Id
  BY ClusterAssumption DEF IInv, TypeOK, Requires, planVars
<1>2. TypeOK'
  BY <1>1, ClusterAssumption DEF IInv, TypeOK, Requires, planVars
<1>3. InputOK'
  BY DEF IInv, InputOK, Requires, planVars
<1>4. EndsBehind'
  <2> SUFFICES ASSUME NEW c \in Id PROVE ends'[c] < idx'
    BY DEF EndsBehind
  <2>1. ends[c] < idx /\ ends[c] \in Int /\ idx \in Int
    BY <1>1 DEF IInv, EndsBehind, TypeOK, NoPhase
  <2>2. ends'[c] = IF c = cid[idx] THEN idx ELSE ends[c]
    BY <1>1 DEF Requires, IInv, TypeOK
  <2> QED
    BY <2>1, <2>2 DEF Requires
<1>5. RequirementsPrecede'
  <2> SUFFICES ASSUME NEW p \in Phases, NEW r \in req'[p] PROVE r < p
    BY <1>1 DEF RequirementsPrecede
  <2>1. req'[p] = IF p = idx THEN rs ELSE req[p]
    BY <1>1 DEF Requires, IInv, TypeOK
  <2>2. CASE p = idx
    <3>1. r \in 0..(idx - 1)
      BY <2>1, <2>2
    <3> QED
      BY <3>1, <2>2, <1>1
  <2>3. CASE p # idx
    BY <2>1, <2>3 DEF IInv, RequirementsPrecede
  <2> QED
    BY <2>2, <2>3
<1> QED
  BY <1>2, <1>3, <1>4, <1>5 DEF IInv

LEMMA NextIInv == IInv /\ [Next]_vars => IInv'
<1> USE DEF Phases
<1> SUFFICES ASSUME IInv, [Next]_vars PROVE IInv'
  OBVIOUS
<1>0. n \in Nat \ {0} /\ idx \in Nat /\ ext \subseteq Cluster
  BY ClusterAssumption DEF IInv, TypeOK
<1>1. \A c \in Known : ends[c] \in 0..(idx - 1)
  BY <1>0 DEF Known, IInv, TypeOK, EndsBehind, NoPhase
<1>2. CASE FirstPhase
  BY <1>2, <1>0, RequiresKeepsIInv DEF FirstPhase
<1>3. CASE ContinueSection
  BY <1>3, <1>0, RequiresKeepsIInv DEF ContinueSection, SameSection
<1>4. CASE AfterRequiredClusters
  <2> DEFINE met == ReqClusters \cap (Known \cup {cid[idx]})
             rs == {IF c = cid[idx] THEN idx ELSE ends[c] : c \in met}
  <2>0. idx \in Phases /\ idx < n
    BY <1>4, <1>0 DEF AfterRequiredClusters
  <2>1. cid[idx] \notin ReqClusters
    <3>1. CASE cid[idx] = NonParallel
      BY <3>1, <2>0, ClusterAssumption DEF ReqClusters, IInv, TypeOK
    <3>2. CASE cid[idx] # NonParallel
      BY <3>2, <2>0 DEF ReqClusters, IInv, TypeOK, InputOK, Id
    <3> QED
      BY <3>1, <3>2
  <2>2. rs \subseteq 0..(idx - 1)
    BY <2>1, <1>1
  <2>3. ReqClusters \subseteq Cluster
    BY <2>0 DEF ReqClusters, IInv, TypeOK
  <2>4. Requires(rs) /\ ext' = ext \cup met
    BY <1>4 DEF AfterRequiredClusters
  <2> QED
    BY <2>0, <2>2, <2>3, <2>4, <1>0, RequiresKeepsIInv
<1>5. CASE NonParallelPhase
  <2> DEFINE rs == {idx - 1} \cup {ends[c] : c \in Known \ (ext \cup {NonParallel})}
  <2>1. rs \subseteq 0..(idx - 1) /\ idx < n
    BY <1>5, <1>0, <1>1 DEF NonParallelPhase
  <2>2. Requires(rs) /\ ext' = ext
    BY <1>5 DEF NonParallelPhase
  <2> QED
    BY <2>1, <2>2, <1>0, RequiresKeepsIInv
<1>6. CASE ClusterPhase
  <2> DEFINE section == IF cid[idx] \in Known THEN cid[idx] ELSE NonParallel
             rs == {ends[section]} \ {NoPhase}
  <2>1. idx < n
    BY <1>6, <1>0 DEF ClusterPhase
  <2>2. rs \subseteq 0..(idx - 1)
    <3>1. section \in Id
      BY DEF Known, Id
    <3>2. ends[section] # NoPhase => section \in Known
      BY <3>1 DEF Known
    <3> QED
      BY <3>2, <1>1
  <2>3. Requires(rs) /\ ext' = ext
    BY <1>6 DEF ClusterPhase
  <2> QED
    BY <2>1, <2>2, <2>3, <1>0, RequiresKeepsIInv
<1>7. CASE UNCHANGED vars
  BY <1>7 DEF vars, IInv, TypeOK, InputOK, EndsBehind, RequirementsPrecede
<1> QED
  BY <1>2, <1>3, <1>4, <1>5, <1>6, <1>7 DEF Next

(* _build_phase_dependencies always computes requirements of the right type. *)
THEOREM TypeCorrect == Spec => []TypeOK
<1>1. IInv => TypeOK
  BY DEF IInv
<1> QED
  BY InitIInv, NextIInv, <1>1, PTL DEF Spec

(* Whatever the clusters, their dependency lists and the plan: a phase only ever
   waits for phases that precede it in the plan, so the wait-for graph has no
   cycle and ready_phases always finds a phase to start. *)
THEOREM RequirementsAlwaysPrecede == Spec => []RequirementsPrecede
<1>1. IInv => RequirementsPrecede
  BY DEF IInv
<1> QED
  BY InitIInv, NextIInv, <1>1, PTL DEF Spec

-----------------------------------------------------------------------------
(* Sections *)

(* No phase before or after the sections has tasks of one cluster only: plans
   without a boot phase of one cluster and without post-cluster groups. *)
Sectioned == BootClusters = {} /\ PostClusters = {}

(* The plan: the phases in front of the sections, the sections, the rest. *)
Layout(first, last) ==
    /\ first <= last
    /\ \A p \in Phases : cid[p] # NonParallel <=> p \in first..(last - 1)
    /\ \A p \in Phases : p >= last => inn[p] = {}
    /\ \A p, q \in first..(last - 1) :
          cid[p] = cid[q] => \A r \in p..q : cid[r] = cid[p]

Unbuilt == \A p \in Phases : p >= idx => req[p] = {}

(* section_ends: the last phase of each section so far *)
EndsLast ==
    /\ \A c \in Known : cid[ends[c]] = c
    /\ \A q \in 0..(idx - 1) : ends[cid[q]] # NoPhase /\ q <= ends[cid[q]]

(* A phase waits for the phases of its section before it. *)
AfterSection(last) ==
    \A p, q \in Phases :
        Built(q, p) /\ p < last /\ cid[q] = cid[p] => q \in Before(p)

(* Every phase of a section waits for all phases in front of the sections. *)
AfterFront(first) ==
    \A p, q \in Phases : Built(q, p) /\ q < first /\ first <= p => q \in Before(p)

(* A phase of a cluster waits for the phases of the clusters it depends on. *)
AfterDeps ==
    \A p, q \in Phases :
        Built(q, p) /\ cid[p] \in Cluster /\ cid[q] \in deps[cid[p]] => q \in Before(p)

(* The phases after the sections wait for everything. *)
AfterAll(last) ==
    \A p, q \in Phases : Built(q, p) /\ last <= p => q \in Before(p)

(* A cluster is in extended_sections only if a cluster that is not waits for it:
   the phase after the sections waits for it through that one. *)
ExtendedCovered(last) ==
    idx <= last =>
        /\ ext \subseteq Known
        /\ idx > 0 => cid[idx - 1] \notin ext
        /\ \A c \in ext : \E d \in Known \ (ext \cup {NonParallel}) :
              ends[c] \in Before(ends[d])

(* A phase of a cluster requires nothing but the phases in front of the sections
   and phases of its own cluster and of those it depends on. *)
NothingElse(first) ==
    \A p \in Phases : \A r \in req[p] :
        cid[p] \in Cluster =>
            r < first \/ cid[r] = cid[p] \/ cid[r] \in deps[cid[p]]

SectionsOf(first, last) ==
    /\ Layout(first, last)
    /\ AfterSection(last)
    /\ AfterFront(first)
    /\ AfterDeps
    /\ AfterAll(last)
    /\ ExtendedCovered(last)
    /\ NothingElse(first)

SectionInv ==
    /\ IInv
    /\ Unbuilt
    /\ EndsLast
    /\ \E first, last \in 0..n : SectionsOf(first, last)

-----------------------------------------------------------------------------
(* Reachability: Before(p) is closed, and a step of the loop keeps it. *)

LEMMA RequiredBefore ==
    ASSUME NEW p, NEW r \in Phases, r \in req[p]
    PROVE  r \in Before(p)
BY DEF Before

LEMMA BeforeTransitive ==
    ASSUME NEW p, NEW q \in Phases, NEW r \in Phases, q \in Before(p), r \in Before(q)
    PROVE  r \in Before(p)
BY DEF Before, Closed

(* The requirements of a phase the loop has not reached are empty, so recording
   them cannot take anything away. *)
LEMMA BeforeKept ==
    ASSUME IInv, Unbuilt, idx \in Phases, NEW rs, Requires(rs),
           NEW p \in Phases, p # idx, NEW q \in Before(p)
    PROVE  q \in Before(p)'
<1>0. Phases' = Phases
  BY DEF Phases, Requires, planVars
<1>1. \A r \in Phases : req'[r] = IF r = idx THEN rs ELSE req[r]
  BY DEF Requires, IInv, TypeOK
<1>2. req[idx] = {}
  BY DEF Unbuilt, IInv, TypeOK, Phases
<1>3. SUFFICES ASSUME NEW S \in SUBSET Phases, req'[p] \subseteq S, Closed(S)'
               PROVE  q \in S
  BY <1>0 DEF Before
<1>4. Closed(S)
  BY <1>1, <1>2, <1>3 DEF Closed
<1> QED
  BY <1>1, <1>3, <1>4 DEF Before

(* What a phase with the requirements rs waits for *)
Reached(rs) == {q \in Phases : q \in rs \/ \E r \in rs : q \in Before(r)}

LEMMA BeforeNew ==
    ASSUME IInv, Unbuilt, NEW i \in Phases, i = idx, NEW rs, rs \subseteq 0..(i - 1),
           Requires(rs), NEW q \in Reached(rs)
    PROVE  q \in Before(i)'
<1>0. Phases' = Phases /\ n \in Nat /\ i \in Nat /\ i < n
  BY ClusterAssumption DEF Phases, Requires, planVars, IInv, TypeOK
<1>1. req'[i] = rs
  BY DEF Requires, IInv, TypeOK
<1>2. rs \subseteq Phases /\ i \notin rs
  BY <1>0 DEF Phases
<1>3. SUFFICES ASSUME NEW S \in SUBSET Phases, rs \subseteq S, Closed(S)'
               PROVE  q \in S
  BY <1>0, <1>1 DEF Before, Reached
<1>4. CASE q \in rs
  BY <1>3, <1>4
<1>5. ASSUME NEW r \in rs, q \in Before(r) PROVE q \in S
  <2>1. q \in Before(r)'
    BY <1>2, <1>5, BeforeKept
  <2>2. req'[r] \subseteq S
    BY <1>3 DEF Closed
  <2> QED
    BY <1>0, <1>3, <2>1, <2>2 DEF Before
<1> QED
  BY <1>4, <1>5 DEF Reached

-----------------------------------------------------------------------------
(* What a branch of the loop has to show for phase i with requirements rs *)

Enough(i, rs, first, last) ==
    /\ \A q \in 0..(i - 1) :
          /\ i < last /\ cid[q] = cid[i] => q \in Reached(rs)
          /\ q < first /\ first <= i => q \in Reached(rs)
          /\ cid[i] \in Cluster /\ cid[q] \in deps[cid[i]] => q \in Reached(rs)
          /\ last <= i => q \in Reached(rs)
    /\ cid[i] \in Cluster =>
          \A r \in rs : r < first \/ cid[r] = cid[i] \/ cid[r] \in deps[cid[i]]

LEMMA StepKeepsSections ==
    ASSUME SectionInv, NEW first \in Nat, NEW last \in Nat, first <= n, last <= n,
           SectionsOf(first, last),
           NEW i \in Phases, i = idx, NEW rs, rs \subseteq 0..(i - 1), Requires(rs),
           ext' \subseteq Cluster, Enough(i, rs, first, last), ExtendedCovered(last)'
    PROVE  SectionInv'
<1>0. /\ Phases' = Phases /\ n' = n /\ cid' = cid /\ inn' = inn /\ deps' = deps
      /\ idx' = i + 1 /\ n \in Nat /\ i \in Nat /\ i < n /\ IInv /\ Unbuilt
  BY ClusterAssumption DEF Phases, Requires, planVars, SectionInv, IInv, TypeOK
<1>1. IInv'
  BY <1>0, RequiresKeepsIInv
<1>2. \A r \in Phases : req'[r] = IF r = i THEN rs ELSE req[r]
  BY <1>0 DEF Requires, IInv, TypeOK
<1>3. Unbuilt'
  BY <1>0, <1>2 DEF Unbuilt, Phases
<1>4. \A p \in Phases : p # i => \A q \in Before(p) : q \in Before(p)'
  BY <1>0, BeforeKept
<1>5. \A q \in Reached(rs) : q \in Before(i)'
  BY <1>0, BeforeNew
<1>6. EndsLast'
  <2>1. \A c \in Id : ends'[c] = IF c = cid[i] THEN i ELSE ends[c]
    BY <1>0 DEF Requires, IInv, TypeOK
  <2>2. \A q \in 0..i : cid[q] \in Id
    BY <1>0 DEF IInv, TypeOK, Phases
  <2>3. \A c \in Id : ends[c] \in Int
    BY <1>0 DEF IInv, TypeOK, Phases, NoPhase
  <2>4. ASSUME NEW c \in Id, ends'[c] # NoPhase PROVE cid[ends'[c]] = c
    BY <2>1, <2>4 DEF SectionInv, EndsLast, Known
  <2>5. ASSUME NEW q \in 0..i PROVE ends'[cid[q]] # NoPhase /\ q <= ends'[cid[q]]
    <3>1. CASE cid[q] = cid[i]
      BY <1>0, <2>1, <2>2, <3>1 DEF NoPhase
    <3>2. CASE cid[q] # cid[i]
      BY <1>0, <2>1, <2>2, <3>2 DEF SectionInv, EndsLast
    <3> QED
      BY <3>1, <3>2
  <2> QED
    BY <1>0, <2>4, <2>5 DEF EndsLast, Known
<1>7. \A p, q \in Phases : Built(q, p)' =>
         (Built(q, p) /\ p # i) \/ (p = i /\ q \in 0..(i - 1))
  BY <1>0 DEF Built, Phases
<1>8. Layout(first, last)'
  BY <1>0 DEF SectionsOf, Layout
<1>9. AfterSection(last)'
  BY <1>0, <1>4, <1>5, <1>7 DEF SectionsOf, AfterSection, Enough
<1>10. AfterFront(first)'
  BY <1>0, <1>4, <1>5, <1>7 DEF SectionsOf, AfterFront, Enough
<1>11. AfterDeps'
  BY <1>0, <1>4, <1>5, <1>7 DEF SectionsOf, AfterDeps, Enough
<1>12. AfterAll(last)'
  BY <1>0, <1>4, <1>5, <1>7 DEF SectionsOf, AfterAll, Enough
<1>13. NothingElse(first)'
  BY <1>0, <1>2 DEF SectionsOf, NothingElse, Enough
<1>14. SectionsOf(first, last)'
  BY <1>8, <1>9, <1>10, <1>11, <1>12, <1>13 DEF SectionsOf
<1> QED
  BY <1>0, <1>1, <1>3, <1>6, <1>14 DEF SectionInv

(* While the loop is in the sections the last phase of no cluster is the one just
   in front of them, and a section that is not continued has not been seen. *)
LEMMA SectionFacts ==
    ASSUME SectionInv, NEW first \in Nat, NEW last \in Nat, first <= n, last <= n,
           Layout(first, last), NEW i \in Phases, i = idx
    PROVE  /\ first <= i /\ i <= last => ends[NonParallel] = first - 1
           /\ cid[i] # NonParallel /\ ~SameSection => cid[i] \notin Known
           /\ \A q \in 0..(i - 1) : cid[q] \in Known /\ q <= ends[cid[q]]
           /\ \A c \in Known : ends[c] \in 0..(i - 1) /\ cid[ends[c]] = c
           /\ NonParallel \in Id /\ NonParallel \notin Cluster
<1>0. n \in Nat /\ i \in Nat /\ i < n /\ idx = i
  BY ClusterAssumption DEF SectionInv, IInv, TypeOK, Phases
<1>1. \A c \in Known : ends[c] \in 0..(i - 1) /\ cid[ends[c]] = c
  BY <1>0 DEF SectionInv, IInv, TypeOK, Known, Phases, NoPhase, EndsBehind, EndsLast
<1>2. \A q \in 0..(i - 1) : cid[q] \in Known /\ q <= ends[cid[q]]
  BY <1>0 DEF SectionInv, IInv, TypeOK, Known, Phases, EndsLast
<1>3. NonParallel \in Id /\ NonParallel \notin Cluster
  BY ClusterAssumption DEF Id
<1>4. ASSUME first <= i, i <= last PROVE ends[NonParallel] = first - 1
  <2>1. CASE NonParallel \in Known
    <3>1. ends[NonParallel] \in 0..(i - 1) /\ cid[ends[NonParallel]] = NonParallel
      BY <1>1, <2>1
    <3>2. ends[NonParallel] < first
      BY <1>0, <1>4, <3>1 DEF Layout, Phases
    <3>3. first - 1 \in 0..(i - 1) /\ cid[first - 1] = NonParallel
      BY <1>0, <1>4, <3>1, <3>2 DEF Layout, Phases
    <3>4. first - 1 <= ends[NonParallel]
      BY <1>2, <3>3
    <3> QED
      BY <3>1, <3>2, <3>4
  <2>2. CASE NonParallel \notin Known
    <3>1. first = 0
      <4> SUFFICES ASSUME first # 0 PROVE FALSE
        OBVIOUS
      <4>1. first - 1 \in 0..(i - 1) /\ cid[first - 1] = NonParallel
        BY <1>0, <1>4 DEF Layout, Phases
      <4> QED
        BY <4>1, <1>2, <2>2
    <3> QED
      BY <1>3, <2>2, <3>1 DEF Known, NoPhase
  <2> QED
    BY <2>1, <2>2
<1>5. ASSUME cid[i] # NonParallel, cid[i] \in Known PROVE SameSection
  <2> DEFINE e == ends[cid[i]]
  <2>1. e \in 0..(i - 1) /\ cid[e] = cid[i]
    BY <1>1, <1>5
  <2>2. e \in first..(last - 1) /\ i \in first..(last - 1)
    BY <1>0, <1>5, <2>1 DEF Layout, Phases
  <2>3. i - 1 \in e..i
    BY <1>0, <2>1
  <2>4. cid[i - 1] = cid[e]
    BY <2>1, <2>2, <2>3 DEF Layout
  <2> QED
    BY <1>0, <2>1, <2>4 DEF SameSection
<1> QED
  BY <1>1, <1>2, <1>3, <1>4, <1>5

-----------------------------------------------------------------------------
(* The branches *)

(* A cluster that stays covered: the end of the cluster that waits for it moves to
   the new phase at most, which waits for the old end. *)
LEMMA StaysCovered ==
    ASSUME SectionInv, NEW i \in Phases, i = idx, NEW rs, rs \subseteq 0..(i - 1),
           Requires(rs), NEW c \in Known, NEW d \in Known, c # cid[i],
           \/ d # cid[i] /\ ends[c] \in Before(ends[d])
           \/ d = cid[i] /\ ends[c] \in Reached(rs)
    PROVE  /\ d \in Known'
           /\ ends'[c] \in Before(ends[d])'
<1>0. IInv /\ Unbuilt /\ idx \in Phases
  BY DEF SectionInv
<1>1. \A e \in Id : ends'[e] = IF e = cid[i] THEN i ELSE ends[e]
  BY <1>0 DEF Requires, IInv, TypeOK
<1>2. c \in Id /\ d \in Id /\ ends'[c] = ends[c]
  BY <1>1 DEF Known
<1>3. \A e \in Known : ends[e] \in Phases /\ ends[e] # i
  BY <1>0 DEF Known, IInv, TypeOK, EndsBehind, Phases, NoPhase
<1>4. i # NoPhase
  BY <1>0 DEF Phases, NoPhase, IInv, TypeOK
<1>5. d \in Known'
  BY <1>1, <1>2, <1>4 DEF Known
<1>6. PICK q \in Phases, e \in Phases : q = ends'[c] /\ e = ends'[d]
  BY <1>1, <1>2, <1>3
<1>7. q \in Before(e)'
  <2>1. CASE d # cid[i]
    <3>1. e = ends[d] /\ e # i /\ q \in Before(e)
      BY <1>1, <1>2, <1>3, <1>6, <2>1
    <3> QED
      BY <1>0, <3>1, BeforeKept
  <2>2. CASE d = cid[i]
    <3>1. e = i /\ q \in Reached(rs)
      BY <1>1, <1>2, <1>6, <2>2
    <3> QED
      BY <1>0, <3>1, BeforeNew
  <2> QED
    BY <2>1, <2>2
<1> QED
  BY <1>5, <1>6, <1>7 DEF Before

LEMMA FirstPhaseSections ==
    ASSUME SectionInv, NEW first \in Nat, NEW last \in Nat, first <= n, last <= n,
           SectionsOf(first, last), FirstPhase
    PROVE  SectionInv'
<1>1. PICK i \in Phases : i = idx /\ i = 0
  BY ClusterAssumption DEF FirstPhase, SectionInv, IInv, TypeOK, Phases
<1>2. Known = {}
  BY <1>1, SectionFacts DEF SectionsOf
<1>3. ext = {} /\ ext' = {}
  BY <1>1, <1>2 DEF SectionsOf, ExtendedCovered, FirstPhase
<1>4. ExtendedCovered(last)'
  BY <1>3 DEF ExtendedCovered
<1>5. Enough(i, {}, first, last)
  BY <1>1 DEF Enough
<1> QED
  BY <1>1, <1>3, <1>4, <1>5, StepKeepsSections DEF FirstPhase

LEMMA ContinueSections ==
    ASSUME SectionInv, NEW first \in Nat, NEW last \in Nat, first <= n, last <= n,
           SectionsOf(first, last), ContinueSection
    PROVE  SectionInv'
<1>1. PICK i \in Phases : i = idx
  BY ClusterAssumption DEF ContinueSection, SectionInv, IInv, TypeOK, Phases
<1> DEFINE j == i - 1
<1>2. /\ i \in Nat /\ i < n /\ n \in Nat /\ j \in 0..(i - 1) /\ j \in Phases
      /\ cid[i] = cid[j] /\ Requires({j}) /\ ext' = ext /\ ext \subseteq Cluster
  BY <1>1, ClusterAssumption DEF ContinueSection, SameSection, Phases, SectionInv,
                                 IInv, TypeOK
<1>3. \A q \in Phases : q \in Before(j) => q \in Reached({j})
  BY DEF Reached
<1>4. j \in Reached({j})
  BY <1>2 DEF Reached
<1> HIDE DEF j
<1>5. Enough(i, {j}, first, last)
  <2> SUFFICES ASSUME NEW q \in 0..(i - 1)
               PROVE  /\ i < last /\ cid[q] = cid[i] => q \in Reached({j})
                      /\ q < first /\ first <= i => q \in Reached({j})
                      /\ cid[i] \in Cluster /\ cid[q] \in deps[cid[i]] => q \in Reached({j})
                      /\ last <= i => q \in Reached({j})
    BY <1>2 DEF Enough
  <2>1. CASE q = j
    BY <2>1, <1>4
  <2>2. CASE q # j
    <3>1. q \in Phases /\ Built(q, j) /\ q < j /\ j = i - 1
      BY <1>1, <1>2, <2>2 DEF Built, Phases, j
    <3>2. j < last /\ cid[q] = cid[j] => q \in Reached({j})
      BY <1>2, <1>3, <3>1 DEF SectionsOf, AfterSection
    <3>3. q < first /\ first <= j => q \in Reached({j})
      BY <1>2, <1>3, <3>1 DEF SectionsOf, AfterFront
    <3>4. cid[j] \in Cluster /\ cid[q] \in deps[cid[j]] => q \in Reached({j})
      BY <1>2, <1>3, <3>1 DEF SectionsOf, AfterDeps
    <3>5. last <= j => q \in Reached({j})
      BY <1>2, <1>3, <3>1 DEF SectionsOf, AfterAll
    <3>6. /\ first <= last
          /\ \A p \in Phases : cid[p] # NonParallel <=> p \in first..(last - 1)
      BY DEF SectionsOf, Layout
    <3>7. ASSUME q < first, first <= i, ~(first <= j) PROVE q \in Reached({j})
      BY <1>2, <3>1, <3>2, <3>6, <3>7
    <3>8. ASSUME last <= i, ~(last <= j) PROVE q \in Reached({j})
      <4>1. last = i /\ j < first
        BY <1>2, <3>1, <3>6, <3>8
      <4> QED
        BY <1>2, <3>1, <3>2, <3>6, <4>1
    <3> QED
      BY <1>2, <3>1, <3>2, <3>3, <3>4, <3>5, <3>7, <3>8
  <2> QED
    BY <2>1, <2>2
<1>6. ExtendedCovered(last)'
  <2> SUFFICES ASSUME idx' <= last
               PROVE  /\ ext \subseteq Known'
                      /\ cid'[idx' - 1] \notin ext
                      /\ \A c \in ext : \E d \in Known' \ (ext \cup {NonParallel}) :
                            ends'[c] \in Before(ends[d])'
    BY <1>2 DEF ExtendedCovered
  <2>1. idx' = i + 1 /\ cid' = cid /\ i <= last
    BY <1>1, <1>2 DEF Requires, planVars
  <2>2. ext \subseteq Known /\ cid[j] \notin ext
    BY <1>1, <1>2, <2>1 DEF SectionsOf, ExtendedCovered, j
  <2>3. ends[cid[j]] = j /\ cid[j] \in Known
    BY <1>1, <1>2, SectionFacts DEF SectionsOf, j
  <2>4. ASSUME NEW c \in ext
        PROVE  \E d \in Known' \ (ext \cup {NonParallel}) :
                  ends'[c] \in Before(ends[d])' /\ c \in Known'
    <3>1. PICK d \in Known \ (ext \cup {NonParallel}) : ends[c] \in Before(ends[d])
      BY <1>1, <2>1 DEF SectionsOf, ExtendedCovered
    <3>2. c # cid[i] /\ c \in Known
      BY <1>2, <2>2
    <3>3. d = cid[i] => ends[c] \in Reached({j})
      BY <1>2, <1>3, <2>3, <3>1 DEF Before
    <3>4. ends'[c] \in Before(ends[d])' /\ d \in Known'
      BY <1>1, <1>2, <3>1, <3>2, <3>3, StaysCovered
    <3>5. c \in Known'
      BY <3>2, <1>1, <1>2 DEF Known, Requires, SectionInv, IInv, TypeOK
    <3> QED
      BY <3>1, <3>4, <3>5
  <2> QED
    BY <1>2, <2>1, <2>2, <2>4
<1> QED
  BY <1>1, <1>2, <1>5, <1>6, StepKeepsSections

(* A phase that does not continue its section: where it is in the plan *)
LEMMA NewSection ==
    ASSUME SectionInv, NEW first \in Nat, NEW last \in Nat, first <= n, last <= n,
           SectionsOf(first, last), NEW i \in Phases, i = idx, i > 0, ~SameSection
    PROVE  /\ cid[i] = NonParallel => i = last /\ first < last /\ ReqClusters = {}
           /\ cid[i] # NonParallel =>
                 /\ i \in first..(last - 1)
                 /\ cid[i] \in Cluster \ Known
                 /\ ReqClusters = deps[cid[i]]
                 /\ cid[i] \notin deps[cid[i]]
                 /\ deps[cid[i]] \subseteq Cluster
<1>1. /\ first <= last
      /\ \A p \in Phases : cid[p] # NonParallel <=> p \in first..(last - 1)
      /\ \A p \in Phases : p >= last => inn[p] = {}
  BY DEF SectionsOf, Layout
<1>2. i \in Nat /\ i < n /\ i - 1 \in Phases /\ cid[i - 1] # cid[i] /\ cid[i] \in Id
  BY ClusterAssumption DEF SectionInv, IInv, TypeOK, Phases, SameSection
<1>3. ASSUME cid[i] = NonParallel
      PROVE  i = last /\ first < last /\ ReqClusters = {}
  <2>1. i - 1 \in first..(last - 1) /\ i \notin first..(last - 1)
    BY <1>1, <1>2, <1>3
  <2>2. i = last /\ first < last
    BY <1>2, <2>1
  <2> QED
    BY <1>1, <2>2 DEF ReqClusters
<1>4. ASSUME cid[i] # NonParallel
      PROVE  /\ i \in first..(last - 1)
             /\ cid[i] \in Cluster
             /\ ReqClusters = deps[cid[i]]
             /\ cid[i] \notin deps[cid[i]]
             /\ deps[cid[i]] \subseteq Cluster
  <2>1. cid[i] \in Cluster /\ inn[i] = {cid[i]}
    BY <1>2, <1>4 DEF Id, SectionInv, IInv, InputOK
  <2>2. ReqClusters = deps[cid[i]]
    BY <2>1 DEF ReqClusters
  <2> QED
    BY <1>1, <1>4, <2>1, <2>2 DEF SectionInv, IInv, InputOK, TypeOK
<1>5. cid[i] # NonParallel => cid[i] \notin Known
  BY SectionFacts DEF SectionsOf
<1> QED
  BY <1>3, <1>4, <1>5

LEMMA AfterRequiredSections ==
    ASSUME SectionInv, NEW first \in Nat, NEW last \in Nat, first <= n, last <= n,
           SectionsOf(first, last), AfterRequiredClusters
    PROVE  SectionInv'
<1>1. PICK i \in Phases : i = idx /\ i > 0 /\ ~SameSection
  BY ClusterAssumption DEF AfterRequiredClusters, SectionInv, IInv, TypeOK, Phases
<1>2. ReqClusters \cap Known # {}
  BY DEF AfterRequiredClusters
<1>3. /\ i \in first..(last - 1)
      /\ cid[i] \in Cluster \ Known
      /\ ReqClusters = deps[cid[i]]
      /\ cid[i] \notin deps[cid[i]]
      /\ deps[cid[i]] \subseteq Cluster
      /\ cid[i] # NonParallel
  BY <1>1, <1>2, NewSection
<1> DEFINE met == deps[cid[i]] \cap Known
           rs == {ends[c] : c \in met}
<1>4. Requires(rs) /\ ext' = ext \cup met /\ met # {}
  <2>1. ReqClusters \cap (Known \cup {cid[idx]}) = met
    BY <1>1, <1>3
  <2>2. {IF c = cid[idx] THEN idx ELSE ends[c] : c \in met} = rs
    BY <1>1, <1>3
  <2> QED
    BY <1>2, <1>3, <2>1, <2>2 DEF AfterRequiredClusters
<1>5. /\ \A q \in 0..(i - 1) : cid[q] \in Known /\ q <= ends[cid[q]]
      /\ \A c \in Known : ends[c] \in 0..(i - 1) /\ cid[ends[c]] = c
      /\ NonParallel \notin Cluster
  BY <1>1, SectionFacts DEF SectionsOf
<1>6. n \in Nat /\ i \in Nat /\ i < n /\ 0..(i - 1) \subseteq Phases /\ ext \subseteq Cluster
  BY ClusterAssumption DEF SectionInv, IInv, TypeOK, Phases
<1>7. rs \subseteq 0..(i - 1)
  BY <1>5
<1>8. \A c \in met : \A q \in Phases : q = ends[c] \/ q \in Before(ends[c]) => q \in Reached(rs)
  BY DEF Reached
<1>9. \A c \in met : ends[c] \in Phases /\ cid[ends[c]] = c /\ c \in Cluster
                     /\ ends[c] \in first..(last - 1)
  BY <1>3, <1>5, <1>6 DEF SectionsOf, Layout
<1> HIDE DEF rs
<1>10. Enough(i, rs, first, last)
  <2>1. ASSUME NEW q \in 0..(i - 1) PROVE cid[q] # cid[i]
    BY <1>3, <1>5
  <2>2. ASSUME NEW q \in 0..(i - 1), q < first PROVE q \in Reached(rs)
    <3>1. PICK c \in met : TRUE
      BY <1>4
    <3>2. Built(q, ends[c]) /\ first <= ends[c] /\ ends[c] \in Phases /\ q \in Phases
      BY <1>1, <1>5, <1>6, <1>9, <2>2, <3>1 DEF Built
    <3> QED
      BY <1>8, <2>2, <3>1, <3>2 DEF SectionsOf, AfterFront
  <2>3. ASSUME NEW q \in 0..(i - 1), cid[q] \in deps[cid[i]] PROVE q \in Reached(rs)
    <3> DEFINE c == cid[q]
    <3>1. c \in met /\ q <= ends[c] /\ q \in Phases
      BY <1>5, <1>6, <2>3
    <3>2. CASE q = ends[c]
      BY <1>8, <3>1, <3>2
    <3>3. CASE q # ends[c]
      <4>1. Built(q, ends[c]) /\ ends[c] < last /\ cid[ends[c]] = cid[q]
        BY <1>1, <1>3, <1>5, <1>6, <1>9, <3>1, <3>3 DEF Built
      <4> QED
        BY <1>8, <1>9, <3>1, <4>1 DEF SectionsOf, AfterSection
    <3> QED
      BY <3>2, <3>3
  <2>4. \A r \in rs : cid[r] \in deps[cid[i]]
    BY <1>9 DEF rs
  <2>5. ~(last <= i)
    BY <1>3
  <2> QED
    BY <2>1, <2>2, <2>3, <2>4, <2>5 DEF Enough
<1>11. ExtendedCovered(last)'
  <2>1. idx' = i + 1 /\ cid' = cid /\ i <= last
    BY <1>1, <1>3, <1>4 DEF Requires, planVars
  <2>2. ext \subseteq Known
    BY <1>1, <2>1 DEF SectionsOf, ExtendedCovered
  <2>3. Known' = Known \cup {cid[i]} /\ cid[i] \in Known'
    <3>1. \A e \in Id : ends'[e] = IF e = cid[i] THEN i ELSE ends[e]
      BY <1>1, <1>4 DEF Requires, SectionInv, IInv, TypeOK
    <3>2. cid[i] \in Id /\ i # NoPhase
      BY <1>3, <1>6 DEF Id, NoPhase
    <3> QED
      BY <3>1, <3>2 DEF Known
  <2>4. cid[i] \notin ext'
    BY <1>3, <1>4, <2>2
  <2>5. ASSUME NEW c \in ext'
        PROVE  \E d \in Known' \ (ext' \cup {NonParallel}) : ends'[c] \in Before(ends[d])'
    <3>1. c \in Known /\ c # cid[i]
      BY <1>3, <1>4, <2>2
    <3>0. PICK k \in Cluster : k = cid[i]
      BY <1>3
    <3>2. ASSUME ends[c] \in Reached(rs)
          PROVE  ends'[c] \in Before(ends[k])'
      <4>1. PICK q \in Phases : q = ends[c]
        BY <1>5, <1>6, <3>1
      <4>2. q \in Before(i)'
        BY <1>1, <1>4, <1>7, <3>2, <4>1, BeforeNew DEF SectionInv
      <4>3. cid[i] \in Id /\ c \in Id
        BY <1>3, <3>1 DEF Id, Known
      <4>4. ends'[c] = q /\ ends'[k] = i
        BY <3>0, <1>1, <1>4, <2>1, <3>1, <4>1, <4>3 DEF Requires, SectionInv, IInv, TypeOK
      <4> QED
        BY <4>2, <4>4 DEF Before
    <3>3. CASE c \in met
      <4>1. ends[c] \in Reached(rs)
        BY <1>8, <1>9, <3>3
      <4> QED
        BY <1>3, <2>3, <2>4, <3>0, <3>2, <4>1
    <3>4. CASE c \notin met
      <4>1. PICK d \in Known \ (ext \cup {NonParallel}) : ends[c] \in Before(ends[d])
        BY <1>1, <1>4, <2>1, <3>4 DEF SectionsOf, ExtendedCovered
      <4>2. CASE d \in met
        <5>1. ends[c] \in Reached(rs)
          BY <1>5, <1>6, <1>8, <3>1, <4>1, <4>2
        <5> QED
          BY <1>3, <2>3, <2>4, <3>0, <3>2, <5>1
      <4>3. CASE d \notin met
        <5>1. d # cid[i]
          BY <1>3, <4>1
        <5>2. ends'[c] \in Before(ends[d])' /\ d \in Known'
          BY <1>1, <1>4, <1>7, <3>1, <4>1, <5>1, StaysCovered
        <5> QED
          BY <1>4, <4>1, <4>3, <5>2
      <4> QED
        BY <4>2, <4>3
    <3> QED
      BY <3>3, <3>4
  <2>6. ext' \subseteq Known' /\ cid'[idx' - 1] \notin ext'
    BY <1>4, <1>6, <2>1, <2>2, <2>3, <2>4
  <2> QED
    BY <2>5, <2>6 DEF ExtendedCovered
<1>12. ext' \subseteq Cluster
  BY <1>3, <1>4, <1>6
<1> QED
  BY <1>1, <1>4, <1>7, <1>10, <1>11, <1>12, StepKeepsSections

LEMMA NonParallelSections ==
    ASSUME SectionInv, NEW first \in Nat, NEW last \in Nat, first <= n, last <= n,
           SectionsOf(first, last), NonParallelPhase
    PROVE  SectionInv'
<1>1. PICK i \in Phases : i = idx /\ i > 0 /\ ~SameSection /\ cid[i] = NonParallel
  BY ClusterAssumption DEF NonParallelPhase, SectionInv, IInv, TypeOK, Phases
<1>2. i = last /\ first < last
  BY <1>1, NewSection
<1> DEFINE rs == {i - 1} \cup {ends[c] : c \in Known \ (ext \cup {NonParallel})}
<1>3. Requires(rs) /\ ext' = ext
  BY <1>1 DEF NonParallelPhase
<1>4. /\ \A q \in 0..(i - 1) : cid[q] \in Known /\ q <= ends[cid[q]]
      /\ \A c \in Known : ends[c] \in 0..(i - 1) /\ cid[ends[c]] = c
      /\ NonParallel \notin Cluster
  BY <1>1, SectionFacts DEF SectionsOf
<1>5. n \in Nat /\ i \in Nat /\ i < n /\ 0..(i - 1) \subseteq Phases /\ ext \subseteq Cluster
  BY ClusterAssumption DEF SectionInv, IInv, TypeOK, Phases
<1>6. rs \subseteq 0..(i - 1)
  BY <1>1, <1>4, <1>5
<1>7. \A r \in rs : \A q \in Phases : q = r \/ q \in Before(r) => q \in Reached(rs)
  BY DEF Reached
<1>8. i - 1 \in rs /\ \A c \in Known \ (ext \cup {NonParallel}) : ends[c] \in rs
  OBVIOUS
<1> HIDE DEF rs
<1>9. ASSUME NEW q \in 0..(i - 1), q < first PROVE q \in Reached(rs)
  <2>1. Built(q, i - 1) /\ first <= i - 1 /\ i - 1 \in Phases /\ q \in Phases
    BY <1>1, <1>2, <1>5, <1>9 DEF Built
  <2> QED
    BY <1>7, <1>8, <1>9, <2>1 DEF SectionsOf, AfterFront
<1>10. ASSUME NEW c \in Known, c # NonParallel PROVE ends[c] \in Reached(rs)
  <2>1. ends[c] \in Phases
    BY <1>4, <1>5
  <2>2. CASE c \notin ext
    BY <1>7, <1>8, <1>10, <2>1, <2>2
  <2>3. CASE c \in ext
    <3>1. PICK d \in Known \ (ext \cup {NonParallel}) : ends[c] \in Before(ends[d])
      BY <1>1, <1>2, <2>3 DEF SectionsOf, ExtendedCovered
    <3> QED
      BY <1>7, <1>8, <2>1, <3>1
  <2> QED
    BY <2>2, <2>3
<1>11. ASSUME NEW q \in 0..(i - 1), ~(q < first) PROVE q \in Reached(rs)
  <2> DEFINE c == cid[q]
  <2>1. q \in first..(last - 1) /\ q \in Phases
    BY <1>2, <1>5, <1>11
  <2>2. c # NonParallel /\ c \in Known
    BY <1>4, <2>1 DEF SectionsOf, Layout
  <2>3. PICK e \in 0..(i - 1) : e = ends[c] /\ q <= e /\ cid[e] = c /\ e \in Phases
    BY <1>4, <1>5, <2>2
  <2>4. e \in Reached(rs)
    BY <1>10, <2>2, <2>3
  <2>5. CASE q = e
    BY <2>4, <2>5
  <2>6. CASE q # e
    <3>1. Built(q, e) /\ e < last
      BY <1>1, <1>2, <1>5, <2>3, <2>6 DEF Built
    <3>2. q \in Before(e)
      BY <2>1, <2>3, <3>1 DEF SectionsOf, AfterSection
    <3>3. PICK r \in rs : e = r \/ e \in Before(r)
      BY <2>4 DEF Reached
    <3>4. q \in Before(r)
      BY <2>1, <2>3, <3>2, <3>3, BeforeTransitive
    <3> QED
      BY <1>7, <2>1, <3>3, <3>4
  <2> QED
    BY <2>5, <2>6
<1>12. Enough(i, rs, first, last)
  BY <1>1, <1>2, <1>4, <1>9, <1>11 DEF Enough
<1>13. ExtendedCovered(last)'
  <2>0. idx' = i + 1
    BY <1>1, <1>3 DEF Requires
  <2>1. ~(idx' <= last)
    BY <1>2, <1>5, <2>0
  <2> QED
    BY <2>1 DEF ExtendedCovered
<1> QED
  BY <1>1, <1>3, <1>5, <1>6, <1>12, <1>13, StepKeepsSections

LEMMA ClusterSections ==
    ASSUME SectionInv, NEW first \in Nat, NEW last \in Nat, first <= n, last <= n,
           SectionsOf(first, last), ClusterPhase
    PROVE  SectionInv'
<1>1. PICK i \in Phases : i = idx /\ i > 0 /\ ~SameSection /\ cid[i] # NonParallel
  BY ClusterAssumption DEF ClusterPhase, SectionInv, IInv, TypeOK, Phases
<1>2. /\ i \in first..(last - 1)
      /\ cid[i] \in Cluster \ Known
      /\ ReqClusters = deps[cid[i]]
  BY <1>1, NewSection
<1>3. ReqClusters \cap Known = {} /\ ext' = ext
  BY DEF ClusterPhase
<1>4. n \in Nat /\ i \in Nat /\ i < n /\ 0..(i - 1) \subseteq Phases /\ ext \subseteq Cluster
  BY ClusterAssumption DEF SectionInv, IInv, TypeOK, Phases
<1>5. /\ ends[NonParallel] = first - 1
      /\ \A q \in 0..(i - 1) : cid[q] \in Known
      /\ \A c \in Known : ends[c] \in 0..(i - 1) /\ cid[ends[c]] = c
  BY <1>1, <1>2, <1>4, SectionFacts DEF SectionsOf
<1> DEFINE rs == {first - 1} \ {NoPhase}
<1>6. Requires(rs)
  BY <1>1, <1>2, <1>5 DEF ClusterPhase
<1>7. rs \subseteq 0..(i - 1) /\ (first > 0 => first - 1 \in rs)
  BY <1>2, <1>4 DEF NoPhase
<1>8. \A r \in rs : \A q \in Phases : q = r \/ q \in Before(r) => q \in Reached(rs)
  BY DEF Reached
<1>9. \A r \in rs : r < first
  OBVIOUS
<1> HIDE DEF rs
<1>10. ASSUME NEW q \in 0..(i - 1), q < first PROVE q \in Reached(rs)
  <2>1. q \in Phases /\ first - 1 \in rs /\ first - 1 \in Phases
    BY <1>4, <1>7, <1>10
  <2>2. CASE q = first - 1
    BY <1>8, <2>1, <2>2
  <2>3. CASE q # first - 1
    <3>1. Built(q, first - 1) /\ first - 1 < last /\ cid[q] = cid[first - 1]
      BY <1>1, <1>2, <1>4, <1>10, <2>1, <2>3 DEF Built, SectionsOf, Layout
    <3> QED
      BY <1>8, <2>1, <3>1 DEF SectionsOf, AfterSection
  <2> QED
    BY <2>2, <2>3
<1>11. Enough(i, rs, first, last)
  <2>1. ASSUME NEW q \in 0..(i - 1) PROVE cid[q] # cid[i] /\ cid[q] \notin deps[cid[i]]
    BY <1>2, <1>3, <1>5
  <2> QED
    BY <1>2, <1>9, <1>10, <2>1 DEF Enough
<1>12. ExtendedCovered(last)'
  <2>1. idx' = i + 1 /\ cid' = cid /\ i <= last
    BY <1>1, <1>2, <1>6 DEF Requires, planVars
  <2>2. ext \subseteq Known
    BY <1>1, <2>1 DEF SectionsOf, ExtendedCovered
  <2>3. ASSUME NEW c \in ext
        PROVE  /\ c \in Known'
               /\ \E d \in Known' \ (ext \cup {NonParallel}) : ends'[c] \in Before(ends[d])'
    <3>1. PICK d \in Known \ (ext \cup {NonParallel}) : ends[c] \in Before(ends[d])
      BY <1>1, <2>1 DEF SectionsOf, ExtendedCovered
    <3>2. c # cid[i] /\ c \in Known /\ d # cid[i]
      BY <1>2, <2>2, <3>1
    <3>3. ends'[c] \in Before(ends[d])' /\ d \in Known'
      BY <1>1, <1>6, <1>7, <3>1, <3>2, StaysCovered
    <3>4. c \in Known'
      BY <1>1, <1>6, <3>2 DEF Known, Requires, SectionInv, IInv, TypeOK
    <3> QED
      BY <3>1, <3>3, <3>4
  <2>4. cid'[idx' - 1] \notin ext'
    BY <1>2, <1>3, <1>4, <2>1, <2>2
  <2> QED
    BY <1>3, <2>3, <2>4 DEF ExtendedCovered
<1> QED
  BY <1>1, <1>3, <1>4, <1>6, <1>7, <1>11, <1>12, StepKeepsSections

-----------------------------------------------------------------------------

LEMMA InitSections ==
    ASSUME Sectioned, Init
    PROVE  SectionInv
<1>1. IInv
  BY InitIInv
<1>2. n \in Nat /\ Phases = 0..(n - 1) /\ idx = 0 /\ ext = {}
  BY ClusterAssumption DEF Init, Phases
<1>3. Unbuilt /\ EndsLast
  BY <1>2 DEF Init, Unbuilt, EndsLast, Known
<1>4. PICK first, last \in 0..n :
        /\ first <= last
        /\ \A p \in Phases :
              cid[p] \in IF p < first THEN BootClusters \cup {NonParallel}
                         ELSE IF p < last THEN Cluster
                         ELSE PostClusters \cup {NonParallel}
        /\ \A p \in 0..(first - 1) : inn[p] \subseteq MixedClusters \cup BootClusters
        /\ \A p \in last..(n - 1) : inn[p] \subseteq PostClusters
        /\ \A p, q \in first..(last - 1) :
              /\ cid[q] \in deps[cid[p]] => q < p
              /\ cid[p] = cid[q] => \A r \in p..q : cid[r] = cid[p]
  <2>1. PlanLayout
    BY DEF Init
  <2> QED
    BY <2>1, Zenon DEF PlanLayout
<1>5. first \in Nat /\ last \in Nat
  BY <1>2
<1>6. \A p \in Phases : cid[p] # NonParallel <=> p \in first..(last - 1)
  <2> SUFFICES ASSUME NEW p \in Phases
               PROVE  cid[p] # NonParallel <=> p \in first..(last - 1)
    OBVIOUS
  <2>1. p \in Nat
    BY <1>2
  <2>2. CASE p < first
    BY <1>4, <1>5, <2>1, <2>2 DEF Sectioned
  <2>3. CASE ~(p < first) /\ p < last
    BY <1>4, <1>5, <2>1, <2>3, ClusterAssumption
  <2>4. CASE ~(p < first) /\ ~(p < last)
    BY <1>4, <1>5, <2>1, <2>4 DEF Sectioned
  <2>5. p < last \/ ~(p < first)
    BY <1>4, <1>5, <2>1
  <2> QED
    BY <2>2, <2>3, <2>4
<1>7. \A p \in Phases : p >= last => inn[p] = {}
  BY <1>2, <1>4, <1>5 DEF Sectioned
<1>8. Layout(first, last)
  BY <1>4, <1>6, <1>7 DEF Layout
<1>9. \A p, q \in Phases : ~Built(q, p)
  BY <1>2 DEF Built
<1>10. ExtendedCovered(last) /\ NothingElse(first)
  BY <1>2 DEF ExtendedCovered, NothingElse, Init
<1>11. SectionsOf(first, last)
  BY <1>8, <1>9, <1>10 DEF SectionsOf, AfterSection, AfterFront, AfterDeps, AfterAll
<1> QED
  BY <1>1, <1>3, <1>11 DEF SectionInv

LEMMA NextSections == SectionInv /\ [Next]_vars => SectionInv'
<1> SUFFICES ASSUME SectionInv, [Next]_vars PROVE SectionInv'
  OBVIOUS
<1>1. CASE UNCHANGED vars
  <2>1. IInv'
    BY NextIInv DEF SectionInv
  <2>2. /\ n' = n /\ cid' = cid /\ inn' = inn /\ deps' = deps /\ idx' = idx
        /\ req' = req /\ ends' = ends /\ ext' = ext
    BY <1>1 DEF vars
  <2>3. Phases' = Phases /\ Known' = Known
    BY <2>2 DEF Phases, Known
  <2>4. Unbuilt' /\ EndsLast'
    BY <2>2, <2>3 DEF SectionInv, Unbuilt, EndsLast
  <2>5. ASSUME NEW p PROVE Before(p)' = Before(p)
    BY <2>2, <2>3 DEF Before, Closed
  <2>6. ASSUME NEW first, NEW last, SectionsOf(first, last)
        PROVE  SectionsOf(first, last)'
    <3>1. Layout(first, last)' /\ NothingElse(first)'
      BY <2>2, <2>3, <2>6 DEF SectionsOf, Layout, NothingElse
    <3>2. AfterSection(last)' /\ AfterFront(first)' /\ AfterDeps' /\ AfterAll(last)'
      BY <2>2, <2>3, <2>5, <2>6 DEF SectionsOf, AfterSection, AfterFront, AfterDeps,
                                   AfterAll, Built
    <3>3. ExtendedCovered(last)'
      <4>1. ASSUME NEW c, NEW d, ends[c] \in Before(ends[d])
            PROVE  ends'[c] \in Before(ends[d])'
        BY <2>2, <2>3, <4>1 DEF Before, Closed
      <4> QED
        BY <2>2, <2>3, <2>6, <4>1 DEF SectionsOf, ExtendedCovered
    <3> QED
      BY <3>1, <3>2, <3>3 DEF SectionsOf
  <2> QED
    BY <2>1, <2>2, <2>4, <2>6 DEF SectionInv
<1>2. PICK first, last \in 0..n : SectionsOf(first, last)
  BY DEF SectionInv
<1>3. first \in Nat /\ last \in Nat /\ first <= n /\ last <= n
  BY ClusterAssumption DEF SectionInv, IInv, TypeOK
<1>4. CASE FirstPhase
  BY <1>2, <1>3, <1>4, FirstPhaseSections
<1>5. CASE ContinueSection
  BY <1>2, <1>3, <1>5, ContinueSections
<1>6. CASE AfterRequiredClusters
  BY <1>2, <1>3, <1>6, AfterRequiredSections
<1>7. CASE NonParallelPhase
  BY <1>2, <1>3, <1>7, NonParallelSections
<1>8. CASE ClusterPhase
  BY <1>2, <1>3, <1>8, ClusterSections
<1> QED
  BY <1>1, <1>4, <1>5, <1>6, <1>7, <1>8 DEF Next

(* The strengthening is an invariant of the specification. *)
LEMMA SectionInvariant ==
    ASSUME Sectioned
    PROVE  Spec => []SectionInv
BY InitSections, NextSections, PTL DEF Spec

(* For all such plans a phase of a cluster cannot start before every earlier phase
   of its own cluster and of the clusters in its dependency_list is complete. *)
THEOREM DependenciesAlwaysRespected ==
    ASSUME Sectioned
    PROVE  Spec => []DependenciesRespected
<1>1. SectionInv => DependenciesRespected
  <2> SUFFICES ASSUME SectionInv, NEW p \in Phases, NEW q \in Phases, Built(q, p),
                      cid[p] \in Cluster, cid[q] \in deps[cid[p]] \cup {cid[p]}
               PROVE  q \in Before(p)
    BY DEF DependenciesRespected
  <2>1. PICK first, last \in 0..n : SectionsOf(first, last)
    BY DEF SectionInv
  <2>2. p < last
    BY <2>1, ClusterAssumption DEF SectionsOf, Layout, SectionInv, IInv, TypeOK, Phases
  <2> QED
    BY <2>1, <2>2 DEF SectionsOf, AfterSection, AfterDeps
<1> QED
  BY <1>1, SectionInvariant, PTL

(* For all such plans a phase that belongs to no single cluster waits for every
   phase before it, and every phase after it waits for it: extended_sections
   leaves no cluster out of what the phases after the sections wait for. *)
THEOREM NonParallelAlwaysAlone ==
    ASSUME Sectioned
    PROVE  Spec => []NonParallelAlone
<1>1. SectionInv => NonParallelAlone
  <2> SUFFICES ASSUME SectionInv, NEW p \in Phases, NEW q \in Phases, Built(q, p),
                      NonParallel \in {cid[p], cid[q]}
               PROVE  q \in Before(p)
    BY DEF NonParallelAlone
  <2>1. PICK first, last \in 0..n : SectionsOf(first, last)
    BY DEF SectionInv
  <2>2. p \in Nat /\ q \in Nat /\ first \in Nat /\ last \in Nat /\ q < p
    BY ClusterAssumption DEF SectionInv, IInv, TypeOK, Phases, Built
  <2>3. /\ first <= last
        /\ \A r \in Phases : cid[r] # NonParallel <=> r \in first..(last - 1)
    BY <2>1 DEF SectionsOf, Layout
  <2>4. CASE p < first
    <3>1. cid[p] = cid[q] /\ p < last
      BY <2>2, <2>3, <2>4
    <3> QED
      BY <2>1, <3>1 DEF SectionsOf, AfterSection
  <2>5. CASE q < first /\ first <= p
    BY <2>1, <2>5 DEF SectionsOf, AfterFront
  <2>6. CASE last <= p
    BY <2>1, <2>6 DEF SectionsOf, AfterAll
  <2> QED
    BY <2>2, <2>3, <2>4, <2>5, <2>6
<1> QED
  BY <1>1, SectionInvariant, PTL

(* For all such plans the dependencies are not too strict either: a cluster's phase
   waits for another cluster's phase only if the one depends, directly or not, on
   the other.  The phases that may have to be complete before phase p are found to
   be closed under required_phases. *)
THEOREM IndependentAlwaysParallel ==
    ASSUME Sectioned
    PROVE  Spec => []IndependentClustersParallel
<1>1. SectionInv => IndependentClustersParallel
  <2> SUFFICES ASSUME SectionInv, NEW p \in Phases, NEW q \in Phases, Built(q, p),
                      q \in Before(p), \A r \in q..p : cid[r] # NonParallel
               PROVE  cid[q] = cid[p] \/ DependsOn(cid[p], cid[q])
    BY DEF IndependentClustersParallel
  <2>1. PICK first, last \in 0..n : SectionsOf(first, last)
    BY DEF SectionInv
  <2>2. p \in Nat /\ q \in Nat /\ first \in Nat /\ last \in Nat /\ q < p
    BY ClusterAssumption DEF SectionInv, IInv, TypeOK, Phases, Built
  <2>3. \A r \in Phases : cid[r] # NonParallel <=> r \in first..(last - 1)
    BY <2>1 DEF SectionsOf, Layout
  <2>4. cid[p] # NonParallel /\ cid[q] # NonParallel /\ first <= q
    BY <2>2, <2>3
  <2> DEFINE S == {r \in Phases : r < first \/ cid[r] = cid[p] \/ DependsOn(cid[p], cid[r])}
  <2>5. /\ \A r \in Phases : cid[r] \in Id /\ req[r] \subseteq Phases /\ r \in Int
        /\ \A r \in Phases : \A s \in req[r] : s < r
        /\ \A c \in Cluster : deps[c] \subseteq Cluster /\ c \notin deps[c]
    BY ClusterAssumption DEF SectionInv, IInv, TypeOK, Phases, InputOK, RequirementsPrecede
  <2>6. ASSUME NEW r \in Phases, cid[r] = cid[p] \/ DependsOn(cid[p], cid[r]),
               NEW s \in req[r]
        PROVE  s \in S
    <3>1. cid[p] \in Cluster /\ cid[r] \in Cluster
      BY <2>4, <2>5, <2>6 DEF DependsOn, Id
    <3>2. s < first \/ cid[s] = cid[r] \/ cid[s] \in deps[cid[r]]
      BY <2>1, <3>1 DEF SectionsOf, NothingElse
    <3>3. ASSUME cid[s] \in deps[cid[r]], cid[s] # cid[p] PROVE DependsOn(cid[p], cid[s])
      <4>1. CASE cid[r] = cid[p]
        <5> DEFINE path == {cid[p], cid[s]}
        <5>1. path \in SUBSET Cluster
          BY <2>5, <3>1, <3>3
        <5>2. \A e \in path \ {cid[s]} : deps[e] \cap path # {}
          BY <3>3, <4>1
        <5> QED
          BY <3>3, <5>1, <5>2 DEF DependsOn
      <4>2. CASE DependsOn(cid[p], cid[r])
        <5>1. PICK path \in SUBSET Cluster :
                 /\ cid[p] \in path /\ cid[r] \in path
                 /\ \A e \in path \ {cid[r]} : deps[e] \cap path # {}
          BY <4>2 DEF DependsOn
        <5> DEFINE longer == path \cup {cid[s]}
        <5>2. longer \in SUBSET Cluster
          BY <2>5, <3>1, <3>3
        <5>3. \A e \in longer \ {cid[s]} : deps[e] \cap longer # {}
          BY <3>3, <5>1
        <5> QED
          BY <3>3, <5>1, <5>2, <5>3 DEF DependsOn
      <4> QED
        BY <2>6, <4>1, <4>2
    <3> QED
      BY <2>5, <2>6, <3>2, <3>3
  <2>7. Closed(S)
    <3>1. ASSUME NEW r \in S, r < first, NEW s \in req[r] PROVE s \in S
      <4>1. s \in Phases /\ s < r /\ s \in Int /\ r \in Int
        BY <2>5
      <4> QED
        BY <2>2, <3>1, <4>1
    <3> QED
      BY <2>6, <3>1 DEF Closed
  <2>8. req[p] \subseteq S
    BY <2>6
  <2>9. q \in S
    BY <2>7, <2>8 DEF Before
  <2> QED
    BY <2>2, <2>4, <2>9
<1> QED
  BY <1>1, SectionInvariant, PTL

=============================================================================
