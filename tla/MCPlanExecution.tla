-------------------------- MODULE MCPlanExecution --------------------------
(***************************************************************************)
(* Plan shapes for model checking PlanExecution.                           *)
(***************************************************************************)
EXTENDS PlanExecution, TLC

CONSTANTS j1, j2, j3

Symmetry == Permutations(JobSlot)

(* What a deployment of two clusters looks like: a common phase, a phase for each
   cluster, which may run at once, and the cleanup phase after both. *)
DiamondPhase == 0..3
DiamondReq == 0 :> {} @@ 1 :> {0} @@ 2 :> {0} @@ 3 :> {1, 2}
DiamondKind == 0 :> "callback" @@ 1 :> "callback" @@ 2 :> "config" @@ 3 :> "cleanup"
DiamondTask == 1..5
DiamondPhaseOf == 1 :> 0 @@ 2 :> 1 @@ 3 :> 1 @@ 4 :> 2 @@ 5 :> 3
DiamondItem == {"x"}
DiamondActing == "x" :> {3, 4}

(* Two clusters that do not wait for one another: two phases for the first, the phase
   of two Puppet tasks for the second, and the cleanup phase after both. *)
ClustersPhase == 0..3
ClustersReq == 0 :> {} @@ 1 :> {} @@ 2 :> {0} @@ 3 :> {1, 2}
ClustersKind == 0 :> "callback" @@ 1 :> "config" @@ 2 :> "callback" @@ 3 :> "cleanup"
ClustersTask == 1..5
ClustersPhaseOf == 1 :> 0 @@ 2 :> 1 @@ 3 :> 1 @@ 4 :> 2 @@ 5 :> 3
ClustersItem == {"x"}
ClustersActing == "x" :> {2, 3, 4}

(* Two clusters from the start and a phase that waits for both. *)
JoinPhase == 0..2
JoinReq == 0 :> {} @@ 1 :> {} @@ 2 :> {0, 1}
JoinKind == 0 :> "callback" @@ 1 :> "callback" @@ 2 :> "config"
JoinTask == 1..3
JoinPhaseOf == 1 :> 0 @@ 2 :> 1 @@ 3 :> 2
JoinItem == {"x"}
JoinActing == "x" :> {1, 3}

=============================================================================
