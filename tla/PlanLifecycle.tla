--------------------------- MODULE PlanLifecycle ---------------------------
(***************************************************************************)
(* What a plan promises to the people who drive it: the state machine that *)
(* the guards of BasePlan's methods describe (core/plan.py: set_ready,     *)
(* run, stop, end, mark_invalid), with creation and deletion.  Everything  *)
(* about how a plan is executed is left out but this: run() judges the     *)
(* state that was loaded when run_plan began.  PlanExecution is compared   *)
(* with this specification by refinement.                                  *)
(***************************************************************************)

VARIABLES
    plan,       \* state of the plan row, or "none" when there is no plan
    complete,   \* BasePlan.all_phases_complete(): every task is Success
    loaded      \* the state that run_plan has loaded, "none" while there is no run_plan

vars == <<plan, complete, loaded>>

PlanState == {"none", "initial", "running", "stopping", "stopped",
              "failed", "successful", "invalid"}

(* BasePlan.is_active() *)
Active == {"running", "stopping"}

(* The states BasePlan.run() and BasePlan.mark_invalid() accept. *)
Runnable == {"initial", "failed"}

Init == /\ plan = "none"
        /\ complete = FALSE
        /\ loaded = "none"

(* A new plan replaces the old one; refused while the old one is active
   (can_create_plan).  None of its tasks has run. *)
Create == /\ plan \notin Active
          /\ plan' = "initial"
          /\ complete' = FALSE
          /\ UNCHANGED loaded

Delete == /\ plan \notin Active
          /\ plan' = "none"
          /\ complete' = FALSE
          /\ UNCHANGED loaded

(* run_plan begins, when no plan is executed, or ends *)
Load == /\ plan \notin Active
        /\ loaded' \in {plan, "none"}
        /\ UNCHANGED <<plan, complete>>

(* What was loaded could be run.  A plan that has become invalid since is run as
   well; one that is executed, successful, stopped or deleted never is. *)
Run == /\ loaded \in Runnable
       /\ plan \in Runnable \cup {"invalid"}
       /\ plan' = "running"
       /\ UNCHANGED <<complete, loaded>>

Stop == /\ plan = "running"
        /\ plan' = "stopping"
        /\ UNCHANGED <<complete, loaded>>

MarkInvalid == /\ plan \in Runnable
               /\ plan' = "invalid"
               /\ UNCHANGED <<complete, loaded>>

(* Tasks finish, or are run again, only while the plan is active. *)
Progress == /\ plan \in Active
            /\ complete' \in BOOLEAN
            /\ UNCHANGED <<plan, loaded>>

(* BasePlan.end(): the outcome depends on the tasks and on whether the plan
   was asked to stop. *)
End == /\ plan \in Active
       /\ plan' = CASE complete -> "successful"
                    [] ~complete /\ plan = "running" -> "failed"
                    [] ~complete /\ plan = "stopping" -> "stopped"
       /\ UNCHANGED <<complete, loaded>>

Next == \/ Create \/ Delete \/ Load \/ Run \/ Stop \/ MarkInvalid \/ Progress \/ End

Spec == Init /\ [][Next]_vars

=============================================================================
