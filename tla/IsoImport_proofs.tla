-------------------------- MODULE IsoImport_proofs --------------------------
(***************************************************************************)
(* Proofs about IsoImport, for any nodes, ISO images, repositories, number *)
(* of imports and concurrency: LITP is closed while an importer works,     *)
(* trigger_and_wait keeps to its concurrency, an import that reports       *)
(* success has reached every node, and packages change only when it is     *)
(* safe.                                                                   *)
(***************************************************************************)
EXTENDS IsoImport, FiniteSetTheorems, TLAPS

-----------------------------------------------------------------------------
(* The importer and its run of trigger_and_wait *)

RunPc == {"idle", "disable", "query", "enable", "wait", "check", "stats", "done", "error"}
Runs == [pc : RunPc, nodes : SUBSET Node, untriggered : SUBSET Node, batch : SUBSET Node,
         applying : SUBSET Node, before : SUBSET Node, iterations : Int]
RunType == run \in Runs

AgentType ==
    /\ version \in Int
    /\ agent \in [Node -> [enabled : BOOLEAN, catalog : Int, applied : Int]]

(* A run belongs to an importer that waits for it, and a request that has not forked
   its importer yet is alone. *)
OwnedInv ==
    /\ RunType
    /\ AgentType
    /\ run.pc # "idle" => importer \in {"run_ms", "run_nodes"}
    /\ request = "entered" => importer = "none"

LEMMA NoRunType ==
    /\ NoRun.pc = "idle"
    /\ NoRun \in Runs
BY DEF NoRun, Runs, RunPc

(* The records that BeginRun and RefreshStats make *)
LEMMA RunTypes ==
    ASSUME NEW nodes \in SUBSET Node, NEW untriggered \in SUBSET Node
    PROVE  /\ [NoRun EXCEPT !.pc = "disable", !.nodes = nodes, !.untriggered = untriggered] \in Runs
           /\ \A r \in Runs : \A pc \in {"done", "query"} :
                 /\ [[r EXCEPT !.nodes = nodes, !.untriggered = untriggered, !.applying = {},
                               !.iterations = @ + 1] EXCEPT !.pc = pc] \in Runs
                 /\ [r EXCEPT !.pc = pc, !.applying = {}, !.iterations = @ + 1] \in Runs
<1>2. /\ \A r \in Runs : \A ns \in SUBSET Node : /\ [r EXCEPT !.nodes = ns] \in Runs
                                              /\ [r EXCEPT !.untriggered = ns] \in Runs
                                              /\ [r EXCEPT !.applying = ns] \in Runs
      /\ \A r \in Runs : \A k \in Int : [r EXCEPT !.iterations = k] \in Runs
      /\ \A r \in Runs : \A pc \in RunPc : [r EXCEPT !.pc = pc] \in Runs
  BY DEF Runs
<1>3. \A r \in Runs : r.iterations + 1 \in Int
  BY DEF Runs
<1>4. {} \in SUBSET Node /\ {"done", "query", "disable"} \subseteq RunPc
  BY DEF RunPc
<1>5. [NoRun EXCEPT !.pc = "disable", !.nodes = nodes, !.untriggered = untriggered] \in Runs
  BY <1>2, <1>4, NoRunType
<1> QED
  BY <1>2, <1>3, <1>4, <1>5

(* Disabling and enabling Puppet leaves the runs of the agents alone. *)
LEMMA Switched ==
    ASSUME AgentType, NEW ns \in SUBSET Node
    PROVE  /\ Enable(ns) \in [Node -> [enabled : BOOLEAN, catalog : Int, applied : Int]]
           /\ Disable(ns) \in [Node -> [enabled : BOOLEAN, catalog : Int, applied : Int]]
           /\ \A n \in Node : /\ Enable(ns)[n].catalog = agent[n].catalog
                              /\ Disable(ns)[n].catalog = agent[n].catalog
                              /\ n \in ns => Disable(ns)[n].enabled = FALSE
                              /\ n \notin ns => /\ Enable(ns)[n] = agent[n]
                                                /\ Disable(ns)[n] = agent[n]
BY DEF Enable, Disable, AgentType

LEMMA ReachedNodes ==
    ASSUME NEW ns \in SUBSET Node, NEW reached \in Reached(ns)
    PROVE  reached \subseteq ns
BY DEF Reached

LEMMA NextOwned == OwnedInv /\ [Next]_vars => OwnedInv'
<1> SUFFICES ASSUME OwnedInv, [Next]_vars PROVE OwnedInv'
  OBVIOUS
<1> USE DEF Idle, ImportGoesOn, contents, Runs, RunPc
<1>0. RunType /\ AgentType /\ MS \in Node
  BY ImportAssumption DEF OwnedInv
<1>1. ASSUME UNCHANGED <<version, agent, run, importer>>,
             request' = "entered" => request = "entered" \/ importer = "none"
      PROVE  OwnedInv'
  BY <1>1 DEF OwnedInv, RunType, AgentType
<1>2. CASE UNCHANGED vars
  BY <1>1, <1>2 DEF vars
<1>3. CASE LitpdDies \/ StartLitpd \/ BeginImport \/ EndImportRequest
  BY <1>1, <1>3 DEF LitpdDies, StartLitpd, BeginImport, EndImportRequest, ModeOf
<1>4. CASE \E on \in BOOLEAN : SetMaintenance(on)
  BY <1>1, <1>4 DEF SetMaintenance, ModeOf
<1>5. CASE BeginPackages \/ RsyncPackages \/ CreatePackagesRepo \/ CleanPackagesCache
  BY <1>1, <1>5 DEF BeginPackages, RsyncPackages, CreatePackagesRepo, CleanPackagesCache
<1>6. CASE StartPlan \/ EndPlan
  BY <1>1, <1>6 DEF StartPlan, EndPlan
<1>7. CASE Fork
  BY <1>7 DEF Fork, OwnedInv, RunType, AgentType
<1>8. ASSUME RunType', AgentType', UNCHANGED request,
             run'.pc # "idle" => importer' \in {"run_ms", "run_nodes"},
             importer # "none"
      PROVE  OwnedInv'
  BY <1>8 DEF OwnedInv
<1>9. ASSUME run' = NoRun \/ (run' = run /\ run.pc = "idle"), AgentType', UNCHANGED request,
             importer # "none"
      PROVE  OwnedInv'
  BY <1>0, <1>8, <1>9, NoRunType DEF RunType
<1>10. CASE Exec \/ Parse \/ RunAction \/ WaitForRuns \/ Finish \/ ImporterDies
  <2>1. run' = NoRun \/ (run' = run /\ run.pc = "idle")
    BY <1>10 DEF Exec, Parse, RunAction, WaitForRuns, Finish, ImporterDies, Fail, OwnedInv
  <2>2. importer # "none" /\ UNCHANGED <<request, version, agent>>
    BY <1>10 DEF Exec, Parse, RunAction, WaitForRuns, Finish, ImporterDies, Fail, Working
  <2> QED
    BY <1>0, <1>9, <2>1, <2>2 DEF AgentType
<1>11. CASE RestartLitpd
  BY <1>11 DEF RestartLitpd, OwnedInv, RunType, AgentType
<1>12. CASE DisablePuppet
  <2>1. \E reached \in SUBSET Node : agent' = Disable(reached)
    BY <1>12 DEF DisablePuppet
  <2>2. AgentType'
    BY <1>0, <1>12, <2>1, Switched DEF DisablePuppet, AgentType
  <2> QED
    BY <1>9, <1>12, <2>2 DEF DisablePuppet, Fail, OwnedInv
<1>13. CASE EnablePuppet
  <2>1. PICK nodes \in SUBSET Node, next \in {"run_ms", "run_nodes"} :
           EnableOn(nodes, next) /\ importer \in {"work", "enable_nodes"}
    BY <1>0, <1>13 DEF EnablePuppet
  <2>2. \E reached \in SUBSET Node : agent' = Enable(reached)
    BY <2>1 DEF EnableOn
  <2>3. version' \in Int
    BY <1>0, <2>1 DEF EnableOn, AgentType
  <2>4. AgentType'
    BY <1>0, <2>2, <2>3, Switched DEF AgentType
  <2> QED
    BY <1>9, <2>1, <2>4 DEF EnableOn, Fail, OwnedInv
<1>14. CASE BeginRun
  <2>1. AgentType' /\ importer \in {"run_ms", "run_nodes"} /\ UNCHANGED request
    BY <1>0, <1>14 DEF BeginRun, AgentType
  <2>2. CASE Fail
    BY <1>9, <2>1, <2>2 DEF Fail
  <2>3. CASE ~Fail
    <3> DEFINE nodes == IF importer = "run_ms" THEN {MS} ELSE Node \ {MS}
    <3>1. /\ run' = [NoRun EXCEPT !.pc = "disable", !.nodes = nodes, !.untriggered = nodes]
          /\ importer' = importer
      BY <1>14, <2>3, Zenon DEF BeginRun
    <3>2. nodes \in SUBSET Node
      BY <1>0
    <3> HIDE DEF nodes, Runs
    <3>3. RunType'
      BY <3>1, <3>2, RunTypes DEF RunType
    <3> QED
      BY <1>8, <2>1, <3>1, <3>3
  <2> QED
    BY <2>2, <2>3
<1>15. ASSUME RunType', AgentType', run.pc # "idle", UNCHANGED <<request, importer>>
       PROVE  OwnedInv'
  BY <1>8, <1>15 DEF OwnedInv
<1>16. Applying \subseteq Node
  BY DEF Applying
<1>17. CASE DisableAll
  <2>1. PICK reached \in Reached(Node) : agent' = Disable(reached)
    BY <1>17 DEF DisableAll
  <2>2. AgentType'
    BY <1>0, <1>17, <2>1, Switched, ReachedNodes DEF DisableAll, AgentType
  <2>3. RunType'
    BY <1>0, <1>16, <1>17 DEF DisableAll, RunType
  <2> QED
    BY <1>15, <1>17, <2>2, <2>3 DEF DisableAll
<1>18. CASE QueryApplying
  <2>1. run' = [run EXCEPT !.pc = "check"] \/
        \E b \in SUBSET Node : run' = [run EXCEPT !.pc = "enable", !.batch = b]
    BY <1>0, <1>18 DEF QueryApplying, RunType
  <2>2. RunType'
    BY <1>0, <2>1 DEF RunType
  <2>3. AgentType'
    BY <1>0, <1>18 DEF QueryApplying, AgentType
  <2> QED
    BY <1>15, <1>18, <2>2, <2>3 DEF QueryApplying
<1>19. CASE TriggerBatch
  <2>0. run.batch \subseteq Node
    BY <1>0 DEF RunType
  <2>1. PICK reached \in Reached(run.batch) : agent' = Enable(reached)
    BY <1>19 DEF TriggerBatch
  <2>2. AgentType'
    BY <1>0, <1>19, <2>0, <2>1, Switched, ReachedNodes DEF TriggerBatch, AgentType
  <2>3. RunType'
    <3>1. PICK triggered \in SUBSET run.batch :
             run' = [run EXCEPT !.pc = "wait", !.untriggered = run.untriggered \ triggered]
      BY <1>19 DEF TriggerBatch
    <3>2. run.untriggered \ triggered \subseteq Node
      BY <1>0 DEF RunType
    <3> QED
      BY <1>0, <3>1, <3>2 DEF RunType
  <2> QED
    BY <1>15, <1>19, <2>2, <2>3 DEF TriggerBatch
<1>20. CASE DisableBatch
  <2>0. run.batch \subseteq Node
    BY <1>0 DEF RunType
  <2>1. PICK reached \in Reached(run.batch) : agent' = Disable(reached)
    BY <1>20 DEF DisableBatch
  <2>2. AgentType'
    BY <1>0, <1>20, <2>0, <2>1, Switched, ReachedNodes DEF DisableBatch, AgentType
  <2>3. RunType'
    BY <1>0, <1>20 DEF DisableBatch, RunType
  <2> QED
    BY <1>15, <1>20, <2>2, <2>3 DEF DisableBatch
<1>21. CASE CheckRun
  <2>1. RunType'
    <3>1. \/ run' = [run EXCEPT !.pc = "done"]
          \/ run' = [run EXCEPT !.pc = "error"]
          \/ run' = [run EXCEPT !.pc = "stats", !.applying = Applying \cap run.nodes]
      BY <1>21, Zenon DEF CheckRun
    <3> QED
      BY <1>0, <1>16, <3>1 DEF RunType
  <2>2. AgentType'
    BY <1>0, <1>21 DEF CheckRun, AgentType
  <2> QED
    BY <1>15, <1>21, <2>1, <2>2 DEF CheckRun
<1>22. CASE RefreshStats
  <2> DEFINE nodes == run.nodes \ Completed
             untriggered == run.untriggered \ Completed
             again == untriggered \cup ((nodes \ untriggered) \ run.applying)
             next == [run EXCEPT !.nodes = nodes, !.untriggered = again,
                                 !.applying = {}, !.iterations = @ + 1]
  <2>0. \/ run' = [next EXCEPT !.pc = IF nodes = {} THEN "done" ELSE "query"]
        \/ run' = [run EXCEPT !.pc = "query", !.applying = {}, !.iterations = @ + 1]
    BY <1>22, Zenon DEF RefreshStats
  <2>1. RunType'
    <3>1. nodes \in SUBSET Node /\ again \in SUBSET Node
      BY <1>0 DEF RunType
    <3> HIDE DEF nodes, again, Runs
    <3>2. [run EXCEPT !.pc = "query", !.applying = {}, !.iterations = @ + 1] \in Runs
      BY <1>0, RunTypes DEF RunType
    <3> DEFINE pc == IF nodes = {} THEN "done" ELSE "query"
    <3>3. pc \in {"done", "query"}
      OBVIOUS
    <3> HIDE DEF pc
    <3>4. [next EXCEPT !.pc = pc] \in Runs
      BY <1>0, <3>1, <3>3, RunTypes DEF RunType
    <3> QED
      BY <2>0, <3>2, <3>4 DEF RunType, pc
  <2>2. AgentType'
    BY <1>0, <1>22 DEF RefreshStats, AgentType
  <2> QED
    BY <1>15, <1>22, <2>1, <2>2 DEF RefreshStats
<1>23. CASE EnableAll
  <2>1. \E reached \in SUBSET Node : agent' = Enable(reached) \/ agent' = agent
    BY <1>23, ReachedNodes DEF EnableAll
  <2>2. AgentType'
    BY <1>0, <1>23, <2>1, Switched DEF EnableAll, AgentType
  <2>3. run' = NoRun /\ importer # "none"
    BY <1>23 DEF EnableAll, Fail, OwnedInv
  <2> QED
    BY <1>9, <1>23, <2>2, <2>3 DEF EnableAll
<1>24. ASSUME NEW n \in Node, StartRun(n) \/ EndRun(n) PROVE OwnedInv'
  <2>1. AgentType'
    BY <1>0, <1>24 DEF StartRun, EndRun, AgentType
  <2> QED
    BY <1>24, <2>1 DEF StartRun, EndRun, OwnedInv, RunType
<1> QED
  BY <1>2, <1>3, <1>4, <1>5, <1>6, <1>7, <1>10, <1>11, <1>12, <1>13, <1>14, <1>17,
     <1>18, <1>19, <1>20, <1>21, <1>22, <1>23, <1>24 DEF Next, Importer

LEMMA InitOwned == Init => OwnedInv
BY NoRunType DEF Init, OwnedInv, RunType, AgentType, contents

-----------------------------------------------------------------------------
(* Maintenance mode *)

(* What would open LITP to an import: somebody leaves maintenance mode by hand, litpd
   dies before the request is committed, or run_plan's message is taken late. *)
Guarded == Faults \cap {"user", "uncommitted", "late_plan"} = {}

(* The memory of litpd is closed, and what litpd reads at its next start, the
   property and the state file, closes it again: the property is committed, or the
   request that will commit it is alive. *)
Closed ==
    Working =>
        /\ litpd # "open" /\ plan = FALSE
        /\ enabled = TRUE \/ request = "forked"
        /\ file \in {"Starting", "Running"}

(* The request, from entering maintenance mode to its commit *)
RequestHolds ==
    /\ request \in {"entered", "forked"} => litpd = "closed" /\ plan = FALSE
    /\ request = "entered" => importer = "none"

AloneInv == Closed /\ RequestHolds

(* The importer leaves what closes LITP alone, until it is done with its work. *)
ImporterSteps ==
    /\ importer # "none"
    /\ UNCHANGED <<enabled, plan>>
    /\ \/ /\ importer # "restart" /\ UNCHANGED <<litpd, request>>
          /\ file' \in {file, "Running"} \/ importer' \in {"restart", "none"}
       \/ importer' = "none" /\ litpd' = "down" /\ request' = "none"

LEMMA ImporterAlone ==
    ASSUME Importer, run.pc # "idle" => importer # "none" /\ importer # "restart"
    PROVE  ImporterSteps
<1> USE DEF ImporterSteps, Fail, contents, Idle, ImportGoesOn
<1>1. CASE Exec
  BY <1>1 DEF Exec
<1>2. CASE Parse
  BY <1>2 DEF Parse
<1>3. CASE RunAction
  BY <1>3 DEF RunAction
<1>4. CASE DisablePuppet
  BY <1>4 DEF DisablePuppet
<1>5. CASE WaitForRuns
  BY <1>5 DEF WaitForRuns
<1>6. CASE EnablePuppet
  BY <1>6 DEF EnablePuppet, EnableOn
<1>7. CASE BeginRun
  BY <1>7 DEF BeginRun
<1>8. CASE DisableAll \/ QueryApplying \/ TriggerBatch \/ DisableBatch
  BY <1>8 DEF DisableAll, QueryApplying, TriggerBatch, DisableBatch
<1>9. CASE CheckRun \/ RefreshStats
  BY <1>9 DEF CheckRun, RefreshStats
<1>10. CASE EnableAll
  BY <1>10 DEF EnableAll
<1>11. CASE Finish
  BY <1>11 DEF Finish
<1>12. CASE RestartLitpd
  BY <1>12 DEF RestartLitpd
<1> QED
  BY <1>1, <1>2, <1>3, <1>4, <1>5, <1>6, <1>7, <1>8, <1>9, <1>10, <1>11, <1>12
     DEF Importer

LEMMA AloneStep ==
    ASSUME Guarded, OwnedInv, AloneInv, [Next]_vars
    PROVE  AloneInv'
<1> USE DEF AloneInv, Closed, RequestHolds, Working
<1>1. CASE UNCHANGED vars
  BY <1>1 DEF vars
<1>2. CASE LitpdDies
  BY <1>2 DEF LitpdDies, Guarded
<1>3. CASE StartLitpd
  <2>1. Working => enabled = TRUE /\ ReadState \in StatesToRemain
    <3>1. CASE file = "Starting"
      <4>1. ReadState = "Unknown"
        BY <3>1 DEF ReadState
      <4> QED
        BY <1>3, <4>1 DEF StartLitpd, StatesToRemain, ModeOf
    <3>2. CASE file = "Running"
      <4>1. importer # "none" => ReadState = "Running"
        BY <3>2 DEF ReadState
      <4> QED
        BY <1>3, <4>1 DEF StartLitpd, StatesToRemain, ModeOf
    <3> QED
      BY <3>1, <3>2
  <2>2. request \notin {"entered", "forked"} /\ UNCHANGED <<request, importer, plan>>
    BY <1>3 DEF StartLitpd, ModeOf
  <2>3. Working => litpd' = "closed" /\ UNCHANGED <<enabled, file>>
    BY <1>3, <2>1 DEF StartLitpd, ModeOf
  <2> QED
    BY <2>2, <2>3
<1>4. CASE BeginImport
  BY <1>4 DEF BeginImport, ModeOf
<1>5. CASE Fork
  BY <1>5 DEF Fork
<1>6. CASE EndImportRequest
  BY <1>6 DEF EndImportRequest
<1>7. ASSUME NEW on \in BOOLEAN, SetMaintenance(on) PROVE AloneInv'
  BY <1>7 DEF SetMaintenance, Guarded, ModeOf
<1>8. CASE BeginPackages \/ RsyncPackages \/ CreatePackagesRepo \/ CleanPackagesCache
  BY <1>8 DEF BeginPackages, RsyncPackages, CreatePackagesRepo, CleanPackagesCache
<1>9. CASE StartPlan \/ EndPlan
  BY <1>9 DEF StartPlan, EndPlan, Guarded
<1>10. CASE Importer
  <2>1. ImporterSteps
    BY <1>10, ImporterAlone DEF OwnedInv
  <2> QED
    BY <2>1 DEF ImporterSteps, OwnedInv
<1>11. CASE ImporterDies
  BY <1>11 DEF ImporterDies
<1>12. ASSUME NEW n \in Node, StartRun(n) \/ EndRun(n) PROVE AloneInv'
  BY <1>12 DEF StartRun, EndRun, ImportGoesOn, Idle
<1> QED
  BY <1>1, <1>2, <1>3, <1>4, <1>5, <1>6, <1>7, <1>8, <1>9, <1>10, <1>11, <1>12 DEF Next

(* run_import, initialize_maintenance: unless somebody opens LITP by hand or what was
   asked for before the import takes effect late, LITP is closed and runs no plan as
   long as an importer works, whatever dies and is started again in between. *)
THEOREM ImportIsAlone ==
    ASSUME Guarded
    PROVE  Spec => []ImportAlone
<1>1. Init => AloneInv
  BY DEF Init, AloneInv, Closed, RequestHolds, Working
<1>2. AloneInv => ImportAlone
  BY DEF AloneInv, Closed, ImportAlone
<1>3. OwnedInv /\ AloneInv /\ [Next]_vars => AloneInv'
  BY AloneStep
<1> QED
  BY <1>1, <1>2, <1>3, InitOwned, NextOwned, PTL DEF Spec

-----------------------------------------------------------------------------
(* trigger_and_wait *)

(* Puppet is enabled only on the batch that waits to be triggered, and the batch was
   chosen small enough for the nodes that were applying a catalog. *)
BatchInv ==
    /\ run.pc \in {"query", "enable", "check", "stats", "done", "error"} =>
          \A n \in Node : agent[n].enabled = FALSE
    /\ run.pc = "wait" => \A n \in Node : agent[n].enabled = FALSE \/ n \in run.batch
    /\ run.pc \in {"enable", "wait"} =>
          Cardinality(Applying \cup run.batch) <= Concurrency
    /\ run.pc \in {"query", "check", "stats", "done", "error"} =>
          Cardinality(Applying) <= Concurrency \/ Applying \subseteq run.before

LEMMA Fewer ==
    ASSUME NEW S \in SUBSET Node, NEW T \in SUBSET Node, S \subseteq T
    PROVE  /\ Cardinality(S) \in Nat /\ Cardinality(T) \in Nat
           /\ Cardinality(S) <= Cardinality(T)
<1>1. IsFiniteSet(S) /\ IsFiniteSet(T)
  BY ImportAssumption, FS_Subset
<1> QED
  BY <1>1, FS_Subset, FS_CardinalityType

LEMMA BatchStep ==
    ASSUME "lost" \notin Faults, OwnedInv, BatchInv, [Next]_vars
    PROVE  BatchInv'
<1>0. /\ run \in Runs /\ run.batch \subseteq Node /\ AgentType
      /\ Applying \subseteq Node /\ Concurrency \in Nat
  BY ImportAssumption DEF OwnedInv, RunType, Runs, Applying
<1>1. ASSUME UNCHANGED <<run, agent>> PROVE BatchInv'
  BY <1>1 DEF BatchInv, Applying
<1>2. ASSUME run'.pc \in {"idle", "disable"} PROVE BatchInv'
  BY <1>2 DEF BatchInv
<1>3. run' = NoRun => BatchInv'
  BY <1>2, NoRunType
<1> USE DEF Idle, ImportGoesOn, contents
<1>4. CASE UNCHANGED vars
  BY <1>1, <1>4 DEF vars
<1>5. CASE LitpdDies \/ StartLitpd \/ BeginImport \/ Fork \/ EndImportRequest
  BY <1>1, <1>5 DEF LitpdDies, StartLitpd, BeginImport, Fork, EndImportRequest, ModeOf
<1>6. CASE \E on \in BOOLEAN : SetMaintenance(on)
  BY <1>1, <1>6 DEF SetMaintenance, ModeOf
<1>7. CASE BeginPackages \/ RsyncPackages \/ CreatePackagesRepo \/ CleanPackagesCache
  BY <1>1, <1>7 DEF BeginPackages, RsyncPackages, CreatePackagesRepo, CleanPackagesCache
<1>8. CASE StartPlan \/ EndPlan
  BY <1>1, <1>8 DEF StartPlan, EndPlan
<1>9. CASE Exec \/ Parse \/ RunAction \/ WaitForRuns \/ Finish \/ RestartLitpd \/ ImporterDies
  BY <1>1, <1>3, <1>9 DEF Exec, Parse, RunAction, WaitForRuns, Finish, RestartLitpd,
                          ImporterDies, Fail
<1>10. CASE DisablePuppet \/ EnablePuppet
  <2>1. run' = NoRun \/ (run' = run /\ run.pc = "idle")
    BY <1>10 DEF DisablePuppet, EnablePuppet, EnableOn, Fail, OwnedInv
  <2> QED
    BY <1>2, <1>3, <2>1
<1>11. CASE BeginRun
  <2> DEFINE nodes == IF importer = "run_ms" THEN {MS} ELSE Node \ {MS}
  <2>1. \/ run' = [NoRun EXCEPT !.pc = "disable", !.nodes = nodes, !.untriggered = nodes]
        \/ run' = NoRun
    BY <1>11, Zenon DEF BeginRun, Fail
  <2> HIDE DEF nodes
  <2>2. run'.pc = "disable" \/ run' = NoRun
    BY <2>1 DEF NoRun
  <2> QED
    BY <1>2, <1>3, <2>2
<1>12. ASSUME NEW ns \in SUBSET Node, agent' = Enable(ns) \/ agent' = Disable(ns)
       PROVE  Applying' = Applying
  BY <1>0, <1>12, Switched DEF Applying
<1>13. CASE DisableAll
  <2>1. agent' = Disable(Node)
    BY <1>13 DEF DisableAll, Reached
  <2>2. \A n \in Node : agent'[n].enabled = FALSE
    BY <1>0, <2>1, Switched
  <2>3. run'.pc = "query" /\ run'.before = Applying
    BY <1>0, <1>13 DEF DisableAll, Runs
  <2> QED
    BY <1>12, <2>1, <2>2, <2>3 DEF BatchInv
<1>14. CASE QueryApplying
  <2>1. agent' = agent /\ run.pc = "query" /\ Applying' = Applying
    BY <1>14 DEF QueryApplying, Applying
  <2>2. CASE run' = [run EXCEPT !.pc = "check"]
    <3>1. run'.pc = "check" /\ run'.before = run.before
      BY <1>0, <2>2 DEF Runs
    <3> QED
      BY <2>1, <3>1 DEF BatchInv
  <2>3. ASSUME NEW b \in SUBSET Node, run' = [run EXCEPT !.pc = "enable", !.batch = b],
               Cardinality(b) <= Concurrency - Cardinality(Applying)
        PROVE  BatchInv'
    <3>1. run'.pc = "enable" /\ run'.batch = b
      BY <1>0, <2>3 DEF Runs
    <3>2. IsFiniteSet(b) /\ IsFiniteSet(Applying) /\ IsFiniteSet(Applying \cap b)
      BY <1>0, ImportAssumption, FS_Subset
    <3>3. Cardinality(Applying \cup b) =
             Cardinality(Applying) + Cardinality(b) - Cardinality(Applying \cap b)
      BY <3>2, FS_Union
    <3>4. Cardinality(Applying) \in Nat /\ Cardinality(b) \in Nat
          /\ Cardinality(Applying \cap b) \in Nat
      BY <3>2, FS_CardinalityType
    <3>5. Cardinality(Applying \cup b) <= Concurrency
      BY <1>0, <2>3, <3>3, <3>4
    <3> QED
      BY <2>1, <3>1, <3>5 DEF BatchInv
  <2>4. \/ run' = [run EXCEPT !.pc = "check"]
        \/ \E b \in SUBSET (run.untriggered \ Applying) :
              /\ run' = [run EXCEPT !.pc = "enable", !.batch = b]
              /\ Cardinality(b) <= Capacity(Applying)
    BY <1>14, Zenon DEF QueryApplying
  <2>5. run.untriggered \subseteq Node
    BY <1>0 DEF Runs
  <2> QED
    BY <2>2, <2>3, <2>4, <2>5 DEF Capacity
<1>15. CASE TriggerBatch
  <2>1. agent' = Enable(run.batch) /\ run.pc = "enable"
    BY <1>15 DEF TriggerBatch, Reached
  <2>2. ASSUME NEW n \in Node, n \notin run.batch PROVE agent'[n].enabled = FALSE
    <3>1. agent'[n] = agent[n]
      BY <1>0, <2>1, <2>2, Switched
    <3> QED
      BY <2>1, <3>1 DEF BatchInv
  <2>3. run'.pc = "wait" /\ run'.batch = run.batch
    BY <1>0, <1>15 DEF TriggerBatch, Runs
  <2> QED
    BY <1>0, <1>12, <2>1, <2>2, <2>3 DEF BatchInv
<1>16. CASE DisableBatch
  <2>1. agent' = Disable(run.batch) /\ run.pc = "wait"
    BY <1>16 DEF DisableBatch, Reached
  <2>2. \A n \in Node : agent'[n].enabled = FALSE
    BY <1>0, <2>1, Switched DEF BatchInv
  <2>3. run'.pc = "check" /\ run'.before = run.before
    BY <1>0, <1>16 DEF DisableBatch, Runs
  <2>4. Cardinality(Applying) <= Concurrency
    <3>1. Cardinality(Applying \cup run.batch) <= Concurrency
      BY <2>1 DEF BatchInv
    <3>2. /\ Cardinality(Applying) <= Cardinality(Applying \cup run.batch)
          /\ Cardinality(Applying) \in Nat /\ Cardinality(Applying \cup run.batch) \in Nat
      BY <1>0, Fewer
    <3> QED
      BY <1>0, <3>1, <3>2
  <2> QED
    BY <1>0, <1>12, <2>1, <2>2, <2>3, <2>4 DEF BatchInv
<1>17. ASSUME agent' = agent, run'.before = run.before,
              run.pc \in {"query", "check", "stats"},
              run'.pc \in {"query", "check", "stats", "done", "error"}
       PROVE  BatchInv'
  BY <1>17 DEF BatchInv, Applying
<1>18. CASE CheckRun
  <2>1. \/ run' = [run EXCEPT !.pc = "done"]
        \/ run' = [run EXCEPT !.pc = "error"]
        \/ run' = [run EXCEPT !.pc = "stats", !.applying = Applying \cap run.nodes]
    BY <1>18, Zenon DEF CheckRun
  <2>2. run'.before = run.before /\ run'.pc \in {"done", "error", "stats"}
    BY <1>0, <2>1 DEF Runs
  <2> QED
    BY <1>17, <1>18, <2>2 DEF CheckRun
<1>19. CASE RefreshStats
  <2> DEFINE nodes == run.nodes \ Completed
             untriggered == run.untriggered \ Completed
             again == untriggered \cup ((nodes \ untriggered) \ run.applying)
             k == run.iterations + 1
             pc == IF nodes = {} THEN "done" ELSE "query"
             next == [run EXCEPT !.nodes = nodes, !.untriggered = again,
                                 !.applying = {}, !.iterations = k]
  <2>1. \/ run' = [next EXCEPT !.pc = pc]
        \/ run' = [run EXCEPT !.pc = "query", !.applying = {}, !.iterations = k]
    BY <1>19, Zenon DEF RefreshStats
  <2>2. pc \in {"done", "query"}
    OBVIOUS
  <2> HIDE DEF nodes, again, k, pc
  <2>3. run'.before = run.before /\ run'.pc \in {"done", "query"}
    BY <1>0, <2>1, <2>2 DEF Runs
  <2> QED
    BY <1>17, <1>19, <2>3 DEF RefreshStats
<1>20. CASE EnableAll
  BY <1>3, <1>20 DEF EnableAll, Fail
<1>21. ASSUME NEW n \in Node, StartRun(n) PROVE BatchInv'
  <2>1. /\ agent[n].enabled # FALSE /\ UNCHANGED run
        /\ \A m \in Node : agent'[m].enabled = agent[m].enabled
        /\ Applying' \subseteq Applying \cup {n}
    BY <1>0, <1>21 DEF StartRun, AgentType, Applying
  <2>2. run.pc \in {"idle", "disable"} \/ (run.pc = "wait" /\ n \in run.batch)
    BY <1>0, <2>1 DEF BatchInv, Runs, RunPc
  <2>3. CASE run.pc = "wait" /\ n \in run.batch
    <3>1. Applying' \cup run.batch \subseteq Applying \cup run.batch
      BY <2>1, <2>3
    <3>2. PICK S \in SUBSET Node, T \in SUBSET Node :
             S = Applying' \cup run.batch /\ T = Applying \cup run.batch
      BY <1>0, <3>1
    <3>3. /\ Cardinality(S) <= Cardinality(T)
          /\ Cardinality(S) \in Nat /\ Cardinality(T) \in Nat
      BY <3>1, <3>2, Fewer
    <3>4. Cardinality(T) <= Concurrency
      BY <2>3, <3>2 DEF BatchInv
    <3>5. Cardinality(S) <= Concurrency
      BY <1>0, <3>3, <3>4
    <3> QED
      BY <2>1, <2>3, <3>2, <3>5 DEF BatchInv
  <2> QED
    BY <1>2, <2>1, <2>2, <2>3
<1>22. ASSUME NEW n \in Node, EndRun(n) PROVE BatchInv'
  <2>1. /\ UNCHANGED run
        /\ \A m \in Node : agent'[m].enabled = agent[m].enabled
        /\ Applying' \subseteq Applying
    BY <1>0, <1>22 DEF EndRun, AgentType, Applying
  <2>2. PICK S \in SUBSET Node, T \in SUBSET Node : S = Applying' /\ T = Applying
    BY <1>0, <2>1
  <2>3. /\ Cardinality(S) <= Cardinality(T)
        /\ Cardinality(S) \in Nat /\ Cardinality(T) \in Nat
    BY <2>1, <2>2, Fewer
  <2>4. /\ Cardinality(S \cup run.batch) <= Cardinality(T \cup run.batch)
        /\ Cardinality(S \cup run.batch) \in Nat /\ Cardinality(T \cup run.batch) \in Nat
    <3>1. S \cup run.batch \subseteq T \cup run.batch
      BY <2>1, <2>2
    <3> QED
      BY <1>0, <3>1, Fewer
  <2>5. Cardinality(T) <= Concurrency => Cardinality(S) <= Concurrency
    BY <1>0, <2>3
  <2>6. Cardinality(T \cup run.batch) <= Concurrency => Cardinality(S \cup run.batch) <= Concurrency
    BY <1>0, <2>4
  <2> QED
    BY <2>1, <2>2, <2>5, <2>6 DEF BatchInv
<1> QED
  BY <1>4, <1>5, <1>6, <1>7, <1>8, <1>9, <1>10, <1>11, <1>13, <1>14, <1>15, <1>16,
     <1>18, <1>19, <1>20, <1>21, <1>22 DEF Next, Importer

(* PuppetCatalogRunProcessor: if the commands that disable and enable Puppet reach the
   nodes, trigger_and_wait never lets more than PUPPET_CONCURRENCY nodes apply a
   catalog, apart from runs that had begun before it, for any number of nodes,
   although the agents start and end runs between its question who is applying and
   its commands. *)
THEOREM ConcurrencyIsKept ==
    ASSUME "lost" \notin Faults
    PROVE  Spec => []ConcurrencyKept
<1>1. Init => BatchInv
  BY DEF Init, BatchInv, NoRun
<1>2. OwnedInv /\ BatchInv => ConcurrencyKept
  <2> SUFFICES ASSUME OwnedInv, BatchInv, run.pc \notin {"idle", "disable"}
               PROVE  Cardinality(Applying) <= Concurrency \/ Applying \subseteq run.before
    BY DEF ConcurrencyKept
  <2>1. /\ run.pc \in RunPc /\ run.batch \subseteq Node /\ Concurrency \in Nat
        /\ Applying \subseteq Node
    BY ImportAssumption DEF OwnedInv, RunType, Runs, Applying
  <2>2. /\ Cardinality(Applying) <= Cardinality(Applying \cup run.batch)
        /\ Cardinality(Applying) \in Nat /\ Cardinality(Applying \cup run.batch) \in Nat
    BY <2>1, Fewer
  <2>3. CASE run.pc \in {"enable", "wait"}
    <3>1. Cardinality(Applying \cup run.batch) <= Concurrency
      BY <2>3 DEF BatchInv
    <3> QED
      BY <2>1, <2>2, <3>1
  <2>4. CASE run.pc \in {"query", "check", "stats", "done", "error"}
    BY <2>4 DEF BatchInv
  <2> QED
    BY <2>1, <2>3, <2>4 DEF RunPc
<1>3. OwnedInv /\ BatchInv /\ [Next]_vars => BatchInv'
  BY BatchStep
<1> QED
  BY <1>1, <1>2, <1>3, InitOwned, NextOwned, PTL DEF Spec

-----------------------------------------------------------------------------
(* The actions of an import *)

Verbs == {"VERIFY_SOURCE", "RSYNC_IMAGES", "GENERATE_CHECKSUM", "VERIFY_CHECKSUM",
          "DISABLE_PUPPET", "RSYNC_RPMS", "CREATE_REPO", "CLEAN_YUM_CACHE", "INSTALL_RPMS",
          "ENABLE_PUPPET"}

(* The order of the verbs in an import: no action comes after one of a higher rank. *)
Rank(v) ==
    CASE v = "VERIFY_SOURCE" -> 1
      [] v = "RSYNC_IMAGES" -> 2
      [] v = "GENERATE_CHECKSUM" -> 3
      [] v = "VERIFY_CHECKSUM" -> 4
      [] v = "DISABLE_PUPPET" -> 5
      [] v = "RSYNC_RPMS" -> 6
      [] v = "CREATE_REPO" -> 6
      [] v = "CLEAN_YUM_CACHE" -> 7
      [] v = "INSTALL_RPMS" -> 8
      [] v = "ENABLE_PUPPET" -> 9

LEMMA Ranks ==
    /\ Rank("VERIFY_SOURCE") = 1 /\ Rank("RSYNC_IMAGES") = 2 /\ Rank("GENERATE_CHECKSUM") = 3
    /\ Rank("VERIFY_CHECKSUM") = 4 /\ Rank("DISABLE_PUPPET") = 5
    /\ Rank("RSYNC_RPMS") = 6 /\ Rank("CREATE_REPO") = 6 /\ Rank("CLEAN_YUM_CACHE") = 7
    /\ Rank("INSTALL_RPMS") = 8 /\ Rank("ENABLE_PUPPET") = 9
BY DEF Rank

LEMMA RankType == \A v \in Verbs : Rank(v) \in Int
BY Ranks DEF Verbs

Images(i) == WithMd5(i) \cup WithoutMd5(i)
Updated(i) == {Repository(s) : s \in Found(i)}
Jobs(i) == [verb : Verbs, on : {"all"} \cup Pictures(i) \cup Repo]

Elems(s) == {s[k] : k \in 1 .. Len(s)}

(* Sorted by rank, and the index of a repository is made at once when packages have been
   copied into it. *)
Ordered(s) ==
    /\ \A j, k \in 1 .. Len(s) : j <= k => Rank(s[j].verb) <= Rank(s[k].verb)
    /\ \A j \in 1 .. Len(s) : s[j].verb = "RSYNC_RPMS" =>
          j + 1 \in 1 .. Len(s) /\ s[j + 1] = Action("CREATE_REPO", s[j].on)

(* A part of an import, with actions of ranks between two *)
Stretch(s, J, lo, hi) ==
    /\ s \in Seq(J) /\ Ordered(s)
    /\ \A x \in Elems(s) : lo <= Rank(x.verb) /\ Rank(x.verb) <= hi

LEMMA JoinedElems ==
    ASSUME NEW J, NEW s \in Seq(J), NEW t \in Seq(J)
    PROVE  Elems(s \o t) = Elems(s) \cup Elems(t)
<1>1. /\ s \o t \in Seq(J) /\ Len(s \o t) = Len(s) + Len(t)
      /\ Len(s) \in Nat /\ Len(t) \in Nat
  OBVIOUS
<1>2. \A k \in 1 .. Len(s) : k \in 1 .. Len(s \o t) /\ (s \o t)[k] = s[k]
  BY <1>1
<1>3. \A k \in 1 .. Len(t) : /\ Len(s) + k \in 1 .. Len(s \o t)
                             /\ (s \o t)[Len(s) + k] = t[k]
  BY <1>1
<1>4. \A k \in 1 .. Len(s \o t) : k \in 1 .. Len(s) \/ (k - Len(s) \in 1 .. Len(t)
                                                       /\ (s \o t)[k] = t[k - Len(s)])
  BY <1>1
<1>5. Elems(s) \subseteq Elems(s \o t)
  BY <1>2 DEF Elems
<1>6. Elems(t) \subseteq Elems(s \o t)
  BY <1>3 DEF Elems
<1>7. Elems(s \o t) \subseteq Elems(s) \cup Elems(t)
  BY <1>2, <1>4 DEF Elems
<1> QED
  BY <1>5, <1>6, <1>7

LEMMA Joined ==
    ASSUME NEW J, \A x \in J : x.verb \in Verbs,
           NEW lo \in Int, NEW mid \in Int, NEW from \in Int, NEW hi \in Int,
           mid <= from, lo <= from, mid <= hi,
           NEW s, NEW t, Stretch(s, J, lo, mid), Stretch(t, J, from, hi)
    PROVE  Stretch(s \o t, J, lo, hi) /\ Elems(s \o t) = Elems(s) \cup Elems(t)
<1> DEFINE u == s \o t
<1>1. /\ s \in Seq(J) /\ t \in Seq(J) /\ u \in Seq(J) /\ Len(u) = Len(s) + Len(t)
      /\ Len(s) \in Nat /\ Len(t) \in Nat /\ Len(u) \in Nat
  BY DEF Stretch
<1>2. \A k \in 1 .. Len(s) : s[k] \in Elems(s) /\ s[k] \in J /\ u[k] = s[k]
  BY <1>1 DEF Elems
<1>3. \A k \in 1 .. Len(t) : t[k] \in Elems(t) /\ t[k] \in J /\ u[Len(s) + k] = t[k]
  BY <1>1 DEF Elems
<1>4. \A k \in 1 .. Len(u) : k \in 1 .. Len(s) \/ (k - Len(s) \in 1 .. Len(t)
                                                  /\ u[k] = t[k - Len(s)])
  BY <1>1
<1>5. Elems(u) = Elems(s) \cup Elems(t)
  BY <1>1, JoinedElems
<1>6. \A x \in Elems(s) \cup Elems(t) : x \in J /\ Rank(x.verb) \in Int
  BY <1>1, RankType DEF Elems
<1>7. \A x \in Elems(u) : lo <= Rank(x.verb) /\ Rank(x.verb) <= hi
  <2>1. \A x \in Elems(s) : lo <= Rank(x.verb) /\ Rank(x.verb) <= mid
    BY DEF Stretch
  <2>2. \A x \in Elems(t) : from <= Rank(x.verb) /\ Rank(x.verb) <= hi
    BY DEF Stretch
  <2> QED
    BY <1>5, <1>6, <2>1, <2>2
<1> HIDE DEF u
<1>8. ASSUME NEW j \in 1 .. Len(u), NEW k \in 1 .. Len(u), j <= k
      PROVE  Rank(u[j].verb) <= Rank(u[k].verb)
  <2>1. CASE k \in 1 .. Len(s)
    <3>1. j \in 1 .. Len(s)
      BY <1>1, <1>8, <2>1
    <3>2. Rank(s[j].verb) <= Rank(s[k].verb)
      BY <1>8, <2>1, <3>1 DEF Stretch, Ordered
    <3> QED
      BY <1>2, <2>1, <3>1, <3>2
  <2>2. CASE j \in 1 .. Len(s) /\ k \notin 1 .. Len(s)
    <3>1. u[j] \in Elems(s) /\ u[k] \in Elems(t)
      BY <1>2, <1>3, <1>4, <2>2
    <3>2. Rank(u[j].verb) <= mid /\ from <= Rank(u[k].verb)
      BY <3>1 DEF Stretch
    <3>3. Rank(u[j].verb) \in Int /\ Rank(u[k].verb) \in Int
      BY <1>6, <3>1
    <3> QED
      BY <3>2, <3>3
  <2>3. CASE j \notin 1 .. Len(s)
    <3>1. /\ j - Len(s) \in 1 .. Len(t) /\ u[j] = t[j - Len(s)]
          /\ k - Len(s) \in 1 .. Len(t) /\ u[k] = t[k - Len(s)]
      BY <1>1, <1>4, <1>8, <2>3
    <3>2. j - Len(s) <= k - Len(s)
      BY <1>1, <1>8
    <3>3. Rank(t[j - Len(s)].verb) <= Rank(t[k - Len(s)].verb)
      BY <3>1, <3>2 DEF Stretch, Ordered
    <3> QED
      BY <3>1, <3>3
  <2> QED
    BY <2>1, <2>2, <2>3
<1>9. ASSUME NEW j \in 1 .. Len(u), u[j].verb = "RSYNC_RPMS"
      PROVE  j + 1 \in 1 .. Len(u) /\ u[j + 1] = Action("CREATE_REPO", u[j].on)
  <2>1. CASE j \in 1 .. Len(s)
    <3>1. j + 1 \in 1 .. Len(s) /\ s[j + 1] = Action("CREATE_REPO", s[j].on)
      BY <1>2, <1>9, <2>1 DEF Stretch, Ordered
    <3> QED
      BY <1>1, <1>2, <2>1, <3>1
  <2>2. CASE j \notin 1 .. Len(s)
    <3>1. PICK i \in 1 .. Len(t) : i = j - Len(s) /\ u[j] = t[i]
      BY <1>4, <2>2
    <3>2. i + 1 \in 1 .. Len(t) /\ t[i + 1] = Action("CREATE_REPO", t[i].on)
      BY <1>9, <3>1 DEF Stretch, Ordered
    <3>3. u[Len(s) + (i + 1)] = t[i + 1]
      BY <1>3, <3>2
    <3>4. j + 1 = Len(s) + (i + 1) /\ j + 1 \in 1 .. Len(u)
      BY <1>1, <3>1, <3>2
    <3> QED
      BY <3>1, <3>2, <3>3, <3>4
  <2> QED
    BY <2>1, <2>2
<1>10. Ordered(u)
  BY <1>8, <1>9 DEF Ordered
<1>11. Stretch(u, J, lo, hi)
  BY <1>1, <1>7, <1>10 DEF Stretch
<1> QED
  BY <1>5, <1>11 DEF u

(* What is left when the first action is done *)
LEMMA TailOrdered ==
    ASSUME NEW J, \A x \in J : x.verb \in Verbs, NEW s \in Seq(J), Ordered(s), Elems(s) # {}
    PROVE  /\ Tail(s) \in Seq(J) /\ Ordered(Tail(s))
           /\ Head(s) \in J
           /\ Elems(s) = {Head(s)} \cup Elems(Tail(s))
           /\ \A x \in Elems(s) : Rank(Head(s).verb) <= Rank(x.verb)
           /\ Head(s).verb = "RSYNC_RPMS" => Action("CREATE_REPO", Head(s).on) \in Elems(Tail(s))
<1> DEFINE t == Tail(s)
<1>1. s # << >> /\ Len(s) \in Nat /\ Len(s) >= 1 /\ Head(s) = s[1]
  BY DEF Elems
<1>2. /\ t \in Seq(J) /\ Len(t) = Len(s) - 1
      /\ \A k \in 1 .. Len(t) : k + 1 \in 1 .. Len(s) /\ t[k] = s[k + 1]
  BY <1>1
<1>3. \A k \in 1 .. Len(s) : s[k] \in J /\ (k = 1 \/ (k - 1 \in 1 .. Len(t) /\ t[k - 1] = s[k]))
  BY <1>1, <1>2
<1> HIDE DEF t
<1>4. Elems(s) = {Head(s)} \cup Elems(t)
  <2>1. Elems(t) \subseteq Elems(s)
    BY <1>2 DEF Elems
  <2>2. Head(s) \in Elems(s)
    BY <1>1 DEF Elems
  <2>3. Elems(s) \subseteq {Head(s)} \cup Elems(t)
    BY <1>1, <1>3 DEF Elems
  <2> QED
    BY <2>1, <2>2, <2>3
<1>5. Ordered(t)
  <2>1. ASSUME NEW j \in 1 .. Len(t), NEW k \in 1 .. Len(t), j <= k
        PROVE  Rank(t[j].verb) <= Rank(t[k].verb)
    <3>1. j + 1 \in 1 .. Len(s) /\ k + 1 \in 1 .. Len(s) /\ j + 1 <= k + 1
      BY <1>1, <1>2, <2>1
    <3>2. Rank(s[j + 1].verb) <= Rank(s[k + 1].verb)
      BY <3>1 DEF Ordered
    <3> QED
      BY <1>2, <3>2
  <2>2. ASSUME NEW j \in 1 .. Len(t), t[j].verb = "RSYNC_RPMS"
        PROVE  j + 1 \in 1 .. Len(t) /\ t[j + 1] = Action("CREATE_REPO", t[j].on)
    <3>1. j + 1 \in 1 .. Len(s) /\ s[j + 1] = t[j]
      BY <1>2
    <3>2. PICK i \in 1 .. Len(s) : i = j + 1
      BY <3>1
    <3>3. i + 1 \in 1 .. Len(s) /\ s[i + 1] = Action("CREATE_REPO", t[j].on)
      BY <2>2, <3>1, <3>2 DEF Ordered
    <3>4. j + 1 \in 1 .. Len(t)
      BY <1>1, <1>2, <3>2, <3>3
    <3> QED
      BY <1>2, <3>2, <3>3, <3>4
  <2> QED
    BY <2>1, <2>2 DEF Ordered
<1>6. \A x \in Elems(s) : Rank(Head(s).verb) <= Rank(x.verb)
  <2>1. \A k \in 1 .. Len(s) : Rank(s[1].verb) <= Rank(s[k].verb)
    BY <1>1 DEF Ordered
  <2> QED
    BY <1>1, <2>1 DEF Elems
<1>7. ASSUME Head(s).verb = "RSYNC_RPMS"
      PROVE  Action("CREATE_REPO", Head(s).on) \in Elems(t)
  <2>1. 1 + 1 \in 1 .. Len(s) /\ s[1 + 1] = Action("CREATE_REPO", Head(s).on)
    BY <1>1, <1>7 DEF Ordered
  <2>2. 1 \in 1 .. Len(t) /\ t[1] = s[1 + 1]
    BY <1>1, <1>2, <2>1
  <2> QED
    BY <2>1, <2>2 DEF Elems
<1> QED
  BY <1>1, <1>2, <1>3, <1>4, <1>5, <1>6, <1>7 DEF t

LEMMA Numbered ==
    ASSUME NEW S, IsFiniteSet(S)
    PROVE  /\ Cardinality(S) \in Nat
           /\ SetToSeq(S) \in [1 .. Cardinality(S) -> S]
           /\ \A x \in S : \E k \in 1 .. Cardinality(S) : SetToSeq(S)[k] = x
<1> DEFINE D == 1 .. Cardinality(S)
<1>1. Cardinality(S) \in Nat /\ ExistsBijection(D, S)
  BY FS_CardinalityType
<1>2. \E f \in [D -> S] : IsInjective(f)
  BY <1>1 DEF ExistsBijection, Bijection, Injection
<1>3. SetToSeq(S) \in [D -> S] /\ IsInjective(SetToSeq(S))
  BY <1>2 DEF SetToSeq
<1>4. SetToSeq(S) \in Injection(D, S)
  BY <1>3 DEF Injection
<1>5. Cardinality(D) = Cardinality(S)
  BY <1>1, FS_Interval
<1>6. SetToSeq(S) \in Surjection(D, S)
  BY <1>4, <1>5, FS_Injection
<1> QED
  BY <1>1, <1>3, <1>6 DEF Surjection

LEMMA JobVerbs == \A i \in Isos : \A x \in Jobs(i) : x.verb \in Verbs
BY DEF Jobs

LEMMA NoAction ==
    ASSUME NEW J, NEW lo, NEW hi
    PROVE  Stretch(<<>>, J, lo, hi) /\ Elems(<<>>) = {}
<1>1. <<>> \in Seq(J) /\ Len(<<>>) = 0 /\ 1 .. 0 = {}
  OBVIOUS
<1> QED
  BY <1>1 DEF Stretch, Ordered, Elems

LEMMA OneAction ==
    ASSUME NEW i \in Isos, NEW v \in Verbs \ {"RSYNC_RPMS"}
    PROVE  /\ Stretch(<<Action(v, "all")>>, Jobs(i), Rank(v), Rank(v))
           /\ Elems(<<Action(v, "all")>>) = {Action(v, "all")}
<1> DEFINE a == Action(v, "all")
           s == <<a>>
<1>1. a \in Jobs(i) /\ a.verb = v
  BY DEF Action, Jobs
<1> HIDE DEF a
<1>2. s \in Seq(Jobs(i)) /\ Len(s) = 1 /\ s[1] = a
  BY <1>1
<1>3. \A k \in 1 .. Len(s) : k = 1
  BY <1>2
<1>4. Elems(s) = {a}
  BY <1>2, <1>3 DEF Elems
<1>5. Rank(v) \in Int
  BY RankType
<1>6. Ordered(s)
  BY <1>1, <1>2, <1>3, <1>5 DEF Ordered
<1>7. Stretch(s, Jobs(i), Rank(v), Rank(v))
  BY <1>1, <1>2, <1>4, <1>5, <1>6 DEF Stretch
<1> QED
  BY <1>4, <1>7 DEF a

LEMMA VerbActions ==
    ASSUME NEW i \in Isos, NEW v \in Verbs \ {"RSYNC_RPMS"}, NEW S \in SUBSET Pictures(i)
    PROVE  /\ Stretch(Verb(v, S), Jobs(i), Rank(v), Rank(v))
           /\ Elems(Verb(v, S)) = {Action(v, x) : x \in S}
<1> DEFINE s == Verb(v, S)
           n == Cardinality(S)
<1>1. IsFiniteSet(S)
  BY NamesAssumption, FS_Subset
<1>2. /\ n \in Nat /\ SetToSeq(S) \in [1 .. n -> S]
      /\ \A x \in S : \E k \in 1 .. n : SetToSeq(S)[k] = x
  BY <1>1, Numbered
<1>3. \A x \in S : Action(v, x) \in Jobs(i) /\ Action(v, x).verb = v
  BY DEF Action, Jobs
<1>4. s = [k \in 1 .. n |-> Action(v, SetToSeq(S)[k])]
  BY DEF Verb
<1> HIDE DEF s, n
<1>5. \A k \in 1 .. n : s[k] = Action(v, SetToSeq(S)[k]) /\ SetToSeq(S)[k] \in S
  BY <1>2, <1>4
<1>6. s \in [1 .. n -> Jobs(i)]
  BY <1>3, <1>4, <1>5
<1>7. s \in Seq(Jobs(i)) /\ Len(s) = n
  BY <1>2, <1>6
<1>8. Elems(s) = {Action(v, x) : x \in S}
  BY <1>2, <1>5, <1>7 DEF Elems
<1>9. Rank(v) \in Int
  BY RankType
<1>10. \A k \in 1 .. Len(s) : s[k].verb = v
  BY <1>3, <1>5, <1>7
<1>11. Ordered(s)
  BY <1>9, <1>10 DEF Ordered
<1>12. \A x \in Elems(s) : x.verb = v
  BY <1>3, <1>8
<1>13. Stretch(s, Jobs(i), Rank(v), Rank(v))
  BY <1>7, <1>9, <1>11, <1>12 DEF Stretch
<1> QED
  BY <1>8, <1>13 DEF s

LEMMA TwoActions ==
    ASSUME NEW J, \A x \in J : x.verb \in Verbs, NEW a \in J, NEW b \in J,
           Rank(a.verb) <= Rank(b.verb), b.verb # "RSYNC_RPMS",
           a.verb = "RSYNC_RPMS" => b = Action("CREATE_REPO", a.on)
    PROVE  Stretch(<<a, b>>, J, Rank(a.verb), Rank(b.verb)) /\ Elems(<<a, b>>) = {a, b}
<1> DEFINE t == <<a, b>>
<1>1. t \in Seq(J) /\ Len(t) = 2 /\ t[1] = a /\ t[2] = b
  OBVIOUS
<1> HIDE DEF t
<1>2. \A k \in 1 .. Len(t) : k = 1 \/ k = 2
  BY <1>1
<1>3. 1 \in 1 .. Len(t) /\ 2 \in 1 .. Len(t) /\ 1 + 1 = 2
  BY <1>1
<1>4. Elems(t) = {a, b}
  BY <1>1, <1>2, <1>3 DEF Elems
<1>5. Rank(a.verb) \in Int /\ Rank(b.verb) \in Int
  BY RankType
<1>6. ASSUME NEW j \in 1 .. Len(t), NEW k \in 1 .. Len(t), j <= k
      PROVE  Rank(t[j].verb) <= Rank(t[k].verb)
  <2>1. j = k \/ (j = 1 /\ k = 2)
    BY <1>2, <1>6
  <2> QED
    BY <1>1, <1>2, <1>5, <2>1
<1>7. ASSUME NEW j \in 1 .. Len(t), t[j].verb = "RSYNC_RPMS"
      PROVE  j + 1 \in 1 .. Len(t) /\ t[j + 1] = Action("CREATE_REPO", t[j].on)
  <2>1. j = 1
    BY <1>1, <1>2, <1>7
  <2> QED
    BY <1>1, <1>3, <1>7, <2>1
<1>8. Ordered(t)
  BY <1>6, <1>7 DEF Ordered
<1>9. Stretch(t, J, Rank(a.verb), Rank(b.verb))
  BY <1>1, <1>4, <1>5, <1>8 DEF Stretch
<1> QED
  BY <1>4, <1>9 DEF t

(* The packages of a directory: copied, and the index made *)
RepoElems(i, s) ==
    IF s \in Found(i) THEN {Action("RSYNC_RPMS", Repository(s)), Action("CREATE_REPO", Repository(s))}
    ELSE {}

LEMMA RepoStretch ==
    ASSUME NEW i \in Isos, NEW s \in Source
    PROVE  Stretch(RepoActions(i, s), Jobs(i), 6, 6) /\ Elems(RepoActions(i, s)) = RepoElems(i, s)
<1>1. CASE s \notin Found(i)
  BY <1>1, NoAction DEF RepoActions, RepoElems
<1>2. CASE s \in Found(i)
  <2> DEFINE r == Repository(s)
             a == Action("RSYNC_RPMS", r)
             b == Action("CREATE_REPO", r)
  <2>1. r \in Repo
    BY DEF Repo
  <2> HIDE DEF r
  <2>2. /\ a \in Jobs(i) /\ b \in Jobs(i)
        /\ a.verb = "RSYNC_RPMS" /\ a.on = r /\ b.verb = "CREATE_REPO"
    BY <2>1 DEF Action, Jobs, Verbs
  <2>3. b = Action("CREATE_REPO", r)
    OBVIOUS
  <2>4. RepoActions(i, s) = <<a, b>> /\ RepoElems(i, s) = {a, b}
    BY <1>2 DEF RepoActions, RepoElems, r
  <2> HIDE DEF a, b
  <2>5. Rank(a.verb) = 6 /\ Rank(b.verb) = 6
    BY <2>2, Ranks
  <2>6. Stretch(<<a, b>>, Jobs(i), Rank(a.verb), Rank(b.verb)) /\ Elems(<<a, b>>) = {a, b}
    BY <2>2, <2>3, <2>5, JobVerbs, TwoActions
  <2> QED
    BY <2>4, <2>5, <2>6
<1> QED
  BY <1>1, <1>2

Has(s, verb) == \E a \in Elems(s) : a.verb = verb

(* What is to be done is in order: packages are copied into repositories of the ISO only,
   an index is followed by cleaning the yum caches, and after the images have been copied
   each of them is verified. *)
InOrder(s, i) ==
    /\ s \in Seq(Jobs(i)) /\ Ordered(s)
    /\ Has(s, "ENABLE_PUPPET")
    /\ \A a \in Elems(s) : a.verb \in {"RSYNC_RPMS", "CREATE_REPO"} => a.on \in Updated(i)
    /\ Has(s, "CREATE_REPO") => Has(s, "CLEAN_YUM_CACHE")
    /\ Has(s, "RSYNC_IMAGES") => \A x \in Images(i) : Action("VERIFY_CHECKSUM", x) \in Elems(s)

(* A whole import: nothing has been done yet. *)
Whole(s, i) ==
    /\ Has(s, "DISABLE_PUPPET")
    /\ \A x \in Images(i) : Action("VERIFY_CHECKSUM", x) \in Elems(s)
    /\ \A r \in Updated(i) : Action("CREATE_REPO", r) \in Elems(s)
    /\ Updated(i) # {} => Has(s, "CLEAN_YUM_CACHE")

Upward(lo, mid, from, hi) ==
    /\ lo \in Int /\ mid \in Int /\ from \in Int /\ hi \in Int
    /\ lo <= mid /\ mid <= from /\ from <= hi

Then(s, t) == s \o t

LEMMA JoinedJobs ==
    ASSUME NEW i \in Isos, NEW s, NEW t, NEW lo, NEW mid, NEW from, NEW hi,
           Stretch(s, Jobs(i), lo, mid), Stretch(t, Jobs(i), from, hi), Upward(lo, mid, from, hi)
    PROVE  /\ Stretch(Then(s, t), Jobs(i), lo, hi)
           /\ Elems(Then(s, t)) = Elems(s) \cup Elems(t)
<1>1. \A x \in Jobs(i) : x.verb \in Verbs
  BY JobVerbs
<1>2. /\ lo \in Int /\ mid \in Int /\ from \in Int /\ hi \in Int
      /\ mid <= from /\ lo <= from /\ mid <= hi
  BY DEF Upward
<1>3. /\ Stretch(s \o t, Jobs(i), lo, hi)
      /\ Elems(s \o t) = Elems(s) \cup Elems(t)
  BY <1>1, <1>2, Joined
<1> QED
  BY <1>3 DEF Then

LEMMA ImagesStretch ==
    ASSUME NEW i \in Isos
    PROVE  /\ Stretch(ImageActions(i), Jobs(i), 1, 4)
           /\ \A x \in Images(i) : Action("VERIFY_CHECKSUM", x) \in Elems(ImageActions(i))
           /\ \A a \in Elems(ImageActions(i)) :
                 a.verb \in {"VERIFY_SOURCE", "RSYNC_IMAGES", "GENERATE_CHECKSUM", "VERIFY_CHECKSUM"}
<1> DEFINE A == Verb("VERIFY_SOURCE", WithMd5(i))
           B == RsyncImages(i)
           C == Verb("GENERATE_CHECKSUM", WithoutMd5(i))
           D == Verb("VERIFY_CHECKSUM", WithMd5(i))
           E == Verb("VERIFY_CHECKSUM", WithoutMd5(i))
           AB == Then(A, B)
           ABC == Then(AB, C)
           ABCD == Then(ABC, D)
           ABCDE == Then(ABCD, E)
<1>0. /\ WithMd5(i) \in SUBSET Pictures(i) /\ WithoutMd5(i) \in SUBSET Pictures(i)
  BY DEF WithMd5, WithoutMd5
<1>1. /\ "VERIFY_SOURCE" \in Verbs \ {"RSYNC_RPMS"} /\ "RSYNC_IMAGES" \in Verbs \ {"RSYNC_RPMS"}
      /\ "GENERATE_CHECKSUM" \in Verbs \ {"RSYNC_RPMS"} /\ "VERIFY_CHECKSUM" \in Verbs \ {"RSYNC_RPMS"}
  BY DEF Verbs
<1>2. Stretch(A, Jobs(i), 1, 1) /\ Elems(A) = {Action("VERIFY_SOURCE", x) : x \in WithMd5(i)}
  BY <1>0, <1>1, VerbActions, Ranks
<1>3. Stretch(B, Jobs(i), 2, 2) /\ Elems(B) \subseteq {Action("RSYNC_IMAGES", "all")}
  <2>1. CASE i.images = "absent"
    BY <2>1, NoAction DEF RsyncImages
  <2>2. CASE i.images # "absent"
    BY <1>1, <2>2, OneAction, Ranks DEF RsyncImages
  <2> QED
    BY <2>1, <2>2
<1>4. Stretch(C, Jobs(i), 3, 3) /\ Elems(C) = {Action("GENERATE_CHECKSUM", x) : x \in WithoutMd5(i)}
  BY <1>0, <1>1, VerbActions, Ranks
<1>5. Stretch(D, Jobs(i), 4, 4) /\ Elems(D) = {Action("VERIFY_CHECKSUM", x) : x \in WithMd5(i)}
  BY <1>0, <1>1, VerbActions, Ranks
<1>6. Stretch(E, Jobs(i), 4, 4) /\ Elems(E) = {Action("VERIFY_CHECKSUM", x) : x \in WithoutMd5(i)}
  BY <1>0, <1>1, VerbActions, Ranks
<1>7. ImageActions(i) = ABCDE
  BY DEF ImageActions, Then
<1>8. \A v, x : Action(v, x).verb = v
  BY DEF Action
<1>u. /\ Upward(1, 1, 2, 2)
      /\ Upward(1, 2, 3, 3)
      /\ Upward(1, 3, 4, 4)
      /\ Upward(1, 4, 4, 4)
  BY DEF Upward
<1> HIDE DEF A, B, C, D, E
<1>9. Stretch(AB, Jobs(i), 1, 2) /\ Elems(AB) = Elems(A) \cup Elems(B)
  BY <1>2, <1>3, <1>u, JoinedJobs
<1> HIDE DEF AB
<1>10. /\ Stretch(ABC, Jobs(i), 1, 3)
       /\ Elems(ABC) = Elems(AB) \cup Elems(C)
  BY <1>4, <1>9, <1>u, JoinedJobs
<1> HIDE DEF ABC
<1>11. /\ Stretch(ABCD, Jobs(i), 1, 4)
       /\ Elems(ABCD) = Elems(ABC) \cup Elems(D)
  BY <1>5, <1>10, <1>u, JoinedJobs
<1> HIDE DEF ABCD
<1>12. /\ Stretch(ABCDE, Jobs(i), 1, 4)
       /\ Elems(ABCDE) = Elems(ABCD) \cup Elems(E)
  BY <1>6, <1>11, <1>u, JoinedJobs
<1>13. Elems(ImageActions(i)) = Elems(A) \cup Elems(B) \cup Elems(C) \cup Elems(D) \cup Elems(E)
  BY <1>7, <1>9, <1>10, <1>11, <1>12
<1>14. \A x \in Images(i) : Action("VERIFY_CHECKSUM", x) \in Elems(D) \cup Elems(E)
  BY <1>5, <1>6 DEF Images
<1>15. \A a \in Elems(ImageActions(i)) :
          a.verb \in {"VERIFY_SOURCE", "RSYNC_IMAGES", "GENERATE_CHECKSUM", "VERIFY_CHECKSUM"}
  BY <1>2, <1>3, <1>4, <1>5, <1>6, <1>8, <1>13
<1> QED
  BY <1>7, <1>12, <1>13, <1>14, <1>15

LEMMA YumStretch ==
    ASSUME NEW i \in Isos
    PROVE  /\ Stretch(YumActions(i), Jobs(i), 6, 7)
           /\ \A r \in Updated(i) : Action("CREATE_REPO", r) \in Elems(YumActions(i))
           /\ Updated(i) # {} => Has(YumActions(i), "CLEAN_YUM_CACHE")
           /\ \A a \in Elems(YumActions(i)) :
                 \/ a.verb \in {"RSYNC_RPMS", "CREATE_REPO"} /\ a.on \in Updated(i)
                 \/ a.verb = "CLEAN_YUM_CACHE"
<1> DEFINE A == RepoActions(i, "plugins")
           B == RepoActions(i, "3pp")
           C == RepoActions(i, "plugins/child")
           D == RepoActions(i, "repos/child")
           E == RepoActions(i, "repos/child/grandchild")
           F == CleanYumCache(i)
           AB == Then(A, B)
           ABC == Then(AB, C)
           ABCD == Then(ABC, D)
           ABCDE == Then(ABCD, E)
<1>1. Stretch(A, Jobs(i), 6, 6) /\ Elems(A) = RepoElems(i, "plugins")
  BY RepoStretch DEF Source
<1>2. Stretch(B, Jobs(i), 6, 6) /\ Elems(B) = RepoElems(i, "3pp")
  BY RepoStretch DEF Source
<1>3. Stretch(C, Jobs(i), 6, 6) /\ Elems(C) = RepoElems(i, "plugins/child")
  BY RepoStretch DEF Source
<1>4. Stretch(D, Jobs(i), 6, 6) /\ Elems(D) = RepoElems(i, "repos/child")
  BY RepoStretch DEF Source
<1>5. Stretch(E, Jobs(i), 6, 6) /\ Elems(E) = RepoElems(i, "repos/child/grandchild")
  BY RepoStretch DEF Source
<1>6. /\ Stretch(F, Jobs(i), 7, 7)
      /\ Elems(F) = IF Found(i) = {} THEN {} ELSE {Action("CLEAN_YUM_CACHE", "all")}
  <2>1. CASE Found(i) = {}
    BY <2>1, NoAction DEF CleanYumCache
  <2>2. CASE Found(i) # {}
    <3>1. "CLEAN_YUM_CACHE" \in Verbs \ {"RSYNC_RPMS"}
      BY DEF Verbs
    <3> QED
      BY <2>2, <3>1, OneAction, Ranks DEF CleanYumCache
  <2> QED
    BY <2>1, <2>2
<1>7. YumActions(i) = Then(ABCDE, F)
  BY DEF YumActions, Then
<1>8. \A v, x : Action(v, x).verb = v /\ Action(v, x).on = x
  BY DEF Action
<1>u. /\ Upward(6, 6, 6, 6)
      /\ Upward(6, 6, 7, 7)
  BY DEF Upward
<1> HIDE DEF A, B, C, D, E, F
<1>9. Stretch(AB, Jobs(i), 6, 6) /\ Elems(AB) = Elems(A) \cup Elems(B)
  BY <1>1, <1>2, <1>u, JoinedJobs
<1> HIDE DEF AB
<1>10. /\ Stretch(ABC, Jobs(i), 6, 6)
       /\ Elems(ABC) = Elems(AB) \cup Elems(C)
  BY <1>3, <1>9, <1>u, JoinedJobs
<1> HIDE DEF ABC
<1>11. /\ Stretch(ABCD, Jobs(i), 6, 6)
       /\ Elems(ABCD) = Elems(ABC) \cup Elems(D)
  BY <1>4, <1>10, <1>u, JoinedJobs
<1> HIDE DEF ABCD
<1>12. /\ Stretch(ABCDE, Jobs(i), 6, 6)
       /\ Elems(ABCDE) = Elems(ABCD) \cup Elems(E)
  BY <1>5, <1>11, <1>u, JoinedJobs
<1>13. /\ Stretch(YumActions(i), Jobs(i), 6, 7)
       /\ Elems(YumActions(i)) = Elems(ABCDE) \cup Elems(F)
  BY <1>6, <1>7, <1>12, <1>u, JoinedJobs
<1>14. /\ \A s \in Source : RepoElems(i, s) \subseteq Elems(YumActions(i))
       /\ \A a \in Elems(YumActions(i)) : a \in Elems(F) \/ \E s \in Source : a \in RepoElems(i, s)
  BY <1>1, <1>2, <1>3, <1>4, <1>5, <1>9, <1>10, <1>11, <1>12, <1>13 DEF Source
<1>15. Found(i) \subseteq Source
  BY DEF Found
<1>16. ASSUME NEW r \in Updated(i) PROVE Action("CREATE_REPO", r) \in Elems(YumActions(i))
  <2>1. PICK s \in Found(i) : r = Repository(s)
    BY <1>16 DEF Updated
  <2>2. Action("CREATE_REPO", r) \in RepoElems(i, s)
    BY <2>1 DEF RepoElems
  <2> QED
    BY <1>14, <1>15, <2>1, <2>2
<1>17. ASSUME Updated(i) # {} PROVE Has(YumActions(i), "CLEAN_YUM_CACHE")
  <2>1. Found(i) # {}
    BY <1>17 DEF Updated
  <2>2. Action("CLEAN_YUM_CACHE", "all") \in Elems(YumActions(i))
    BY <1>6, <1>13, <2>1
  <2> QED
    BY <1>8, <2>2 DEF Has
<1>18. ASSUME NEW a \in Elems(YumActions(i))
       PROVE  \/ a.verb \in {"RSYNC_RPMS", "CREATE_REPO"} /\ a.on \in Updated(i)
              \/ a.verb = "CLEAN_YUM_CACHE"
  <2>1. CASE a \in Elems(F)
    BY <1>6, <1>8, <2>1
  <2>2. CASE \E s \in Source : a \in RepoElems(i, s)
    <3>1. PICK s \in Source : a \in RepoElems(i, s)
      BY <2>2
    <3>2. s \in Found(i) /\ Repository(s) \in Updated(i)
      BY <3>1 DEF RepoElems, Updated
    <3>3. a = Action("RSYNC_RPMS", Repository(s)) \/ a = Action("CREATE_REPO", Repository(s))
      BY <3>1, <3>2 DEF RepoElems
    <3> QED
      BY <1>8, <3>2, <3>3
  <2> QED
    BY <1>14, <2>1, <2>2
<1> QED
  BY <1>13, <1>16, <1>17, <1>18
(* IsoParser.get_actions *)
LEMMA ActionsInOrder ==
    ASSUME NEW i \in Isos
    PROVE  InOrder(IsoActions(i), i) /\ Whole(IsoActions(i), i)
<1> DEFINE A == ImageActions(i)
           off == Action("DISABLE_PUPPET", "all")
           Y == YumActions(i)
           install == Action("INSTALL_RPMS", "all")
           on == Action("ENABLE_PUPPET", "all")
           AO == Then(A, <<off>>)
           AOY == Then(AO, Y)
           s == IsoActions(i)
<1>1. /\ "DISABLE_PUPPET" \in Verbs \ {"RSYNC_RPMS"} /\ "INSTALL_RPMS" \in Verbs \ {"RSYNC_RPMS"}
      /\ "ENABLE_PUPPET" \in Verbs \ {"RSYNC_RPMS"}
  BY DEF Verbs
<1>2. Stretch(<<off>>, Jobs(i), 5, 5) /\ Elems(<<off>>) = {off}
  BY <1>1, OneAction, Ranks
<1>5. s = Then(AOY, <<install, on>>)
  BY DEF IsoActions, Then
<1>6. off.verb = "DISABLE_PUPPET" /\ install.verb = "INSTALL_RPMS" /\ on.verb = "ENABLE_PUPPET"
  BY DEF Action
<1>7. Stretch(A, Jobs(i), 1, 4)
  BY ImagesStretch
<1>8. Stretch(Y, Jobs(i), 6, 7)
  BY YumStretch
<1>u. /\ Upward(1, 4, 5, 5)
      /\ Upward(1, 5, 6, 7)
      /\ Upward(1, 7, 8, 9)
  BY DEF Upward
<1> HIDE DEF A, Y, off, install, on, s
<1>9. install \in Jobs(i) /\ on \in Jobs(i)
  BY <1>1 DEF install, on, Action, Jobs
<1> DEFINE L == <<install, on>>
           AOYL == Then(AOY, L)
<1>10. Stretch(L, Jobs(i), 8, 9) /\ Elems(L) = {install, on}
  <2>1. Rank(install.verb) = 8 /\ Rank(on.verb) = 9
    BY <1>6, Ranks
  <2>2. /\ Stretch(L, Jobs(i), Rank(install.verb), Rank(on.verb))
        /\ Elems(L) = {install, on}
    BY <1>6, <1>9, <2>1, JobVerbs, TwoActions
  <2> QED
    BY <2>1, <2>2
<1> HIDE DEF L
<1>11. Stretch(AO, Jobs(i), 1, 5) /\ Elems(AO) = Elems(A) \cup {off}
  BY <1>2, <1>7, <1>u, JoinedJobs
<1>12. /\ Stretch(AOY, Jobs(i), 1, 7)
       /\ Elems(AOY) = Elems(AO) \cup Elems(Y)
  BY <1>8, <1>11, <1>u, JoinedJobs
<1>13. /\ Stretch(AOYL, Jobs(i), 1, 9)
       /\ Elems(AOYL) = Elems(AOY) \cup Elems(L)
  BY <1>10, <1>12, <1>u, JoinedJobs
<1>14. s = AOYL
  BY <1>5 DEF L
<1>15. Elems(s) = Elems(A) \cup {off} \cup Elems(Y) \cup {install, on}
  BY <1>10, <1>11, <1>12, <1>13, <1>14
<1>16. s \in Seq(Jobs(i)) /\ Ordered(s)
  BY <1>13, <1>14 DEF Stretch
<1>17. \A x \in Images(i) : Action("VERIFY_CHECKSUM", x) \in Elems(s)
  BY <1>15, ImagesStretch DEF A
<1>18. /\ \A r \in Updated(i) : Action("CREATE_REPO", r) \in Elems(s)
       /\ Updated(i) # {} => Has(s, "CLEAN_YUM_CACHE")
  BY <1>15, YumStretch DEF Y, Has
<1>19. ASSUME NEW a \in Elems(s), a.verb \in {"RSYNC_RPMS", "CREATE_REPO"}
       PROVE  a.on \in Updated(i)
  <2>1. a \notin Elems(A) \cup {off, install, on}
    BY <1>6, <1>19, ImagesStretch DEF A
  <2>2. a \in Elems(Y)
    BY <1>15, <2>1
  <2> QED
    BY <1>19, <2>2, YumStretch DEF Y
<1>20. Has(s, "CREATE_REPO") => Has(s, "CLEAN_YUM_CACHE")
  BY <1>18, <1>19 DEF Has
<1>21. Has(s, "DISABLE_PUPPET") /\ Has(s, "ENABLE_PUPPET")
  BY <1>6, <1>15 DEF Has
<1> QED
  BY <1>16, <1>17, <1>18, <1>19, <1>20, <1>21 DEF InOrder, Whole, s

(* An action is taken off what is to be done. *)
LEMMA OneLess ==
    ASSUME NEW i \in Isos, NEW s, InOrder(s, i), Head(s).verb # "ENABLE_PUPPET"
    PROVE  /\ InOrder(Tail(s), i)
           /\ Head(s).verb \in Verbs
           /\ Elems(s) = {Head(s)} \cup Elems(Tail(s))
           /\ \A x \in Elems(s) : x.verb \in Verbs /\ Rank(Head(s).verb) <= Rank(x.verb)
           /\ Head(s).verb = "RSYNC_RPMS" => Action("CREATE_REPO", Head(s).on) \in Elems(Tail(s))
<1> DEFINE J == Jobs(i)
           t == Tail(s)
           h == Head(s)
<1>1. s \in Seq(J) /\ Ordered(s) /\ Elems(s) # {} /\ \A x \in J : x.verb \in Verbs
  BY JobVerbs DEF InOrder, Has
<1> HIDE DEF J
<1>2. /\ t \in Seq(J) /\ Ordered(t) /\ h \in J
      /\ Elems(s) = {h} \cup Elems(t)
      /\ \A x \in Elems(s) : Rank(h.verb) <= Rank(x.verb)
      /\ h.verb = "RSYNC_RPMS" => Action("CREATE_REPO", h.on) \in Elems(t)
  BY <1>1, TailOrdered
<1>3. \A x \in Elems(s) : x.verb \in Verbs
  BY <1>1 DEF Elems
<1> HIDE DEF t, h
<1>4. Has(t, "ENABLE_PUPPET")
  BY <1>2 DEF InOrder, Has, h
<1>5. \A a \in Elems(t) : a.verb \in {"RSYNC_RPMS", "CREATE_REPO"} => a.on \in Updated(i)
  BY <1>2 DEF InOrder
<1>6. Has(t, "CREATE_REPO") => Has(t, "CLEAN_YUM_CACHE")
  <2> SUFFICES ASSUME NEW a \in Elems(t), a.verb = "CREATE_REPO"
               PROVE  Has(t, "CLEAN_YUM_CACHE")
    BY DEF Has
  <2>1. PICK c \in Elems(s) : c.verb = "CLEAN_YUM_CACHE"
    BY <1>2 DEF InOrder, Has
  <2>2. Rank(h.verb) <= Rank("CREATE_REPO")
    BY <1>2
  <2>3. c # h
    BY <2>1, <2>2, Ranks
  <2> QED
    BY <1>2, <2>1, <2>3 DEF Has
<1>7. ASSUME Has(t, "RSYNC_IMAGES"), NEW x \in Images(i)
      PROVE  Action("VERIFY_CHECKSUM", x) \in Elems(t)
  <2>1. PICK a \in Elems(t) : a.verb = "RSYNC_IMAGES"
    BY <1>7 DEF Has
  <2>2. Action("VERIFY_CHECKSUM", x) \in Elems(s)
    BY <1>2, <2>1 DEF InOrder, Has
  <2>3. Rank(h.verb) <= Rank("RSYNC_IMAGES")
    BY <1>2, <2>1
  <2>4. Action("VERIFY_CHECKSUM", x).verb = "VERIFY_CHECKSUM"
    BY DEF Action
  <2>5. Action("VERIFY_CHECKSUM", x) # h
    BY <2>3, <2>4, Ranks
  <2> QED
    BY <1>2, <2>2, <2>5
<1>8. InOrder(t, i)
  BY <1>2, <1>4, <1>5, <1>6, <1>7 DEF InOrder, J
<1>9. h.verb \in Verbs
  BY <1>1, <1>2
<1> QED
  BY <1>2, <1>3, <1>8, <1>9 DEF t, h

-----------------------------------------------------------------------------
(* What an action does *)

LEMMA OnlyAnswer ==
    ASSUME NEW t \in [1 .. 0 + 1 -> Answer] PROVE LastAnswer(t) \in Answer
<1> DEFINE given == {k \in DOMAIN t : t[k] # "silent"}
<1>1. DOMAIN t = {1} /\ t[1] \in Answer
  OBVIOUS
<1>2. CASE given = {}
  BY <1>2 DEF LastAnswer, Answer
<1>3. CASE given # {}
  <2>1. given = {1}
    BY <1>1, <1>3
  <2>2. \A k \in given : k = 1
    BY <2>1
  <2>3. \E k \in given : \A j \in given : k <= j
    BY <2>1
  <2>4. (CHOOSE k \in given : \A j \in given : k <= j) \in given
    BY <2>3
  <2> QED
    BY <1>1, <1>3, <2>2, <2>4 DEF LastAnswer
<1> QED
  BY <1>2, <1>3

(* A command that went well has been carried out by all nodes. *)
LEMMA WellMeansDone ==
    ASSUME NEW nodes, NEW strict \in BOOLEAN, NEW o \in RpcOutcomes(nodes, 0, strict)
    PROVE  o.well \in BOOLEAN /\ (o.well => o.done = nodes)
<1>0. PICK a \in [nodes -> LastAnswers(0)] :
         \E d \in SUBSET {n \in nodes : a[n] \in {"failed", "silent"}} :
            o = [done |-> {n \in nodes : a[n] \in {"ok", "stderr"}} \cup d,
                 well |-> NodesInError(strict, a) = {}]
  BY DEF RpcOutcomes
<1>1. PICK d \in SUBSET {n \in nodes : a[n] \in {"failed", "silent"}} :
         o = [done |-> {n \in nodes : a[n] \in {"ok", "stderr"}} \cup d,
              well |-> NodesInError(strict, a) = {}]
  BY <1>0
<1>2. \A n \in nodes : a[n] \in Answer
  BY OnlyAnswer DEF LastAnswers
<1>3. o.well = (NodesInError(strict, a) = {})
  BY <1>1
<1>4. o.done = {n \in nodes : a[n] \in {"ok", "stderr"}} \cup d
  BY <1>1
<1>5. ASSUME NodesInError(strict, a) = {} PROVE o.done = nodes
  <2>1. \A n \in nodes : a[n] \notin {"failed", "silent"}
    BY <1>5 DEF NodesInError
  <2>2. \A n \in nodes : a[n] \in {"ok", "stderr"}
    BY <1>2, <2>1 DEF Answer
  <2> QED
    BY <1>4, <2>1, <2>2
<1> QED
  BY <1>3, <1>5

LEMMA ActionOutcome ==
    ASSUME NEW v \in Verbs, NEW o \in Outcomes(v)
    PROVE  /\ v = "CLEAN_YUM_CACHE" /\ o.well => o.done = Node
           /\ v \in {"CREATE_REPO", "VERIFY_CHECKSUM"} /\ o.well => o.done = {MS}
<1>1. CASE v = "CLEAN_YUM_CACHE"
  <2>1. o \in RpcOutcomes(Node, 0, TRUE)
    BY <1>1 DEF Outcomes, AllOutcomes
  <2> QED
    BY <1>1, <2>1, WellMeansDone
<1>2. CASE v \in {"CREATE_REPO", "VERIFY_CHECKSUM"}
  <2>1. o \in RpcOutcomes({MS}, 0, TRUE)
    BY <1>2 DEF Outcomes, MsOutcomes
  <2> QED
    BY <1>2, <2>1, WellMeansDone
<1> QED
  BY <1>1, <1>2

(* What becomes out of date *)
LEMMA EffectBound ==
    ASSUME NEW a, a.verb \in Verbs, NEW o
    PROVE  \A x \in Effect(a, o) :
              \/ x \in stale
              \/ a.verb = "RSYNC_RPMS" /\ x = a.on
              \/ a.verb = "CREATE_REPO" /\ x \in Node
              \/ a.verb = "RSYNC_IMAGES" /\ x \in Images(iso)
<1>1. CASE o.done = {}
  BY <1>1 DEF Effect
<1>2. CASE o.done # {} /\ a.verb = "RSYNC_RPMS"
  BY <1>2 DEF Effect
<1>3. CASE o.done # {} /\ a.verb = "CREATE_REPO"
  BY <1>3 DEF Effect
<1>4. CASE o.done # {} /\ a.verb = "CLEAN_YUM_CACHE"
  BY <1>4 DEF Effect
<1>5. CASE o.done # {} /\ a.verb = "RSYNC_IMAGES"
  BY <1>5 DEF Effect, Images
<1>6. CASE o.done # {} /\ a.verb = "VERIFY_CHECKSUM" /\ o.well
  BY <1>6 DEF Effect
<1>7. CASE /\ o.done # {} /\ ~(a.verb = "VERIFY_CHECKSUM" /\ o.well)
           /\ a.verb \notin {"RSYNC_RPMS", "CREATE_REPO", "CLEAN_YUM_CACHE", "RSYNC_IMAGES"}
  BY <1>7 DEF Effect
<1> QED
  BY <1>1, <1>2, <1>3, <1>4, <1>5, <1>6, <1>7

(* What an action that went well brings up to date *)
LEMMA EffectDone ==
    ASSUME NEW a, a.verb \in Verbs, NEW o \in Outcomes(a.verb), o.well
    PROVE  /\ a.verb = "CREATE_REPO" => \A x \in Effect(a, o) : x # a.on \/ x \in Node
           /\ a.verb = "CLEAN_YUM_CACHE" => Effect(a, o) \cap Node = {}
           /\ a.verb = "VERIFY_CHECKSUM" => a.on \notin Effect(a, o)
<1>0. Node # {} /\ {MS} # {}
  BY ImportAssumption
<1>1. CASE a.verb = "CREATE_REPO"
  <2>1. o.done # {}
    BY <1>0, <1>1, ActionOutcome
  <2> QED
    BY <1>1, <2>1 DEF Effect
<1>2. CASE a.verb = "CLEAN_YUM_CACHE"
  <2>1. o.done = Node
    BY <1>2, ActionOutcome
  <2> QED
    BY <1>0, <1>2, <2>1 DEF Effect
<1>3. CASE a.verb = "VERIFY_CHECKSUM"
  <2>1. o.done # {}
    BY <1>0, <1>3, ActionOutcome
  <2> QED
    BY <1>3, <2>1 DEF Effect
<1> QED
  BY <1>1, <1>2, <1>3

-----------------------------------------------------------------------------
(* The steps of an import, as far as its actions and what they make out of date go *)

AtWork == importer \in {"work", "quiet"}
Through ==
    \/ importer \in {"run_ms", "enable_nodes", "run_nodes", "finish"}
    \/ importer = "restart" /\ file = "Done"

Aside == UNCHANGED <<importer, iso, todo, stale>> /\ (file' = file \/ file' # "Done")
Ends ==
    /\ ~AtWork' /\ ~Through'
    /\ iso' \in Isos \cup {iso, Unmounted}
Supplies ==
    /\ packages # NoPackages
    /\ UNCHANGED <<importer, file, iso, todo>>
    /\ stale' \subseteq stale \cup Node \cup {packages.repo}
Parses ==
    /\ importer = "parse" /\ importer' = "work"
    /\ iso' \in {iso, Unmounted} \cup (IF "iso_changed" \in Faults THEN Isos ELSE {})
    /\ IsoErrors(iso', {}, NotADirectory) = {}
    /\ todo' = IsoActions(iso') /\ UNCHANGED stale
Acts ==
    /\ importer = "work" /\ Head(todo).verb \notin {"DISABLE_PUPPET", "ENABLE_PUPPET"}
    /\ \E o \in Outcomes(Head(todo).verb) :
          /\ stale' = Effect(Head(todo), o)
          /\ Ends \/ (o.well /\ todo' = Tail(todo) /\ UNCHANGED <<importer, file, iso>>)
Quiets ==
    /\ importer = "work" /\ importer' = "quiet" /\ Head(todo).verb = "DISABLE_PUPPET"
    /\ UNCHANGED <<iso, todo, stale>>
Resumes ==
    /\ importer = "quiet" /\ importer' = "work" /\ todo' = Tail(todo)
    /\ UNCHANGED <<iso, stale>>
Enables ==
    /\ importer = "work" /\ importer' = "run_ms" /\ Head(todo).verb = "ENABLE_PUPPET"
    /\ UNCHANGED <<iso, stale>>
Finishes ==
    /\ importer \in {"run_ms", "enable_nodes", "run_nodes", "finish"}
    /\ ~AtWork' /\ UNCHANGED <<iso, stale>>

LEMMA FailEnds == Fail => Ends
BY DEF Fail, Ends, AtWork, Through

LEMMA ImportSteps ==
    ASSUME OwnedInv, [Next]_vars
    PROVE  \/ Aside \/ (Ends /\ UNCHANGED stale) \/ Supplies \/ Parses \/ Acts
           \/ Quiets \/ Resumes \/ Enables \/ Finishes
<1> USE DEF Idle, ImportGoesOn, contents
<1>1. CASE UNCHANGED vars
  BY <1>1 DEF vars, Aside
<1>2. CASE LitpdDies \/ StartLitpd \/ EndImportRequest
  BY <1>2 DEF LitpdDies, StartLitpd, EndImportRequest, Aside, ModeOf
<1>3. CASE BeginImport
  BY <1>3 DEF BeginImport, Ends, AtWork, Through, ValidIsos
<1>4. CASE Fork
  <2>1. importer = "none"
    BY <1>4 DEF Fork, OwnedInv
  <2> QED
    BY <1>4, <2>1 DEF Fork, Ends, AtWork, Through
<1>5. CASE \E on \in BOOLEAN : SetMaintenance(on)
  BY <1>5 DEF SetMaintenance, Aside
<1>6. CASE BeginPackages \/ StartPlan \/ EndPlan
  BY <1>6 DEF BeginPackages, StartPlan, EndPlan, Aside
<1>7. CASE RsyncPackages
  <2>1. packages # NoPackages
    BY <1>7 DEF RsyncPackages, NoPackages
  <2> QED
    BY <1>7, <2>1 DEF RsyncPackages, Supplies
<1>8. CASE CreatePackagesRepo
  <2>1. packages # NoPackages
    BY <1>8 DEF CreatePackagesRepo, NoPackages
  <2> QED
    BY <1>8, <2>1 DEF CreatePackagesRepo, Supplies
<1>9. CASE CleanPackagesCache
  <2>1. packages # NoPackages
    BY <1>9 DEF CleanPackagesCache, NoPackages
  <2> QED
    BY <1>9, <2>1 DEF CleanPackagesCache, Supplies
<1>10. CASE Exec
  BY <1>10 DEF Exec, Ends, AtWork, Through
<1>11. CASE Parse
  BY <1>11, FailEnds DEF Parse, Parses
<1>12. CASE RunAction
  BY <1>12, FailEnds DEF RunAction, Acts
<1>13. CASE DisablePuppet
  BY <1>13, FailEnds DEF DisablePuppet, Quiets
<1>14. CASE WaitForRuns
  BY <1>14, FailEnds DEF WaitForRuns, Resumes
<1>15. CASE EnablePuppet
  <2>1. CASE importer = "work" /\ Head(todo).verb = "ENABLE_PUPPET" /\ EnableOn({MS}, "run_ms")
    BY <2>1, FailEnds DEF EnableOn, Enables
  <2>2. CASE importer = "enable_nodes" /\ EnableOn(Node \ {MS}, "run_nodes")
    BY <2>2, FailEnds DEF EnableOn, Finishes, AtWork
  <2> QED
    BY <1>15, <2>1, <2>2 DEF EnablePuppet
<1>16. CASE BeginRun
  <2>1. Fail \/ UNCHANGED <<file, importer, iso, todo>>
    BY <1>16 DEF BeginRun
  <2>2. UNCHANGED stale
    BY <1>16 DEF BeginRun
  <2> QED
    BY <2>1, <2>2, FailEnds DEF Aside
<1>17. CASE DisableAll \/ QueryApplying \/ TriggerBatch \/ DisableBatch
  BY <1>17 DEF DisableAll, QueryApplying, TriggerBatch, DisableBatch, Aside
<1>18. CASE CheckRun \/ RefreshStats
  BY <1>18 DEF CheckRun, RefreshStats, Aside
<1>19. CASE EnableAll
  <2>1. importer \in {"run_ms", "run_nodes"} /\ UNCHANGED stale
    BY <1>19 DEF EnableAll, OwnedInv
  <2>2. \/ Fail
        \/ importer' \in {"enable_nodes", "finish"} /\ UNCHANGED iso
    BY <1>19 DEF EnableAll
  <2> QED
    BY <2>1, <2>2, FailEnds DEF Finishes, AtWork
<1>20. CASE Finish
  BY <1>20 DEF Finish, Finishes, AtWork
<1>21. CASE RestartLitpd
  BY <1>21 DEF RestartLitpd, Ends, AtWork, Through
<1>22. CASE ImporterDies
  BY <1>22 DEF ImporterDies, Ends, AtWork, Through
<1>23. ASSUME NEW n \in Node, StartRun(n) \/ EndRun(n) PROVE Aside
  BY <1>23 DEF StartRun, EndRun, Aside
<1> QED
  BY <1>1, <1>2, <1>3, <1>4, <1>5, <1>6, <1>7, <1>8, <1>9, <1>10, <1>11, <1>12, <1>13,
     <1>14, <1>15, <1>16, <1>17, <1>18, <1>19, <1>20, <1>21, <1>22, <1>23 DEF Next, Importer

(* The importer works on actions in order, of the ISO it has looked at. *)
TodoInv ==
    /\ iso \in Isos \cup {Unmounted}
    /\ AtWork => iso \in Isos /\ InOrder(todo, iso)
    /\ importer = "quiet" => Head(todo).verb = "DISABLE_PUPPET"

LEMMA NotUnmounted ==
    ASSUME NEW profiles, NEW files PROVE IsoErrors(Unmounted, profiles, files) # {}
BY DEF IsoErrors, Unmounted

LEMMA ParsesIso ==
    ASSUME TodoInv, Parses PROVE iso' \in Isos
<1>1. iso' # Unmounted
  BY NotUnmounted DEF Parses
<1>2. iso' \in Isos \cup {iso, Unmounted}
  BY DEF Parses
<1> QED
  BY <1>1, <1>2 DEF TodoInv

LEMMA TodoStep == OwnedInv /\ TodoInv /\ [Next]_vars => TodoInv'
<1> SUFFICES ASSUME OwnedInv, TodoInv, [Next]_vars PROVE TodoInv'
  OBVIOUS
<1>1. CASE Aside
  BY <1>1 DEF Aside, TodoInv, AtWork
<1>2. ASSUME Ends PROVE TodoInv'
  BY <1>2 DEF Ends, TodoInv, AtWork
<1>3. CASE Supplies
  BY <1>3 DEF Supplies, TodoInv, AtWork
<1>4. CASE Parses
  <2>1. iso' \in Isos
    BY <1>4, ParsesIso
  <2>2. InOrder(todo', iso')
    BY <1>4, <2>1, ActionsInOrder DEF Parses
  <2> QED
    BY <1>4, <2>1, <2>2 DEF Parses, TodoInv, AtWork
<1>5. ASSUME importer' = "work", todo' = Tail(todo), UNCHANGED iso, AtWork,
             Head(todo).verb # "ENABLE_PUPPET"
      PROVE  TodoInv'
  BY <1>5, OneLess DEF TodoInv, AtWork
<1>6. CASE Acts
  BY <1>2, <1>5, <1>6 DEF Acts, AtWork
<1>7. CASE Quiets
  BY <1>7 DEF Quiets, TodoInv, AtWork
<1>8. CASE Resumes
  BY <1>5, <1>8 DEF Resumes, TodoInv, AtWork
<1>9. CASE Enables
  BY <1>9 DEF Enables, TodoInv, AtWork
<1>10. CASE Finishes
  BY <1>10 DEF Finishes, TodoInv, AtWork
<1> QED
  BY <1>1, <1>2, <1>3, <1>4, <1>6, <1>7, <1>8, <1>9, <1>10, ImportSteps

LEMMA InitTodo == Init => TodoInv
BY DEF Init, TodoInv, AtWork

-----------------------------------------------------------------------------
(* Requests to import packages *)

PackagesType ==
    packages # NoPackages =>
        packages \in [next : {"rsync", "create", "clean"}, repo : Destination \ Profile,
                      appstream : BOOLEAN]

LEMMA PackagesStep == PackagesType /\ [Next]_vars => PackagesType'
<1> SUFFICES ASSUME PackagesType, [Next]_vars PROVE PackagesType'
  OBVIOUS
<1> USE DEF PackagesType, Idle, ImportGoesOn, contents
<1>1. CASE UNCHANGED vars
  BY <1>1 DEF vars
<1>2. CASE LitpdDies \/ StartLitpd \/ BeginImport \/ Fork \/ EndImportRequest
  BY <1>2 DEF LitpdDies, StartLitpd, BeginImport, Fork, EndImportRequest, ModeOf
<1>3. CASE \E on \in BOOLEAN : SetMaintenance(on)
  BY <1>3 DEF SetMaintenance, ModeOf
<1>4. CASE BeginPackages
  <2>1. PICK r \in Destination, appstream \in BOOLEAN :
           PathOk(r) /\ packages' = [next |-> "rsync", repo |-> r, appstream |-> appstream]
    BY <1>4 DEF BeginPackages
  <2> QED
    BY <2>1 DEF PathOk
<1>5. CASE RsyncPackages
  <2>1. packages # NoPackages
    BY <1>5 DEF RsyncPackages, NoPackages
  <2>2. packages' = NoPackages \/ packages' = [packages EXCEPT !.next = "create"]
    BY <1>5 DEF RsyncPackages
  <2> QED
    BY <2>1, <2>2
<1>6. CASE CreatePackagesRepo
  <2>1. packages # NoPackages
    BY <1>6 DEF CreatePackagesRepo, NoPackages
  <2>2. packages' = NoPackages \/ packages' = [packages EXCEPT !.next = "clean"]
    BY <1>6 DEF CreatePackagesRepo
  <2> QED
    BY <2>1, <2>2
<1>7. CASE CleanPackagesCache
  BY <1>7 DEF CleanPackagesCache
<1>8. CASE StartPlan \/ EndPlan
  BY <1>8 DEF StartPlan, EndPlan
<1>9. CASE Exec \/ Parse \/ RunAction \/ DisablePuppet \/ WaitForRuns \/ Finish \/ RestartLitpd
           \/ ImporterDies
  BY <1>9 DEF Exec, Parse, RunAction, DisablePuppet, WaitForRuns, Finish, RestartLitpd,
              ImporterDies
<1>10. CASE EnablePuppet
  BY <1>10 DEF EnablePuppet, EnableOn
<1>11. CASE BeginRun \/ DisableAll \/ QueryApplying \/ TriggerBatch \/ DisableBatch
  BY <1>11 DEF BeginRun, DisableAll, QueryApplying, TriggerBatch, DisableBatch
<1>12. CASE CheckRun \/ RefreshStats \/ EnableAll
  BY <1>12 DEF CheckRun, RefreshStats, EnableAll
<1>13. ASSUME NEW n \in Node, StartRun(n) \/ EndRun(n) PROVE PackagesType'
  BY <1>13 DEF StartRun, EndRun
<1> QED
  BY <1>1, <1>2, <1>3, <1>4, <1>5, <1>6, <1>7, <1>8, <1>9, <1>10, <1>11, <1>12, <1>13
     DEF Next, Importer

LEMMA InitPackages == Init => PackagesType
BY DEF Init, PackagesType

-----------------------------------------------------------------------------
(* The images *)

(* An image that is not known to be good is still to be verified. *)
ImagesInv ==
    /\ AtWork => \A x \in Images(iso) : x \in stale => Action("VERIFY_CHECKSUM", x) \in Elems(todo)
    /\ Through => stale \cap Images(iso) = {}

LEMMA ImagesNames ==
    ASSUME NEW i \in Isos
    PROVE  Images(i) \cap (Node \cup Repo \cup Destination \cup Profile) = {}
<1>1. Images(i) \subseteq Pictures(i)
  BY DEF Images, WithMd5, WithoutMd5
<1> QED
  BY <1>1, NamesAssumption

LEMMA NoImages == Images(Unmounted) = {}
BY DEF Images, WithMd5, WithoutMd5, Pictures, Unmounted

LEMMA UpdatedRepos ==
    ASSUME NEW i PROVE Updated(i) \subseteq Repo
BY DEF Updated, Repo, Found

LEMMA ImagesStep ==
    ASSUME OwnedInv, TodoInv, PackagesType, ImagesInv, [Next]_vars
    PROVE  ImagesInv'
<1>1. CASE Aside
  BY <1>1 DEF Aside, ImagesInv, AtWork, Through
<1>2. ASSUME Ends PROVE ImagesInv'
  BY <1>2 DEF Ends, ImagesInv
<1>3. CASE Supplies
  <2>1. \A x \in Images(iso) : x \in stale' => x \in stale
    BY <1>3, ImagesNames, NoImages DEF Supplies, PackagesType, TodoInv
  <2> QED
    BY <1>3, <2>1 DEF Supplies, ImagesInv, AtWork, Through
<1>4. CASE Parses
  <2>1. iso' \in Isos
    BY <1>4, ParsesIso
  <2>2. Whole(todo', iso')
    BY <1>4, <2>1, ActionsInOrder DEF Parses
  <2> QED
    BY <1>4, <2>2 DEF Parses, ImagesInv, Whole, Through
<1>6. CASE Acts
  <2>1. PICK o \in Outcomes(Head(todo).verb) :
           /\ stale' = Effect(Head(todo), o)
           /\ Ends \/ (o.well /\ todo' = Tail(todo) /\ UNCHANGED <<importer, file, iso>>)
    BY <1>6 DEF Acts
  <2>2. CASE o.well /\ todo' = Tail(todo) /\ UNCHANGED <<importer, file, iso>>
    <3> DEFINE h == Head(todo)
    <3>1. importer = "work" /\ h.verb # "ENABLE_PUPPET" /\ iso \in Isos /\ InOrder(todo, iso)
      BY <1>6 DEF Acts, TodoInv, AtWork
    <3>2. h.verb \in Verbs /\ Elems(todo) = {h} \cup Elems(todo') /\ InOrder(todo', iso)
      BY <2>2, <3>1, OneLess
    <3>3. \A x \in stale' : \/ x \in stale
                            \/ h.verb = "RSYNC_RPMS" /\ x = h.on
                            \/ h.verb = "CREATE_REPO" /\ x \in Node
                            \/ h.verb = "RSYNC_IMAGES" /\ x \in Images(iso)
      BY <2>1, <3>2, EffectBound
    <3>4. h.verb = "VERIFY_CHECKSUM" => h.on \notin stale'
      BY <2>1, <2>2, <3>2, EffectDone
    <3>5. h.verb = "RSYNC_RPMS" => h.on \in Repo
      BY <3>1, <3>2, UpdatedRepos DEF InOrder
    <3> HIDE DEF h
    <3>6. ASSUME NEW x \in Images(iso), x \in stale'
          PROVE  Action("VERIFY_CHECKSUM", x) \in Elems(todo')
      <4>1. x \notin Repo /\ x \notin Node
        BY <3>1, ImagesNames
      <4>2. x \in stale \/ h.verb = "RSYNC_IMAGES"
        BY <3>3, <3>5, <3>6, <4>1
      <4>3. Action("VERIFY_CHECKSUM", x) \in Elems(todo)
        <5>1. CASE x \in stale
          BY <3>1, <3>6, <5>1 DEF ImagesInv, AtWork
        <5>2. CASE h.verb = "RSYNC_IMAGES"
          BY <3>1, <3>2, <5>2 DEF InOrder, Has
        <5> QED
          BY <4>2, <5>1, <5>2
      <4>4. Action("VERIFY_CHECKSUM", x) # h
        BY <3>4, <3>6 DEF Action
      <4> QED
        BY <3>2, <4>3, <4>4
    <3> QED
      BY <2>2, <3>1, <3>6 DEF ImagesInv, Through
  <2> QED
    BY <1>2, <2>1, <2>2
<1>7. CASE Quiets
  BY <1>7 DEF Quiets, ImagesInv, AtWork, Through
<1>8. CASE Resumes
  <2>1. /\ iso \in Isos /\ InOrder(todo, iso) /\ Head(todo).verb = "DISABLE_PUPPET" /\ AtWork
    BY <1>8 DEF Resumes, TodoInv, AtWork
  <2>2. Elems(todo) = {Head(todo)} \cup Elems(todo')
    BY <1>8, <2>1, OneLess DEF Resumes
  <2>3. \A x : Action("VERIFY_CHECKSUM", x) # Head(todo)
    BY <2>1 DEF Action
  <2> QED
    BY <1>8, <2>1, <2>2, <2>3 DEF Resumes, ImagesInv, Through
<1>9. CASE Enables
  <2>1. iso \in Isos /\ InOrder(todo, iso) /\ Head(todo).verb = "ENABLE_PUPPET" /\ AtWork
    BY <1>9 DEF Enables, TodoInv, AtWork
  <2>2. \A x \in Elems(todo) : Rank("ENABLE_PUPPET") <= Rank(x.verb)
    BY <2>1, TailOrdered, JobVerbs DEF InOrder, Has
  <2>3. \A x : Action("VERIFY_CHECKSUM", x) \notin Elems(todo)
    <3> SUFFICES ASSUME NEW x, Action("VERIFY_CHECKSUM", x) \in Elems(todo) PROVE FALSE
      OBVIOUS
    <3>1. Action("VERIFY_CHECKSUM", x).verb = "VERIFY_CHECKSUM"
      BY DEF Action
    <3> QED
      BY <2>2, <3>1, Ranks
  <2> QED
    BY <1>9, <2>1, <2>3 DEF Enables, ImagesInv, AtWork
<1>10. CASE Finishes
  BY <1>10 DEF Finishes, ImagesInv, Through
<1> QED
  BY <1>1, <1>2, <1>3, <1>4, <1>6, <1>7, <1>8, <1>9, <1>10, ImportSteps

LEMMA InitImages == Init => ImagesInv
BY DEF Init, ImagesInv, AtWork, Through

-----------------------------------------------------------------------------
(* The catalogs *)

(* A node applies catalogs of the current version or older ones, and never an older one
   than it has applied. *)
VersionInv ==
    \A n \in Node :
        /\ agent[n].applied <= version
        /\ agent[n].catalog >= 0 =>
              agent[n].applied <= agent[n].catalog /\ agent[n].catalog <= version

(* Nodes that have not applied the current version *)
Behind == {n \in Node : agent[n].applied < version}

Switches ==
    \A n \in Node : agent'[n].applied = agent[n].applied /\ agent'[n].catalog = agent[n].catalog

LEMMA SwitchedApplied ==
    ASSUME AgentType, NEW ns \in SUBSET Node
    PROVE  /\ agent' = Enable(ns) \/ agent' = Disable(ns) => Switches
           /\ agent' = Enable(ns) => \A n \in ns : agent'[n].enabled = TRUE
BY DEF Switches, Enable, Disable, AgentType

(* What happens to the agents *)
LEMMA AgentSteps ==
    ASSUME OwnedInv, [Next]_vars
    PROVE  \/ Switches /\ version' \in {version, version + 1}
           \/ \E n \in Node : StartRun(n) \/ EndRun(n)
<1> USE DEF Idle, ImportGoesOn, contents
<1>0. AgentType /\ run.batch \subseteq Node /\ MS \in Node
  BY ImportAssumption DEF OwnedInv, RunType, Runs
<1>1. ASSUME UNCHANGED <<agent, version>> PROVE Switches /\ version' \in {version, version + 1}
  BY <1>1 DEF Switches
<1>2. ASSUME UNCHANGED version, NEW ns \in SUBSET Node, agent' = Enable(ns) \/ agent' = Disable(ns)
      PROVE  Switches /\ version' \in {version, version + 1}
  BY <1>0, <1>2, SwitchedApplied
<1>3. CASE UNCHANGED vars
  BY <1>1, <1>3 DEF vars
<1>4. CASE LitpdDies \/ StartLitpd \/ BeginImport \/ Fork \/ EndImportRequest
  BY <1>1, <1>4 DEF LitpdDies, StartLitpd, BeginImport, Fork, EndImportRequest, ModeOf
<1>5. CASE \E on \in BOOLEAN : SetMaintenance(on)
  BY <1>1, <1>5 DEF SetMaintenance, ModeOf
<1>6. CASE BeginPackages \/ RsyncPackages \/ CreatePackagesRepo \/ CleanPackagesCache
  BY <1>1, <1>6 DEF BeginPackages, RsyncPackages, CreatePackagesRepo, CleanPackagesCache
<1>7. CASE StartPlan \/ EndPlan
  BY <1>1, <1>7 DEF StartPlan, EndPlan
<1>8. CASE Exec \/ Parse \/ RunAction \/ WaitForRuns \/ Finish \/ RestartLitpd \/ ImporterDies
  BY <1>1, <1>8 DEF Exec, Parse, RunAction, WaitForRuns, Finish, RestartLitpd, ImporterDies
<1>9. CASE DisablePuppet
  <2>1. \E ns \in SUBSET Node : agent' = Disable(ns)
    BY <1>9 DEF DisablePuppet
  <2> QED
    BY <1>2, <1>9, <2>1 DEF DisablePuppet
<1>10. CASE EnablePuppet
  <2>1. PICK nodes \in SUBSET Node, next \in {"run_ms", "run_nodes"} : EnableOn(nodes, next)
    BY <1>0, <1>10 DEF EnablePuppet
  <2>2. PICK reached \in SUBSET Node : agent' = Enable(reached)
    BY <2>1 DEF EnableOn
  <2>3. Switches
    BY <1>0, <2>2, SwitchedApplied
  <2>4. version' \in {version, version + 1}
    BY <2>1 DEF EnableOn
  <2> QED
    BY <2>3, <2>4
<1>11. CASE BeginRun \/ QueryApplying \/ CheckRun \/ RefreshStats
  BY <1>1, <1>11 DEF BeginRun, QueryApplying, CheckRun, RefreshStats
<1>12. CASE DisableAll
  <2>1. PICK reached \in Reached(Node) : agent' = Disable(reached)
    BY <1>12 DEF DisableAll
  <2> QED
    BY <1>2, <1>12, <2>1, ReachedNodes DEF DisableAll
<1>13. CASE TriggerBatch
  <2>1. PICK reached \in Reached(run.batch) : agent' = Enable(reached)
    BY <1>13 DEF TriggerBatch
  <2>2. reached \in SUBSET Node
    BY <1>0, <2>1, ReachedNodes
  <2> QED
    BY <1>2, <1>13, <2>1, <2>2 DEF TriggerBatch
<1>14. CASE DisableBatch
  <2>1. PICK reached \in Reached(run.batch) : agent' = Disable(reached)
    BY <1>14 DEF DisableBatch
  <2>2. reached \in SUBSET Node
    BY <1>0, <2>1, ReachedNodes
  <2> QED
    BY <1>2, <1>14, <2>1, <2>2 DEF DisableBatch
<1>15. CASE EnableAll
  <2>1. UNCHANGED agent \/ \E reached \in SUBSET Node : agent' = Enable(reached)
    BY <1>15, ReachedNodes DEF EnableAll
  <2>2. UNCHANGED version
    BY <1>15 DEF EnableAll
  <2> QED
    BY <1>1, <1>2, <2>1, <2>2
<1> QED
  BY <1>3, <1>4, <1>5, <1>6, <1>7, <1>8, <1>9, <1>10, <1>11, <1>12, <1>13, <1>14, <1>15
     DEF Next, Importer

(* A run starts with the catalog of the current version: no node falls behind. *)
LEMMA RunStep ==
    ASSUME OwnedInv, VersionInv, NEW n \in Node, StartRun(n) \/ EndRun(n)
    PROVE  /\ VersionInv' /\ Behind' \subseteq Behind
           /\ \A m \in Node : agent'[m].enabled = agent[m].enabled
           /\ UNCHANGED <<importer, file, run, version>>
<1>0. AgentType
  BY DEF OwnedInv
<1>1. UNCHANGED <<importer, file, run, version>>
  BY DEF StartRun, EndRun, ImportGoesOn, Idle
<1>2. \A m \in Node : m # n => agent'[m] = agent[m]
  BY <1>0 DEF StartRun, EndRun, AgentType
<1>3. /\ agent'[n].enabled = agent[n].enabled
      /\ \/ agent'[n].catalog = version /\ agent'[n].applied = agent[n].applied
         \/ /\ agent[n].catalog >= 0 /\ agent'[n].catalog = -1
            /\ agent'[n].applied \in {agent[n].catalog, agent[n].applied}
  BY <1>0 DEF StartRun, EndRun, AgentType
<1>4. /\ version \in Int
      /\ \A m \in Node : agent[m].applied \in Int /\ agent[m].catalog \in Int
  BY <1>0 DEF AgentType
<1>5. /\ agent'[n].applied <= version /\ agent[n].applied <= agent'[n].applied
      /\ agent'[n].catalog >= 0 =>
            agent'[n].applied <= agent'[n].catalog /\ agent'[n].catalog <= version
  BY <1>3, <1>4 DEF VersionInv
<1>6. VersionInv'
  BY <1>1, <1>2, <1>5 DEF VersionInv
<1>7. agent'[n].applied < version => agent[n].applied < version
  BY <1>3, <1>4, <1>5
<1>8. Behind' \subseteq Behind
  BY <1>1, <1>2, <1>7 DEF Behind
<1> QED
  BY <1>1, <1>2, <1>3, <1>6, <1>8

LEMMA VersionStep == OwnedInv /\ VersionInv /\ [Next]_vars => VersionInv'
<1> SUFFICES ASSUME OwnedInv, VersionInv, [Next]_vars PROVE VersionInv'
  OBVIOUS
<1>1. CASE Switches /\ version' \in {version, version + 1}
  <2>1. /\ version \in Int
        /\ \A m \in Node : agent[m].applied \in Int /\ agent[m].catalog \in Int
    BY DEF OwnedInv, AgentType
  <2>2. version <= version'
    BY <1>1, <2>1
  <2>3. version' \in Int
    BY <1>1, <2>1
  <2> QED
    BY <1>1, <2>1, <2>2, <2>3 DEF Switches, VersionInv
<1> QED
  BY <1>1, AgentSteps, RunStep

LEMMA InitVersion == Init => VersionInv
BY DEF Init, VersionInv

-----------------------------------------------------------------------------
(* The end of an import *)

(* The nodes that a run of trigger_and_wait has not struck off are all that are behind. *)
AppliedInv ==
    /\ importer = "run_ms" /\ run.pc # "idle" => (MS \in Behind => MS \in run.nodes)
    /\ importer \in {"enable_nodes", "run_nodes"} => MS \notin Behind
    /\ importer = "run_nodes" /\ run.pc # "idle" => Behind \subseteq run.nodes
    /\ run.pc = "done" => run.nodes = {}
    /\ importer = "finish" \/ (importer = "restart" /\ file = "Done") =>
          Behind = {} /\ \A n \in Node : agent[n].enabled = TRUE

LEMMA AppliedStep ==
    ASSUME "lost" \notin Faults, OwnedInv, OwnedInv', VersionInv, AppliedInv, [Next]_vars
    PROVE  AppliedInv'
<1>0. AgentType /\ RunType /\ run.batch \subseteq Node /\ MS \in Node
  BY ImportAssumption DEF OwnedInv, RunType, Runs
<1>1. ASSUME UNCHANGED <<importer, run, agent, version>>, file' = file \/ file' # "Done"
      PROVE  AppliedInv'
  BY <1>1 DEF AppliedInv, Behind
<1>2. ASSUME importer' \in {"none", "exec", "parse", "work", "quiet", "restart"},
             importer' = "restart" => file' # "Done"
      PROVE  AppliedInv'
  BY <1>2 DEF AppliedInv, OwnedInv
<1>3. Fail => AppliedInv'
  BY <1>2 DEF Fail
<1> USE DEF Idle, ImportGoesOn, contents
<1>4. ASSUME Switches, UNCHANGED version PROVE Behind' = Behind
  BY <1>4 DEF Switches, Behind
<1>5. CASE UNCHANGED vars
  BY <1>1, <1>5 DEF vars
<1>6. CASE LitpdDies \/ StartLitpd \/ EndImportRequest
  BY <1>1, <1>6 DEF LitpdDies, StartLitpd, EndImportRequest, ModeOf
<1>7. CASE BeginImport
  BY <1>1, <1>7 DEF BeginImport, ModeOf
<1>8. CASE Fork
  <2>1. importer = "none"
    BY <1>8 DEF Fork, OwnedInv
  <2> QED
    BY <1>2, <1>8, <2>1 DEF Fork
<1>9. CASE \E on \in BOOLEAN : SetMaintenance(on)
  BY <1>1, <1>9 DEF SetMaintenance, ModeOf
<1>10. CASE BeginPackages \/ RsyncPackages \/ CreatePackagesRepo \/ CleanPackagesCache
  BY <1>1, <1>10 DEF BeginPackages, RsyncPackages, CreatePackagesRepo, CleanPackagesCache
<1>11. CASE StartPlan \/ EndPlan
  BY <1>1, <1>11 DEF StartPlan, EndPlan
<1>12. CASE Exec \/ Parse
  BY <1>2, <1>3, <1>12 DEF Exec, Parse
<1>13. CASE RunAction
  BY <1>2, <1>3, <1>13 DEF RunAction
<1>14. CASE DisablePuppet \/ WaitForRuns
  BY <1>2, <1>3, <1>14 DEF DisablePuppet, WaitForRuns
<1>15. CASE RestartLitpd \/ ImporterDies
  BY <1>2, <1>15 DEF RestartLitpd, ImporterDies
<1>16. CASE EnablePuppet
  <2>1. CASE Fail
    BY <1>3, <2>1
  <2>2. CASE importer = "work" /\ ~Fail /\ EnableOn({MS}, "run_ms")
    <3>1. importer' = "run_ms" /\ run' = run
      BY <2>2 DEF EnableOn
    <3>2. run.pc = "idle"
      BY <2>2 DEF OwnedInv
    <3> QED
      BY <3>1, <3>2 DEF AppliedInv
  <2>3. CASE importer = "enable_nodes" /\ ~Fail /\ EnableOn(Node \ {MS}, "run_nodes")
    <3>1. importer' = "run_nodes" /\ run' = run /\ agent' = Enable(Node \ {MS})
      BY <2>3 DEF EnableOn
    <3>2. run.pc = "idle"
      BY <2>3 DEF OwnedInv
    <3>3. UNCHANGED version
      BY <1>0, <2>3 DEF EnableOn
    <3>4. Behind' = Behind
      BY <1>0, <1>4, <3>1, <3>3, SwitchedApplied
    <3> QED
      BY <2>3, <3>1, <3>2, <3>4 DEF AppliedInv
  <2> QED
    BY <1>16, <2>1, <2>2, <2>3 DEF EnablePuppet
<1>17. CASE BeginRun
  <2>1. CASE Fail
    BY <1>3, <2>1
  <2>2. CASE ~Fail
    <3> DEFINE nodes == IF importer = "run_ms" THEN {MS} ELSE Node \ {MS}
    <3>1. /\ run' = [NoRun EXCEPT !.pc = "disable", !.nodes = nodes, !.untriggered = nodes]
          /\ importer' = importer
      BY <1>17, <2>2, Zenon DEF BeginRun
    <3>2. importer \in {"run_ms", "run_nodes"} /\ UNCHANGED <<agent, version>>
      BY <1>17 DEF BeginRun
    <3>3. Behind' = Behind /\ Behind \subseteq Node
      BY <3>2 DEF Behind
    <3> HIDE DEF nodes
    <3>4. run'.pc = "disable" /\ run'.nodes = nodes
      BY <3>1 DEF NoRun
    <3>5. CASE importer = "run_ms"
      <4>1. nodes = {MS}
        BY <3>5 DEF nodes
      <4> QED
        BY <3>1, <3>4, <3>5, <4>1 DEF AppliedInv
    <3>6. CASE importer = "run_nodes"
      <4>1. nodes = Node \ {MS}
        BY <3>6 DEF nodes
      <4>2. Behind \subseteq nodes
        BY <3>3, <3>6, <4>1 DEF AppliedInv
      <4> QED
        BY <3>1, <3>3, <3>4, <3>6, <4>2 DEF AppliedInv
    <3> QED
      BY <3>2, <3>5, <3>6
  <2> QED
    BY <2>1, <2>2
<1>18. ASSUME UNCHANGED importer, run.pc # "idle", Behind' = Behind,
              Behind \cap run.nodes \subseteq run'.nodes, run'.pc = "done" => run'.nodes = {}
       PROVE  AppliedInv'
  <2>1. importer \in {"run_ms", "run_nodes"}
    BY <1>18 DEF OwnedInv
  <2> QED
    BY <1>18, <2>1 DEF AppliedInv
<1>19. CASE DisableAll
  <2>1. PICK reached \in Reached(Node) : agent' = Disable(reached)
    BY <1>19 DEF DisableAll
  <2>2. Behind' = Behind
    BY <1>0, <1>4, <1>19, <2>1, ReachedNodes, SwitchedApplied DEF DisableAll
  <2>3. run'.nodes = run.nodes /\ run'.pc = "query" /\ run.pc = "disable"
    BY <1>0, <1>19 DEF DisableAll, RunType, Runs
  <2> QED
    BY <1>18, <1>19, <2>2, <2>3 DEF DisableAll
<1>20. CASE QueryApplying
  <2>1. \/ run' = [run EXCEPT !.pc = "check"]
        \/ \E b \in SUBSET (run.untriggered \ Applying) :
              run' = [run EXCEPT !.pc = "enable", !.batch = b]
    BY <1>20, Zenon DEF QueryApplying
  <2>2. run'.nodes = run.nodes /\ run'.pc # "done" /\ run.pc = "query"
    BY <1>0, <1>20, <2>1 DEF QueryApplying, RunType, Runs
  <2>3. Behind' = Behind
    BY <1>20 DEF QueryApplying, Behind
  <2> QED
    BY <1>18, <1>20, <2>2, <2>3 DEF QueryApplying
<1>21. CASE TriggerBatch
  <2>1. PICK reached \in Reached(run.batch) : agent' = Enable(reached)
    BY <1>21 DEF TriggerBatch
  <2>2. reached \in SUBSET Node
    BY <1>0, <2>1, ReachedNodes
  <2>3. Behind' = Behind
    BY <1>0, <1>4, <1>21, <2>1, <2>2, SwitchedApplied DEF TriggerBatch
  <2>4. run'.nodes = run.nodes /\ run'.pc = "wait" /\ run.pc = "enable"
    BY <1>0, <1>21 DEF TriggerBatch, RunType, Runs
  <2> QED
    BY <1>18, <1>21, <2>3, <2>4 DEF TriggerBatch
<1>22. CASE DisableBatch
  <2>1. PICK reached \in Reached(run.batch) : agent' = Disable(reached)
    BY <1>22 DEF DisableBatch
  <2>2. reached \in SUBSET Node
    BY <1>0, <2>1, ReachedNodes
  <2>3. Behind' = Behind
    BY <1>0, <1>4, <1>22, <2>1, <2>2, SwitchedApplied DEF DisableBatch
  <2>4. run'.nodes = run.nodes /\ run'.pc = "check" /\ run.pc = "wait"
    BY <1>0, <1>22 DEF DisableBatch, RunType, Runs
  <2> QED
    BY <1>18, <1>22, <2>3, <2>4 DEF DisableBatch
<1>23. CASE CheckRun
  <2>1. \/ run' = [run EXCEPT !.pc = "done"] /\ run.nodes = {}
        \/ run' = [run EXCEPT !.pc = "error"]
        \/ run' = [run EXCEPT !.pc = "stats", !.applying = Applying \cap run.nodes]
    BY <1>23, Zenon DEF CheckRun
  <2>2. run'.nodes = run.nodes /\ (run'.pc = "done" => run.nodes = {}) /\ run.pc = "check"
    BY <1>0, <1>23, <2>1 DEF CheckRun, RunType, Runs
  <2>3. Behind' = Behind
    BY <1>23 DEF CheckRun, Behind
  <2> QED
    BY <1>18, <1>23, <2>2, <2>3 DEF CheckRun
<1>24. CASE RefreshStats
  <2> DEFINE nodes == run.nodes \ Completed
             untriggered == run.untriggered \ Completed
             again == untriggered \cup ((nodes \ untriggered) \ run.applying)
             k == run.iterations + 1
             pc == IF nodes = {} THEN "done" ELSE "query"
             next == [run EXCEPT !.nodes = nodes, !.untriggered = again,
                                 !.applying = {}, !.iterations = k]
  <2>1. \/ run' = [next EXCEPT !.pc = pc]
        \/ run' = [run EXCEPT !.pc = "query", !.applying = {}, !.iterations = k]
    BY <1>24, Zenon DEF RefreshStats
  <2>2. pc = "done" => nodes = {}
    OBVIOUS
  <2>3. Behind \cap run.nodes \subseteq nodes
    <3>1. \A n \in Node : agent[n].applied \in Int /\ version \in Int
      BY <1>0 DEF AgentType
    <3> QED
      BY <3>1 DEF Behind, Completed
  <2> HIDE DEF nodes, again, k, pc
  <2>4. \/ run'.nodes = nodes /\ run'.pc = pc
        \/ run'.nodes = run.nodes /\ run'.pc = "query"
    BY <1>0, <2>1 DEF RunType, Runs
  <2>5. Behind' = Behind /\ run.pc = "stats" /\ UNCHANGED importer
    BY <1>24 DEF RefreshStats, Behind
  <2> QED
    BY <1>18, <2>2, <2>3, <2>4, <2>5
<1>25. CASE EnableAll
  <2>1. CASE Fail
    BY <1>3, <2>1
  <2>2. CASE ~Fail
    <3>1. /\ run.pc = "done" /\ agent' = Enable(Node) /\ UNCHANGED version
          /\ importer' = IF importer = "run_ms" THEN "enable_nodes" ELSE "finish"
          /\ run' = NoRun
      BY <1>25, <2>2 DEF EnableAll, Reached
    <3>2. Behind' = Behind /\ \A n \in Node : agent'[n].enabled = TRUE
      BY <1>0, <1>4, <3>1, SwitchedApplied
    <3>3. run.nodes = {} /\ importer \in {"run_ms", "run_nodes"}
      BY <3>1 DEF AppliedInv, OwnedInv
    <3>4. CASE importer = "run_ms"
      <4>1. MS \notin Behind /\ importer' = "enable_nodes"
        BY <3>1, <3>3, <3>4 DEF AppliedInv
      <4> QED
        BY <3>1, <3>2, <4>1, NoRunType DEF AppliedInv
    <3>5. CASE importer = "run_nodes"
      <4>1. Behind = {} /\ importer' = "finish"
        BY <3>1, <3>3, <3>5 DEF AppliedInv
      <4> QED
        BY <3>1, <3>2, <4>1, NoRunType DEF AppliedInv
    <3> QED
      BY <3>3, <3>4, <3>5
  <2> QED
    BY <2>1, <2>2
<1>26. CASE Finish
  <2>1. importer = "finish" /\ importer' = "restart" /\ UNCHANGED <<agent, version, run>>
    BY <1>26 DEF Finish
  <2>2. Behind' = Behind /\ run.pc = "idle"
    BY <2>1 DEF Behind, OwnedInv
  <2> QED
    BY <2>1, <2>2 DEF AppliedInv
<1>27. ASSUME NEW n \in Node, StartRun(n) \/ EndRun(n) PROVE AppliedInv'
  <2>1. /\ Behind' \subseteq Behind
        /\ \A m \in Node : agent'[m].enabled = agent[m].enabled
        /\ UNCHANGED <<importer, file, run, version>>
    BY <1>27, RunStep
  <2> QED
    BY <2>1 DEF AppliedInv
<1> QED
  BY <1>5, <1>6, <1>7, <1>8, <1>9, <1>10, <1>11, <1>12, <1>13, <1>14, <1>15, <1>16, <1>17,
     <1>19, <1>20, <1>21, <1>22, <1>23, <1>24, <1>25, <1>26, <1>27 DEF Next, Importer

(* IsoImporter: if the commands that disable and enable Puppet in trigger_and_wait reach
   the nodes, an importer that reports success leaves every node with Puppet enabled and
   the catalog of the new version applied, for any nodes and ISO images, whatever runs the
   agents start and fail in between; and every image that the ISO has brought has been
   verified where it is served from, whatever an earlier import has left behind. *)
THEOREM DoneIsApplied ==
    ASSUME "lost" \notin Faults
    PROVE  Spec => []DoneMeansApplied
<1> DEFINE Inv == OwnedInv /\ TodoInv /\ PackagesType /\ ImagesInv /\ VersionInv /\ AppliedInv
<1>1. Init => AppliedInv
  BY DEF Init, AppliedInv, NoRun
<1>2. Inv => DoneMeansApplied
  <2> SUFFICES ASSUME Inv, importer = "restart", file = "Done"
               PROVE  /\ \A n \in Node : agent[n].enabled /\ agent[n].applied = version
                      /\ stale \cap Images(iso) = {}
    BY DEF DoneMeansApplied, Images
  <2>1. Behind = {} /\ \A n \in Node : agent[n].enabled = TRUE
    BY DEF AppliedInv
  <2>2. \A n \in Node : agent[n].applied \in Int /\ version \in Int
    BY DEF OwnedInv, AgentType
  <2>3. \A n \in Node : agent[n].applied <= version /\ ~(agent[n].applied < version)
    BY <2>1 DEF VersionInv, Behind
  <2>4. \A n \in Node : agent[n].applied = version
    BY <2>2, <2>3
  <2> QED
    BY <2>1, <2>4 DEF ImagesInv, Through
<1>3. OwnedInv /\ OwnedInv' /\ VersionInv /\ AppliedInv /\ [Next]_vars => AppliedInv'
  BY AppliedStep
<1>4. OwnedInv /\ TodoInv /\ PackagesType /\ ImagesInv /\ [Next]_vars => ImagesInv'
  BY ImagesStep
<1>5. Inv /\ [Next]_vars => Inv'
  BY <1>3, <1>4, NextOwned, TodoStep, PackagesStep, VersionStep
<1>6. Init => Inv
  BY <1>1, InitOwned, InitTodo, InitPackages, InitImages, InitVersion
<1> QED
  BY <1>2, <1>5, <1>6, PTL DEF Spec

-----------------------------------------------------------------------------
(* Packages *)

(* Moreover no request to import packages is still at work when an import begins, and the
   ISO stays what it is. *)
Undisturbed == Guarded /\ Faults \cap {"late_packages", "iso_changed"} = {}

(* While an import is under way nobody else imports packages. *)
NoOther == Working \/ request \in {"entered", "forked"} => packages = NoPackages

LEMMA NoOtherStep ==
    ASSUME Undisturbed, OwnedInv, AloneInv, NoOther, [Next]_vars
    PROVE  NoOther'
<1> USE DEF NoOther, Working, Idle, ImportGoesOn, contents
<1>0. "late_packages" \notin Faults
  BY DEF Undisturbed
<1>1. ASSUME UNCHANGED packages, importer' = importer \/ importer # "none",
             request' = request \/ request' \notin {"entered", "forked"},
             importer = "restart" => importer' \in {"restart", "none"}
      PROVE  NoOther'
  BY <1>1
<1>2. CASE UNCHANGED vars
  BY <1>2 DEF vars
<1>3. CASE LitpdDies
  BY <1>3 DEF LitpdDies
<1>4. CASE StartLitpd \/ EndImportRequest
  BY <1>1, <1>4 DEF StartLitpd, EndImportRequest, ModeOf
<1>5. CASE BeginImport
  BY <1>0, <1>5 DEF BeginImport
<1>6. CASE Fork
  BY <1>6 DEF Fork
<1>7. CASE \E on \in BOOLEAN : SetMaintenance(on)
  BY <1>1, <1>7 DEF SetMaintenance, ModeOf
<1>8. CASE BeginPackages
  BY <1>8 DEF BeginPackages, AloneInv, Closed
<1>9. CASE RsyncPackages \/ CreatePackagesRepo \/ CleanPackagesCache
  <2>1. packages # NoPackages
    BY <1>9 DEF RsyncPackages, CreatePackagesRepo, CleanPackagesCache, NoPackages
  <2> QED
    BY <1>9, <2>1 DEF RsyncPackages, CreatePackagesRepo, CleanPackagesCache
<1>10. CASE StartPlan \/ EndPlan
  BY <1>1, <1>10 DEF StartPlan, EndPlan
<1>11. CASE Exec \/ Parse \/ RunAction \/ DisablePuppet \/ WaitForRuns \/ Finish \/ ImporterDies
  BY <1>1, <1>11 DEF Exec, Parse, RunAction, DisablePuppet, WaitForRuns, Finish, ImporterDies, Fail
<1>12. CASE RestartLitpd
  BY <1>12 DEF RestartLitpd
<1>13. CASE EnablePuppet
  BY <1>1, <1>13 DEF EnablePuppet, EnableOn
<1>14. CASE BeginRun
  BY <1>1, <1>14 DEF BeginRun
<1>15. CASE DisableAll \/ QueryApplying \/ TriggerBatch \/ DisableBatch \/ CheckRun \/ RefreshStats
  BY <1>1, <1>15 DEF DisableAll, QueryApplying, TriggerBatch, DisableBatch, CheckRun,
                     RefreshStats, OwnedInv
<1>16. CASE EnableAll
  <2>1. importer \in {"run_ms", "run_nodes"}
    BY <1>16 DEF EnableAll, OwnedInv
  <2> QED
    BY <1>1, <1>16, <2>1 DEF EnableAll
<1>17. ASSUME NEW n \in Node, StartRun(n) \/ EndRun(n) PROVE NoOther'
  BY <1>1, <1>17 DEF StartRun, EndRun
<1> QED
  BY <1>2, <1>3, <1>4, <1>5, <1>6, <1>7, <1>8, <1>9, <1>10, <1>11, <1>12, <1>13, <1>14,
     <1>15, <1>16, <1>17 DEF Next, Importer

(* The ISO is the one that the request has checked, against os-profiles too. *)
CheckedIso == Working \/ request = "entered" => iso \in ValidIsos

LEMMA CheckedStep ==
    ASSUME Undisturbed, OwnedInv, CheckedIso, [Next]_vars
    PROVE  CheckedIso'
<1> USE DEF CheckedIso, Working, Idle, ImportGoesOn, contents
<1>1. ASSUME UNCHANGED iso, importer' = importer \/ importer \notin {"none", "restart"},
             request' = request \/ request' # "entered"
      PROVE  CheckedIso'
  BY <1>1
<1>2. Fail /\ importer # "none" /\ UNCHANGED request => CheckedIso'
  BY DEF Fail, OwnedInv
<1>3. CASE UNCHANGED vars
  BY <1>3 DEF vars
<1>4. CASE LitpdDies \/ StartLitpd \/ EndImportRequest
  BY <1>1, <1>4 DEF LitpdDies, StartLitpd, EndImportRequest, ModeOf
<1>5. CASE BeginImport
  BY <1>5 DEF BeginImport
<1>6. CASE Fork
  BY <1>6 DEF Fork, OwnedInv
<1>7. CASE \E on \in BOOLEAN : SetMaintenance(on)
  BY <1>1, <1>7 DEF SetMaintenance, ModeOf
<1>8. CASE BeginPackages \/ RsyncPackages \/ CreatePackagesRepo \/ CleanPackagesCache
  BY <1>1, <1>8 DEF BeginPackages, RsyncPackages, CreatePackagesRepo, CleanPackagesCache
<1>9. CASE StartPlan \/ EndPlan
  BY <1>1, <1>9 DEF StartPlan, EndPlan
<1>10. CASE Exec
  BY <1>1, <1>10 DEF Exec
<1>11. CASE Parse
  <2>1. CASE Fail
    BY <1>2, <1>11, <2>1 DEF Parse
  <2>2. CASE ~Fail
    <3>1. PICK found \in {iso, Unmounted} :
             IsoErrors(found, {}, NotADirectory) = {} /\ iso' = found
      BY <1>11, <2>2 DEF Parse, Undisturbed
    <3>2. iso' = iso
      BY <3>1, NotUnmounted
    <3> QED
      BY <1>1, <1>11, <3>2 DEF Parse
  <2> QED
    BY <2>1, <2>2
<1>12. CASE RunAction \/ DisablePuppet \/ WaitForRuns
  BY <1>1, <1>2, <1>12 DEF RunAction, DisablePuppet, WaitForRuns
<1>13. CASE EnablePuppet
  BY <1>1, <1>2, <1>13 DEF EnablePuppet, EnableOn
<1>14. CASE BeginRun
  BY <1>1, <1>2, <1>14 DEF BeginRun
<1>15. CASE DisableAll \/ QueryApplying \/ TriggerBatch \/ DisableBatch \/ CheckRun \/ RefreshStats
  BY <1>1, <1>15 DEF DisableAll, QueryApplying, TriggerBatch, DisableBatch, CheckRun, RefreshStats
<1>16. CASE EnableAll
  <2>1. importer \in {"run_ms", "run_nodes"}
    BY <1>16 DEF EnableAll, OwnedInv
  <2> QED
    BY <1>1, <1>2, <1>16, <2>1 DEF EnableAll
<1>17. CASE Finish
  BY <1>1, <1>17 DEF Finish
<1>18. CASE RestartLitpd \/ ImporterDies
  BY <1>18 DEF RestartLitpd, ImporterDies, OwnedInv
<1>19. ASSUME NEW n \in Node, StartRun(n) \/ EndRun(n) PROVE CheckedIso'
  BY <1>1, <1>19 DEF StartRun, EndRun
<1> QED
  BY <1>3, <1>4, <1>5, <1>6, <1>7, <1>8, <1>9, <1>10, <1>11, <1>12, <1>13, <1>14,
     <1>15, <1>16, <1>17, <1>18, <1>19 DEF Next, Importer

(* Puppet is disabled once the action that disables it is done. *)
PuppetOff ==
    importer = "quiet" \/ (importer = "work" /\ ~Has(todo, "DISABLE_PUPPET")) =>
        \A n \in Node : agent[n].enabled = FALSE

LEMMA PuppetOffStep ==
    ASSUME OwnedInv, TodoInv, PuppetOff, [Next]_vars
    PROVE  PuppetOff'
<1> USE DEF Idle, ImportGoesOn, contents
<1>0. AgentType
  BY DEF OwnedInv
<1>1. ASSUME UNCHANGED <<importer, todo, agent>> PROVE PuppetOff'
  BY <1>1 DEF PuppetOff
<1>2. ASSUME importer' \notin {"work", "quiet"} PROVE PuppetOff'
  BY <1>2 DEF PuppetOff
<1>3. Fail => PuppetOff'
  BY <1>2 DEF Fail
<1>4. CASE UNCHANGED vars
  BY <1>1, <1>4 DEF vars
<1>5. CASE LitpdDies \/ StartLitpd \/ BeginImport \/ EndImportRequest
  BY <1>1, <1>5 DEF LitpdDies, StartLitpd, BeginImport, EndImportRequest, ModeOf
<1>6. CASE Fork
  BY <1>2, <1>6 DEF Fork, OwnedInv
<1>7. CASE \E on \in BOOLEAN : SetMaintenance(on)
  BY <1>1, <1>7 DEF SetMaintenance, ModeOf
<1>8. CASE BeginPackages \/ RsyncPackages \/ CreatePackagesRepo \/ CleanPackagesCache
  BY <1>1, <1>8 DEF BeginPackages, RsyncPackages, CreatePackagesRepo, CleanPackagesCache
<1>9. CASE StartPlan \/ EndPlan
  BY <1>1, <1>9 DEF StartPlan, EndPlan
<1>10. CASE Exec \/ Finish \/ RestartLitpd \/ ImporterDies
  BY <1>2, <1>10 DEF Exec, Finish, RestartLitpd, ImporterDies
<1>11. CASE Parse
  <2>1. CASE Fail
    BY <1>3, <2>1
  <2>2. CASE ~Fail
    <3>1. Parses
      BY <1>11, <2>2 DEF Parse, Parses
    <3>2. iso' \in Isos
      BY <3>1, ParsesIso
    <3>3. Has(todo', "DISABLE_PUPPET")
      BY <3>1, <3>2, ActionsInOrder DEF Parses, Whole
    <3>4. importer' = "work"
      BY <3>1 DEF Parses
    <3> QED
      BY <3>3, <3>4 DEF PuppetOff
  <2> QED
    BY <2>1, <2>2
<1>12. CASE RunAction
  <2>1. CASE Fail
    BY <1>3, <2>1
  <2>2. CASE ~Fail
    <3>1. /\ todo' = Tail(todo) /\ UNCHANGED <<importer, iso, agent>> /\ importer = "work"
          /\ Head(todo).verb \notin {"DISABLE_PUPPET", "ENABLE_PUPPET"}
      BY <1>12, <2>2 DEF RunAction
    <3>2. Elems(todo) = {Head(todo)} \cup Elems(todo')
      BY <3>1, OneLess DEF TodoInv, AtWork
    <3>3. ~Has(todo', "DISABLE_PUPPET") => ~Has(todo, "DISABLE_PUPPET")
      BY <3>1, <3>2 DEF Has
    <3> QED
      BY <3>1, <3>3 DEF PuppetOff
  <2> QED
    BY <2>1, <2>2
<1>13. CASE DisablePuppet
  <2>1. CASE agent' = Disable(Node)
    <3>1. \A n \in Node : agent'[n].enabled = FALSE
      BY <1>0, <2>1, Switched
    <3> QED
      BY <3>1 DEF PuppetOff
  <2> QED
    BY <1>3, <1>13, <2>1 DEF DisablePuppet
<1>14. CASE WaitForRuns
  <2>1. CASE Fail
    BY <1>3, <2>1
  <2>2. CASE ~Fail
    <3>1. importer = "quiet" /\ UNCHANGED agent
      BY <1>14 DEF WaitForRuns
    <3> QED
      BY <3>1 DEF PuppetOff
  <2> QED
    BY <2>1, <2>2
<1>15. CASE EnablePuppet
  BY <1>2, <1>3, <1>15 DEF EnablePuppet, EnableOn
<1>16. CASE BeginRun
  BY <1>2, <1>3, <1>16 DEF BeginRun
<1>17. CASE DisableAll \/ QueryApplying \/ TriggerBatch \/ DisableBatch \/ CheckRun \/ RefreshStats
  BY <1>2, <1>17 DEF DisableAll, QueryApplying, TriggerBatch, DisableBatch, CheckRun,
                     RefreshStats, OwnedInv
<1>18. CASE EnableAll
  BY <1>2, <1>3, <1>18 DEF EnableAll
<1>19. ASSUME NEW n \in Node, StartRun(n) \/ EndRun(n) PROVE PuppetOff'
  <2>1. UNCHANGED <<importer, todo>>
    BY <1>19 DEF StartRun, EndRun
  <2>2. \A m \in Node : agent'[m].enabled = agent[m].enabled
    BY <1>0, <1>19 DEF StartRun, EndRun, AgentType
  <2> QED
    BY <2>1, <2>2 DEF PuppetOff
<1> QED
  BY <1>4, <1>5, <1>6, <1>7, <1>8, <1>9, <1>10, <1>11, <1>12, <1>13, <1>14, <1>15, <1>16,
     <1>17, <1>18, <1>19 DEF Next, Importer

(* A repository without a current index is still to get one, and caches that are older
   than a repository are still to be cleaned. *)
StaleInv ==
    /\ stale \cap Profile = {}
    /\ AtWork => \A r \in Updated(iso) : r \in stale => Action("CREATE_REPO", r) \in Elems(todo)
    /\ AtWork /\ Updated(iso) # {} /\ stale \cap Node # {} => Has(todo, "CLEAN_YUM_CACHE")

LEMMA ValidRepos ==
    ASSUME NEW i \in ValidIsos PROVE i \in Isos /\ Updated(i) \cap Profile = {}
<1>1. i \in Isos /\ IsoErrors(i, Profile, NotADirectory) = {}
  BY DEF ValidIsos
<1>2. ContentErrors(i, Profile, NotADirectory) = {}
  BY <1>1 DEF IsoErrors
<1>3. ASSUME NEW s \in Found(i) PROVE Repository(s) \notin Profile
  <2>1. RepoErrors(i, s, Profile, NotADirectory) \subseteq ContentErrors(i, Profile, NotADirectory)
    <3>1. RepoErrors(i, s, Profile, NotADirectory)
          \in {RepoErrors(i, t, Profile, NotADirectory) : t \in Found(i)}
      OBVIOUS
    <3>2. RepoErrors(i, s, Profile, NotADirectory)
          \subseteq UNION {RepoErrors(i, t, Profile, NotADirectory) : t \in Found(i)}
      BY <3>1
    <3> QED
      BY <3>2 DEF ContentErrors
  <2>2. "profile" \notin RepoErrors(i, s, Profile, NotADirectory)
    BY <1>2, <2>1
  <2> QED
    BY <2>2 DEF RepoErrors
<1> QED
  BY <1>1, <1>3 DEF Updated

LEMMA StaleStep ==
    ASSUME OwnedInv, TodoInv, PackagesType, NoOther, CheckedIso, StaleInv, [Next]_vars
    PROVE  StaleInv'
<1>1. CASE Aside
  BY <1>1 DEF Aside, StaleInv, AtWork
<1>2. ASSUME Ends, stale' \cap Profile = {} PROVE StaleInv'
  BY <1>2 DEF Ends, StaleInv
<1>3. CASE Ends /\ UNCHANGED stale
  BY <1>2, <1>3 DEF StaleInv
<1>4. CASE Supplies
  <2>1. ~AtWork'
    BY <1>4 DEF Supplies, NoOther, Working, AtWork
  <2>2. packages.repo \notin Profile
    BY <1>4 DEF Supplies, PackagesType
  <2>3. stale' \cap Profile = {}
    BY <1>4, <2>2, NamesAssumption DEF Supplies, StaleInv
  <2> QED
    BY <2>1, <2>3 DEF StaleInv
<1>5. CASE Parses
  <2>1. iso' \in Isos
    BY <1>5, ParsesIso
  <2>2. Whole(todo', iso')
    BY <1>5, <2>1, ActionsInOrder DEF Parses
  <2> QED
    BY <1>5, <2>2 DEF Parses, StaleInv, Whole
<1>6. CASE Acts
  <2> DEFINE h == Head(todo)
  <2>1. PICK o \in Outcomes(h.verb) :
           /\ stale' = Effect(h, o)
           /\ Ends \/ (o.well /\ todo' = Tail(todo) /\ UNCHANGED <<importer, file, iso>>)
    BY <1>6 DEF Acts
  <2>2. importer = "work" /\ h.verb # "ENABLE_PUPPET" /\ iso \in Isos /\ InOrder(todo, iso)
    BY <1>6 DEF Acts, TodoInv, AtWork
  <2>3. /\ h.verb \in Verbs /\ Elems(todo) = {h} \cup Elems(Tail(todo))
        /\ h.verb = "RSYNC_RPMS" => Action("CREATE_REPO", h.on) \in Elems(Tail(todo))
    BY <2>2, OneLess
  <2>4. \A x \in stale' : \/ x \in stale
                          \/ h.verb = "RSYNC_RPMS" /\ x = h.on
                          \/ h.verb = "CREATE_REPO" /\ x \in Node
                          \/ h.verb = "RSYNC_IMAGES" /\ x \in Images(iso)
    BY <2>1, <2>3, EffectBound
  <2>5. h.verb \in {"RSYNC_RPMS", "CREATE_REPO"} => h.on \in Updated(iso)
    BY <2>2, <2>3 DEF InOrder
  <2>6. Updated(iso) \cap Profile = {}
    BY <2>2, ValidRepos DEF CheckedIso, Working
  <2>7. /\ Updated(iso) \cap Node = {} /\ Node \cap Profile = {}
        /\ Images(iso) \cap (Updated(iso) \cup Node \cup Profile) = {}
    BY <2>2, UpdatedRepos, ImagesNames, NamesAssumption
  <2> HIDE DEF h
  <2>8. stale' \cap Profile = {}
    BY <2>4, <2>5, <2>6, <2>7 DEF StaleInv
  <2>9. CASE o.well /\ todo' = Tail(todo) /\ UNCHANGED <<importer, file, iso>>
    <3>1. /\ h.verb = "CREATE_REPO" => \A x \in stale' : x # h.on \/ x \in Node
          /\ h.verb = "CLEAN_YUM_CACHE" => stale' \cap Node = {}
      BY <2>1, <2>3, <2>9, EffectDone DEF h
    <3>2. ASSUME NEW r \in Updated(iso), r \in stale'
          PROVE  Action("CREATE_REPO", r) \in Elems(todo')
      <4>1. r \notin Node /\ r \notin Images(iso)
        BY <2>7
      <4>2. CASE h.verb = "RSYNC_RPMS" /\ r = h.on
        BY <2>3, <2>9, <4>2
      <4>3. CASE r \in stale
        <5>1. Action("CREATE_REPO", r) \in Elems(todo)
          BY <2>2, <4>3 DEF StaleInv, AtWork
        <5>2. Action("CREATE_REPO", r) # h
          BY <3>1, <3>2, <4>1 DEF Action
        <5> QED
          BY <2>3, <2>9, <5>1, <5>2
      <4> QED
        BY <2>4, <3>2, <4>1, <4>2, <4>3
    <3>3. ASSUME Updated(iso) # {}, NEW x \in Node, x \in stale'
          PROVE  Has(todo', "CLEAN_YUM_CACHE")
      <4>1. x \in stale \/ h.verb = "CREATE_REPO"
        BY <2>4, <2>5, <2>7, <3>3
      <4>2. Has(todo, "CLEAN_YUM_CACHE")
        <5>1. CASE x \in stale
          BY <2>2, <3>3, <5>1 DEF StaleInv, AtWork
        <5>2. CASE h.verb = "CREATE_REPO"
          BY <2>2, <2>3, <5>2 DEF InOrder, Has
        <5> QED
          BY <4>1, <5>1, <5>2
      <4>3. h.verb # "CLEAN_YUM_CACHE"
        BY <3>1, <3>3
      <4> QED
        BY <2>3, <2>9, <4>2, <4>3 DEF Has
    <3> QED
      BY <2>8, <2>9, <3>2, <3>3 DEF StaleInv
  <2> QED
    BY <1>2, <2>1, <2>8, <2>9
<1>7. CASE Quiets
  BY <1>7 DEF Quiets, StaleInv, AtWork
<1>8. CASE Resumes
  <2>1. /\ iso \in Isos /\ InOrder(todo, iso) /\ Head(todo).verb = "DISABLE_PUPPET" /\ AtWork
    BY <1>8 DEF Resumes, TodoInv, AtWork
  <2>2. Elems(todo) = {Head(todo)} \cup Elems(todo')
    BY <1>8, <2>1, OneLess DEF Resumes
  <2>3. \A x : Action("CREATE_REPO", x) # Head(todo)
    BY <2>1 DEF Action
  <2>4. Has(todo, "CLEAN_YUM_CACHE") => Has(todo', "CLEAN_YUM_CACHE")
    BY <2>1, <2>2 DEF Has
  <2> QED
    BY <1>8, <2>1, <2>2, <2>3, <2>4 DEF Resumes, StaleInv
<1>9. CASE Enables
  BY <1>9 DEF Enables, StaleInv, AtWork
<1>10. CASE Finishes
  BY <1>10 DEF Finishes, StaleInv
<1> QED
  BY <1>1, <1>3, <1>4, <1>5, <1>6, <1>7, <1>8, <1>9, <1>10, ImportSteps

(* IsoImporter: unless LITP is opened by hand, what was asked for before the import takes
   effect late or something else is mounted, packages change only while Puppet is disabled
   on all nodes, and they are installed from repositories with a new index and without an
   older yum cache, for any nodes and ISO images, whatever imports failed before; and
   nobody writes to a repository that an os-profile uses. *)
THEOREM PackagesAlwaysChangeSafely ==
    ASSUME Undisturbed
    PROVE  Spec => []PackagesChangeSafely
<1> DEFINE Inv == /\ OwnedInv /\ AloneInv /\ TodoInv /\ PackagesType /\ NoOther /\ CheckedIso
                  /\ PuppetOff /\ StaleInv
<1>1. Init => AloneInv /\ NoOther /\ CheckedIso /\ PuppetOff /\ StaleInv
  BY DEF Init, AloneInv, Closed, RequestHolds, NoOther, CheckedIso, Working, PuppetOff, StaleInv,
         AtWork
<1>2. Inv => PackagesChangeSafely
  <2> SUFFICES ASSUME Inv PROVE PackagesChangeSafely
    OBVIOUS
  <2> DEFINE h == Head(todo)
  <2>1. ASSUME importer = "work"
        PROVE  \A x \in Elems(todo) : Rank(h.verb) <= Rank(x.verb)
    <3>1. iso \in Isos /\ InOrder(todo, iso)
      BY <2>1 DEF TodoInv, AtWork
    <3> QED
      BY <3>1, TailOrdered, JobVerbs DEF InOrder, Has
  <2>2. ASSUME importer = "work",
               h.verb \in {"RSYNC_RPMS", "CREATE_REPO", "CLEAN_YUM_CACHE", "INSTALL_RPMS"}
        PROVE  \A n \in Node : ~agent[n].enabled
    <3>1. ~Has(todo, "DISABLE_PUPPET")
      BY <2>1, <2>2, Ranks DEF Has
    <3> QED
      BY <2>2, <3>1 DEF PuppetOff
  <2>3. ASSUME importer = "work", h.verb = "INSTALL_RPMS"
        PROVE  stale \cap Updated(iso) = {} /\ (Updated(iso) # {} => stale \cap Node = {})
    <3>1. ~Has(todo, "CLEAN_YUM_CACHE") /\ ~Has(todo, "CREATE_REPO")
      BY <2>1, <2>3, Ranks DEF Has
    <3>2. \A r : Action("CREATE_REPO", r) \notin Elems(todo)
      BY <3>1 DEF Has, Action
    <3> QED
      BY <2>3, <3>1, <3>2 DEF StaleInv, AtWork
  <2>4. stale \cap Profile = {}
    BY DEF StaleInv
  <2> QED
    BY <2>2, <2>3, <2>4 DEF PackagesChangeSafely, Updated
<1>3. OwnedInv /\ AloneInv /\ [Next]_vars => AloneInv'
  BY AloneStep DEF Undisturbed
<1>4. OwnedInv /\ AloneInv /\ NoOther /\ [Next]_vars => NoOther'
  BY NoOtherStep
<1>5. OwnedInv /\ CheckedIso /\ [Next]_vars => CheckedIso'
  BY CheckedStep
<1>6. OwnedInv /\ TodoInv /\ PuppetOff /\ [Next]_vars => PuppetOff'
  BY PuppetOffStep
<1>7. OwnedInv /\ TodoInv /\ PackagesType /\ NoOther /\ CheckedIso /\ StaleInv /\ [Next]_vars
      => StaleInv'
  BY StaleStep
<1>8. Inv /\ [Next]_vars => Inv'
  BY <1>3, <1>4, <1>5, <1>6, <1>7, NextOwned, TodoStep, PackagesStep
<1>9. Init => Inv
  BY <1>1, InitOwned, InitTodo, InitPackages
<1> QED
  BY <1>2, <1>8, <1>9, PTL DEF Spec

=============================================================================
