----------------------------- MODULE IsoImport -----------------------------
(***************************************************************************)
(* Import of an ISO image and maintenance mode.  The request puts litpd    *)
(* into maintenance mode, in which it answers 503 to everything but        *)
(* /litp/maintenance, and forks the importer, a process of its own that    *)
(* disables Puppet, updates repositories and packages (among them LITP,    *)
(* whose update restarts litpd), lets every node apply a new catalog and   *)
(* restarts litpd.  At each start litpd decides by the state file whether  *)
(* it stays in maintenance mode.                                           *)
(*                                                                         *)
(* The Puppet agents, which also start runs of their own, are external.    *)
(***************************************************************************)
EXTENDS IsoLayout

CONSTANTS
    Node,           \* hostnames of the installed nodes, the management server among them
    MS,             \* the management server
    Concurrency,    \* PUPPET_CONCURRENCY
    MaxIterations,  \* max_iterations of trigger_and_wait
    MaxImports,     \* bound: imports in a behaviour
    Isos,           \* the ISO images there are
    Destination,    \* repositories that packages are imported into one by one
    Profile,        \* repositories of os-profiles: nobody may write to them
    NotADirectory,  \* repositories whose directory is a plain file
    Faults          \* what else happens: see below

ASSUME ImportAssumption ==
    /\ MS \in Node /\ IsFiniteSet(Node)
    /\ Concurrency \in Nat \ {0}
    /\ MaxIterations \in Nat /\ MaxImports \in Nat
    /\ Faults \subseteq {"user", "uncommitted", "late_plan", "lost", "importer_at_end",
                         "late_packages", "iso_changed"}

(* Faults: somebody leaves maintenance mode by hand during an import ("user"); litpd
   dies after the importer was forked and before the request is committed; run_plan's
   message is taken after the import began; a command to enable or disable Puppet does
   not reach a node and trigger_and_wait only logs it ("lost"); the importer dies
   between its last entry in the state file and the restart of litpd; a request to import
   packages is still at work when the import begins; something else is mounted when the
   importer looks at the ISO again. *)

VARIABLES
    enabled,    \* property of /litp/maintenance, as committed
    litpd,      \* "open", "closed" (maintenance mode) or "down"
    request,    \* the import request: "none", "entered", "forked" or "refused"
    file,       \* maintenance_job_state.txt: "absent" or its state
    importer,   \* what the importer does next, "none" without one
    plan,       \* is a plan running?
    version,    \* litp_config_version
    agent,      \* node -> its Puppet agent
    run,        \* local variables of trigger_and_wait
    iso,        \* the ISO that is imported
    todo,       \* actions that the importer has still to do
    stale,      \* repositories without a current index, images that are not verified,
                \* nodes whose yum cache is older than a repository
    packages    \* a request to import packages: what it does next, and its repository

contents == <<iso, todo, stale, packages>>
vars == <<enabled, litpd, request, file, importer, plan, version, agent, run, contents>>

Repo == {Repository(s) : s \in Source}

\* Nodes, repositories and images are things of different kinds.
ASSUME NamesAssumption ==
    /\ Node \cap (Repo \cup Destination \cup Profile) = {}
    /\ \A i \in Isos : /\ IsFiniteSet(Pictures(i))
                      /\ Pictures(i) \cap (Node \cup Repo \cup Destination \cup Profile) = {}

NoPackages == [next |-> "idle", repo |-> "none", appstream |-> FALSE]
\* An ISO that is not mounted
Unmounted == [path |-> "absent", images |-> "absent", picture |-> << >>, repos |-> "absent",
              rpms |-> [s \in Source |-> [kind |-> "absent", empty |-> FALSE]]]
ValidIsos == {i \in Isos : IsoErrors(i, Profile, NotADirectory) = {}}

\* PathValidator, for the destination of packages that exist
PathOk(r) == r \notin Profile

\* What comes of commands to the agents: of the importer, which takes a message on standard
\* error for a failure, and of PackagesImport, which does not.
MsOutcomes == RpcOutcomes({MS}, 0, TRUE)
AllOutcomes == RpcOutcomes(Node, 0, TRUE)
PackagesMsOutcomes == RpcOutcomes({MS}, 0, FALSE)
PackagesAllOutcomes == RpcOutcomes(Node, 0, FALSE)
RsyncOutcomes == RpcOutcomes({MS}, 2, FALSE)

NoRun == [pc |-> "idle", nodes |-> {}, untriggered |-> {}, batch |-> {}, applying |-> {},
          before |-> {}, iterations |-> 0]

TypeOK ==
    /\ enabled \in BOOLEAN /\ plan \in BOOLEAN
    /\ litpd \in {"open", "closed", "down"}
    /\ request \in {"none", "entered", "forked", "refused"}
    /\ file \in {"absent", "Starting", "Running", "Done", "Failed"}
    /\ importer \in {"none", "exec", "parse", "work", "quiet", "run_ms",
                     "enable_nodes", "run_nodes", "finish", "restart"}
    /\ version \in 0 .. MaxImports
    /\ agent \in [Node -> [enabled : BOOLEAN, catalog : -1 .. MaxImports,
                           applied : 0 .. MaxImports]]
    /\ run \in [pc : {"idle", "disable", "query", "enable", "wait", "check", "stats", "done", "error"},
                nodes : SUBSET Node, untriggered : SUBSET Node, batch : SUBSET Node,
                applying : SUBSET Node, before : SUBSET Node, iterations : 0 .. MaxIterations]
    /\ iso \in Isos \cup {Unmounted}
    /\ stale \subseteq Repo \cup Node \cup UNION {Pictures(i) : i \in Isos}
    /\ packages \in {NoPackages} \cup [next : {"rsync", "create", "clean"}, repo : Repo, appstream : BOOLEAN]

-----------------------------------------------------------------------------
(* The state file and the start of litpd *)

Working == importer \notin {"none", "restart"}

\* Mutant: the state file is believed, whether its process is alive or not.
ReadStateBelieved ==
    CASE file = "absent" -> "None"
      [] file \in {"Done", "Failed", "Running"} -> file
      [] file = "Starting" -> "Unknown"

(* StateFile.read_state: "Starting" is none of the states it knows *)
ReadState ==
    CASE file = "absent" -> "None"
      [] file \in {"Done", "Failed"} -> file
      [] file = "Running" -> IF importer # "none" THEN "Running" ELSE "Failed"
      [] file = "Starting" -> "Unknown"

(* LitpServiceController._get_statefile_value, what a GET of /litp/maintenance shows *)
Report ==
    CASE ReadState = "Unknown" -> "Failed"
      [] ReadState = "None" -> "Done"
      [] OTHER -> ReadState

\* Mutant: litpd resumes normal operation unless the import is known to run or to have failed.
StatesToRemainKnown == {"Running", "Failed"}

(* states_to_remain of initialize_maintenance *)
StatesToRemain == {"Running", "Failed", "Unknown", "None"}

(* enter_maintenance_mode, exit_maintenance_mode: what the dispatcher of litpd does with
   requests from then on.  Who asked for it, the initiator, is left out. *)
ModeOf(on) == IF on THEN "closed" ELSE "open"

(* litpd stops or dies, with the session of the request *)
LitpdDies ==
    /\ litpd # "down"
    /\ request = "forked" => "uncommitted" \in Faults
    /\ litpd' = "down"
    /\ request' = "none"
    /\ packages' = NoPackages
    /\ UNCHANGED <<enabled, file, importer, plan, version, agent, run, iso, todo, stale>>

(* initialize_maintenance *)
StartLitpd ==
    /\ litpd = "down"
    /\ IF enabled /\ ReadState \in StatesToRemain
       THEN litpd' = ModeOf(TRUE) /\ UNCHANGED <<enabled, file>>
       ELSE litpd' = ModeOf(FALSE) /\ enabled' = FALSE /\ file' = "absent"
    /\ UNCHANGED <<request, importer, plan, version, agent, run, contents>>

-----------------------------------------------------------------------------
(* Requests *)

(* PUT /litp/maintenance, allowed in maintenance mode and while a plan runs *)
SetMaintenance(on) ==
    /\ litpd # "down" /\ request = "none"
    /\ ~on /\ importer # "none" => "user" \in Faults
    /\ enabled' = on
    /\ litpd' = ModeOf(on)
    /\ UNCHANGED <<request, file, importer, plan, version, agent, run, contents>>

(* PUT /litp/import-iso with a valid ISO: ISOImport.run_import enters maintenance mode
   at once, in memory and in its session.  (Bound: one importer.) *)
BeginImport ==
    /\ litpd = "open" /\ request = "none" /\ ~plan
    /\ packages = NoPackages \/ "late_packages" \in Faults
    /\ importer = "none" /\ version < MaxImports
    /\ litpd' = ModeOf(TRUE)
    /\ request' = "entered"
    /\ iso' \in ValidIsos
    /\ UNCHANGED <<enabled, file, importer, plan, version, agent, run, todo, stale, packages>>

(* write_state(STARTING) and run_detached_child; each may fail, which is answered with
   an error *)
Fork ==
    /\ request = "entered"
    /\ \/ file' = "Starting" /\ importer' = "exec" /\ request' = "forked" /\ UNCHANGED iso
       \/ file' \in {"Starting", file} /\ importer' = importer /\ request' = "refused" /\ iso' = Unmounted
    /\ UNCHANGED <<enabled, litpd, plan, version, agent, run, todo, stale, packages>>

(* The request's session is committed, whatever was answered *)
EndImportRequest ==
    /\ request \in {"forked", "refused"}
    /\ enabled' = TRUE
    /\ request' = "none"
    /\ UNCHANGED <<litpd, file, importer, plan, version, agent, run, contents>>

StartPlan ==
    /\ ~plan
    /\ litpd = "open" \/ "late_plan" \in Faults
    /\ plan' = TRUE
    /\ UNCHANGED <<enabled, litpd, request, file, importer, version, agent, run, contents>>

EndPlan ==
    /\ plan
    /\ plan' = FALSE
    /\ UNCHANGED <<enabled, litpd, request, file, importer, version, agent, run, contents>>

(* PUT /import: PackagesImport.run_import copies packages into a repository (of an
   AppStream the index too), makes its index and cleans the nodes' yum caches. *)
BeginPackages ==
    /\ litpd = "open" /\ request = "none" /\ ~plan /\ packages = NoPackages
    /\ \E r \in Destination, appstream \in BOOLEAN :
          /\ PathOk(r)
          /\ packages' = [next |-> "rsync", repo |-> r, appstream |-> appstream]
    /\ UNCHANGED <<enabled, litpd, request, file, importer, plan, version, agent, run,
                   iso, todo, stale>>

RsyncPackages ==
    /\ packages.next = "rsync"
    /\ \E o \in RsyncOutcomes :
          /\ stale' = IF o.done = {} THEN stale
                      ELSE stale \cup (IF packages.appstream THEN Node ELSE {packages.repo})
          /\ packages' = IF o.well /\ ~packages.appstream THEN [packages EXCEPT !.next = "create"]
                         ELSE NoPackages
    /\ UNCHANGED <<enabled, litpd, request, file, importer, plan, version, agent, run, iso, todo>>

CreatePackagesRepo ==
    /\ packages.next = "create"
    /\ \E o \in PackagesMsOutcomes :
          /\ stale' = IF o.done = {} THEN stale ELSE (stale \ {packages.repo}) \cup Node
          /\ packages' = IF o.well THEN [packages EXCEPT !.next = "clean"] ELSE NoPackages
    /\ UNCHANGED <<enabled, litpd, request, file, importer, plan, version, agent, run, iso, todo>>

CleanPackagesCache ==
    /\ packages.next = "clean"
    /\ \E o \in PackagesAllOutcomes : stale' = stale \ o.done
    /\ packages' = NoPackages
    /\ UNCHANGED <<enabled, litpd, request, file, importer, plan, version, agent, run, iso, todo>>

-----------------------------------------------------------------------------
(* The importer *)

Applying == {n \in Node : agent[n].catalog >= 0}
Enable(ns) == [n \in Node |-> IF n \in ns THEN [agent[n] EXCEPT !.enabled = TRUE] ELSE agent[n]]
Disable(ns) == [n \in Node |-> IF n \in ns THEN [agent[n] EXCEPT !.enabled = FALSE] ELSE agent[n]]

(* What a command to ns may have reached when only the log says that it failed *)
Reached(ns) == IF "lost" \in Faults THEN SUBSET ns ELSE {ns}

(* IsoImporter.run after an error: main restarts litpd after an error that an action
   returned, not after an exception *)
Fail ==
    /\ file' = "Failed"
    /\ importer' \in {"restart", "none"}
    /\ run' = NoRun /\ todo' = <<>> /\ iso' = Unmounted

(* The exec in run_detached_child, and the first write_state *)
Exec ==
    /\ importer = "exec"
    /\ \/ file' = "Running" /\ importer' = "parse"
       \/ file' = "Failed" /\ importer' = "none"
    /\ UNCHANGED <<enabled, litpd, request, plan, version, agent, run, contents>>

(* IsoImporter._run_worker looks at the ISO again, without a model to ask for os-profiles;
   it may be gone by now *)
Parse ==
    /\ importer = "parse"
    /\ \E found \in {iso, Unmounted} \cup (IF "iso_changed" \in Faults THEN Isos ELSE {}) :
          IF IsoErrors(found, {}, NotADirectory) # {} THEN Fail
          ELSE /\ iso' = found /\ todo' = IsoActions(found)
               /\ importer' = "work" /\ UNCHANGED <<file, run>>
    /\ UNCHANGED <<enabled, litpd, request, plan, version, agent, stale, packages>>

(* The outcomes of a verb: of a command to the agent of the management server, or of
   all nodes, or of YumImport.import_packages *)
Outcomes(verb) ==
    CASE verb = "CLEAN_YUM_CACHE" -> AllOutcomes
      [] verb = "INSTALL_RPMS" -> InstallOutcomes(MS)
      [] OTHER -> MsOutcomes

(* What an action does, by its outcome *)
Effect(a, o) ==
    IF o.done = {} THEN stale ELSE
    CASE a.verb = "RSYNC_RPMS" -> stale \cup {a.on}
      [] a.verb = "CREATE_REPO" -> (stale \ {a.on}) \cup Node
      [] a.verb = "CLEAN_YUM_CACHE" -> stale \ o.done
      [] a.verb = "RSYNC_IMAGES" -> stale \cup WithMd5(iso) \cup WithoutMd5(iso)
      [] a.verb = "VERIFY_CHECKSUM" /\ o.well -> stale \ {a.on}
      [] OTHER -> stale

(* An action of the loop in _run_worker, with the handler of its verb *)
RunAction ==
    /\ importer = "work"
    /\ Head(todo).verb \notin {"DISABLE_PUPPET", "ENABLE_PUPPET"}
    /\ \E o \in Outcomes(Head(todo).verb) :
          /\ stale' = Effect(Head(todo), o)
          /\ IF o.well THEN todo' = Tail(todo) /\ UNCHANGED <<importer, file, run, iso>> ELSE Fail
    /\ UNCHANGED <<enabled, litpd, request, plan, version, agent, packages>>

(* IsoImporter._disable_puppet: an error of any node, after retries, ends the import *)
DisablePuppet ==
    /\ importer = "work" /\ Head(todo).verb = "DISABLE_PUPPET"
    /\ \/ agent' = Disable(Node) /\ importer' = "quiet" /\ UNCHANGED <<file, run, iso, todo>>
       \/ Fail /\ \E reached \in SUBSET Node : agent' = Disable(reached)
    /\ UNCHANGED <<enabled, litpd, request, plan, version, stale, packages>>

(* PuppetExecutionProcessor.wait: returns when no run is left or after max_iterations *)
WaitForRuns ==
    /\ importer = "quiet"
    /\ \/ importer' = "work" /\ todo' = Tail(todo) /\ UNCHANGED <<file, run, iso>>
       \/ Fail
    /\ UNCHANGED <<enabled, litpd, request, plan, version, agent, stale, packages>>

(* IsoImporter._enable_puppet: a new configuration version, Puppet on the server and a
   run there, then the same on the nodes *)
EnableOn(nodes, next) ==
    /\ version' = IF nodes = {MS} THEN version + 1 ELSE version
    /\ \/ agent' = Enable(nodes) /\ importer' = next /\ UNCHANGED <<file, run, iso, todo>>
       \/ Fail /\ \E reached \in SUBSET nodes : agent' = Enable(reached)
    /\ UNCHANGED <<enabled, litpd, request, plan, stale, packages>>

EnablePuppet ==
    \/ importer = "work" /\ Head(todo).verb = "ENABLE_PUPPET" /\ EnableOn({MS}, "run_ms")
    \/ importer = "enable_nodes" /\ EnableOn(Node \ {MS}, "run_nodes")

(* The last action went well: write_state(DONE) *)
Finish ==
    /\ importer = "finish"
    /\ file' = "Done" /\ importer' = "restart" /\ todo' = <<>>
    /\ UNCHANGED <<enabled, litpd, request, plan, version, agent, run, iso, stale, packages>>

(* main: systemctl restart litpd.service *)
RestartLitpd ==
    /\ importer = "restart"
    /\ importer' = "none"
    /\ litpd' = "down" /\ request' = "none" /\ packages' = NoPackages /\ iso' = Unmounted
    /\ UNCHANGED <<enabled, file, plan, version, agent, run, todo, stale>>

ImporterDies ==
    /\ Working \/ (importer = "restart" /\ "importer_at_end" \in Faults)
    /\ importer' = "none" /\ run' = NoRun /\ todo' = <<>> /\ iso' = Unmounted
    /\ UNCHANGED <<enabled, litpd, request, file, plan, version, agent, stale, packages>>

-----------------------------------------------------------------------------
(* PuppetCatalogRunProcessor.trigger_and_wait *)

Idle == UNCHANGED <<enabled, litpd, request, plan, version, stale, packages>>
ImportGoesOn == Idle /\ UNCHANGED <<file, importer, iso, todo>>

(* The call: refused while a plan is known to run (`litp show' is answered 503 in
   maintenance mode) and when mco find shows no node *)
BeginRun ==
    /\ importer \in {"run_ms", "run_nodes"} /\ run.pc = "idle"
    /\ LET nodes == IF importer = "run_ms" THEN {MS} ELSE Node \ {MS}
       IN  \/ /\ ~(litpd = "open" /\ plan)
              /\ run' = [NoRun EXCEPT !.pc = "disable", !.nodes = nodes, !.untriggered = nodes]
              /\ UNCHANGED <<file, importer, iso, todo>>
           \/ Fail
    /\ Idle /\ UNCHANGED agent

(* Puppet is disabled on all nodes; runs that have begun go on *)
DisableAll ==
    /\ run.pc = "disable"
    /\ \E reached \in Reached(Node) : agent' = Disable(reached)
    /\ run' = [run EXCEPT !.pc = "query", !.before = Applying]
    /\ ImportGoesOn

\* Mutant: the nodes that are applying a catalog already do not count.
CapacityOfAll(applying) == Concurrency

Capacity(applying) == Concurrency - Cardinality(applying)

(* _trigger_puppet_with_concurrency: which nodes are applying, hence how many may be
   triggered; none when the question is not answered or none may *)
QueryApplying ==
    /\ run.pc = "query"
    /\ LET candidates == run.untriggered \ Applying
           batches == {b \in SUBSET candidates : b # {} /\ Cardinality(b) <= Capacity(Applying)}
           full == {b \in batches : b = candidates \/ Cardinality(b) = Capacity(Applying)}
       IN  \/ run' = [run EXCEPT !.pc = "check"]
           \/ \E b \in full : run' = [run EXCEPT !.pc = "enable", !.batch = b]
    /\ ImportGoesOn /\ UNCHANGED agent

(* ... Puppet is enabled on them, and `mco puppet runonce' triggers some of them *)
TriggerBatch ==
    /\ run.pc = "enable"
    /\ \E reached \in Reached(run.batch) : agent' = Enable(reached)
    /\ \E triggered \in SUBSET run.batch :
          run' = [run EXCEPT !.pc = "wait", !.untriggered = @ \ triggered]
    /\ ImportGoesOn

(* ... _wait_for_nodes_to_apply returns when all have begun or after max_iterations,
   and Puppet is disabled again *)
DisableBatch ==
    /\ run.pc = "wait"
    /\ \E reached \in Reached(run.batch) : agent' = Disable(reached)
    /\ run' = [run EXCEPT !.pc = "check", !.batch = {}]
    /\ ImportGoesOn

(* The loop: the end, a timeout, or the question which nodes are applying *)
CheckRun ==
    /\ run.pc = "check"
    /\ run' = CASE run.nodes = {} -> [run EXCEPT !.pc = "done"]
                [] run.nodes # {} /\ run.iterations = MaxIterations -> [run EXCEPT !.pc = "error"]
                [] OTHER -> [run EXCEPT !.pc = "stats", !.applying = Applying \cap run.nodes]
    /\ ImportGoesOn /\ UNCHANGED agent

\* Mutant: a node has completed when it applies the new version or an older one is over.
CompletedRuns == {n \in run.nodes : agent[n].applied >= version \/ n \notin run.applying}

(* _update_refreshed_nodes *)
Completed == {n \in run.nodes : agent[n].applied >= version}

(* ... which nodes have applied the version; those that were triggered, are not
   applying and have not are triggered again.  A question that fails changes nothing. *)
RefreshStats ==
    /\ run.pc = "stats"
    /\ LET nodes == run.nodes \ Completed
           untriggered == run.untriggered \ Completed
           failed == (nodes \ untriggered) \ run.applying
           next == [run EXCEPT !.nodes = nodes, !.untriggered = untriggered \cup failed,
                               !.applying = {}, !.iterations = @ + 1]
       IN  \/ run' = [next EXCEPT !.pc = IF nodes = {} THEN "done" ELSE "query"]
           \/ run' = [run EXCEPT !.pc = "query", !.applying = {}, !.iterations = @ + 1]
    /\ ImportGoesOn /\ UNCHANGED agent

(* The finally block enables Puppet on all nodes, and raises an exception when mco
   could not be run *)
EnableAll ==
    /\ run.pc \in {"done", "error"}
    /\ \/ /\ \E reached \in Reached(Node) : agent' = Enable(reached)
          /\ IF run.pc = "error" THEN Fail
             ELSE /\ importer' = IF importer = "run_ms" THEN "enable_nodes" ELSE "finish"
                  /\ run' = NoRun /\ UNCHANGED <<file, iso, todo>>
       \/ Fail /\ UNCHANGED agent
    /\ Idle

-----------------------------------------------------------------------------
(* The agents: a run starts when Puppet is enabled, triggered or on its own schedule,
   with the catalog of the current version, and ends well or without having applied it *)
StartRun(n) ==
    /\ agent[n].enabled /\ agent[n].catalog < 0
    /\ agent' = [agent EXCEPT ![n].catalog = version]
    /\ ImportGoesOn /\ UNCHANGED run

EndRun(n) ==
    /\ agent[n].catalog >= 0
    /\ \E applied \in {agent[n].catalog, agent[n].applied} :
          agent' = [agent EXCEPT ![n].catalog = -1, ![n].applied = applied]
    /\ ImportGoesOn /\ UNCHANGED run

-----------------------------------------------------------------------------
Init ==
    /\ enabled = FALSE /\ litpd = "open" /\ request = "none"
    /\ file = "absent" /\ importer = "none"
    /\ plan = FALSE /\ version = 0
    /\ agent = [n \in Node |-> [enabled |-> TRUE, catalog |-> -1, applied |-> 0]]
    /\ run = NoRun
    /\ iso = Unmounted /\ todo = <<>> /\ stale = {} /\ packages = NoPackages

Importer ==
    \/ Exec \/ Parse \/ RunAction \/ DisablePuppet \/ WaitForRuns \/ EnablePuppet
    \/ BeginRun \/ DisableAll \/ QueryApplying \/ TriggerBatch \/ DisableBatch
    \/ CheckRun \/ RefreshStats \/ EnableAll \/ Finish \/ RestartLitpd

Next ==
    \/ LitpdDies \/ StartLitpd \/ BeginImport \/ Fork \/ EndImportRequest
    \/ \E on \in BOOLEAN : SetMaintenance(on)
    \/ BeginPackages \/ RsyncPackages \/ CreatePackagesRepo \/ CleanPackagesCache
    \/ StartPlan \/ EndPlan \/ Importer \/ ImporterDies
    \/ \E n \in Node : StartRun(n) \/ EndRun(n)

(* The importer does not wait for anybody, its loops being bounded.  Nothing starts litpd
   again when it dies ("Restart=no"), but the importer restarts it after it has
   written Done. *)
Spec == Init /\ [][Next]_vars /\ WF_vars(Importer) /\ WF_vars(StartLitpd /\ file = "Done")

-----------------------------------------------------------------------------
(* While an importer works LITP accepts no request and runs no plan, however often
   litpd is restarted meanwhile. *)
ImportAlone == Working => litpd # "open" /\ ~plan

(* When the importer reports success every node has applied the catalog of the new
   version, Puppet is enabled on all of them again, and the images of the ISO have been
   verified where they are served from. *)
DoneMeansApplied ==
    importer = "restart" /\ file = "Done" =>
        /\ \A n \in Node : agent[n].enabled /\ agent[n].applied = version
        /\ stale \cap (WithMd5(iso) \cup WithoutMd5(iso)) = {}

(* Packages change only while Puppet is disabled everywhere, so that no agent installs
   from a repository that is half there; and they are installed from repositories whose
   index is new, with no yum cache that is older, whatever an earlier import that failed
   has left behind.  Nobody writes to a repository that an os-profile uses, although the
   importer itself cannot ask which these are. *)
PackagesChangeSafely ==
    /\ stale \cap Profile = {}
    /\ importer = "work" /\ Head(todo).verb \in {"RSYNC_RPMS", "CREATE_REPO", "CLEAN_YUM_CACHE",
                                                "INSTALL_RPMS"} =>
          \A n \in Node : ~agent[n].enabled
    /\ importer = "work" /\ Head(todo).verb = "INSTALL_RPMS" =>
          LET new == {Repository(s) : s \in Found(iso)}
          IN  stale \cap new = {} /\ (new # {} => stale \cap Node = {})

(* trigger_and_wait ("only allowing PUPPET_CONCURRENCY nodes to apply concurrently"):
   more nodes apply a catalog only if all of their runs began before it disabled
   Puppet, whatever the agents do between its questions and commands. *)
ConcurrencyKept ==
    run.pc \notin {"idle", "disable"} =>
        Cardinality(Applying) <= Concurrency \/ Applying \subseteq run.before

(* An import ends: LITP answers requests again, or reports that the import failed. *)
ImportEnds == Working ~> (litpd = "open" \/ Report = "Failed")
=============================================================================
