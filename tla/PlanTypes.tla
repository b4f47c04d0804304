----------------------------- MODULE PlanTypes -----------------------------
(***************************************************************************)
(* The rule sets of the four plan types (plan_types/): the tags that       *)
(* plugins put on tasks, the groups that the tasks of a plan are sorted    *)
(* into, and the rules that choose the group of a task and order the       *)
(* groups.  A group has the name of its tag; tag "none" is no tag at all.  *)
(***************************************************************************)
EXTENDS Integers, Sequences

\* What a rule asks of a task: its tag, its class and what its node or its
\* model item is under.
AnyType == {"Config", "Callback", "Remote", "Cleanup"}
Tagged(tag) == [tag |-> tag, types |-> AnyType, under |-> "any"]
Untagged(type, under) == [tag |-> "none", types |-> {type}, under |-> under]

Rule(group, criteria, requires) ==
    [group |-> group, criteria |-> criteria, requires |-> requires, unmatched |-> FALSE]
Unmatched(rule) == [rule EXCEPT !.unmatched = TRUE]

-----------------------------------------------------------------------------
(* Deployment plans *)

DeploymentTags == {"MS", "BOOT", "UPGRADE_BOOT", "VXVM", "NODE", "CLUSTER",
                   "PRE_NODE", "PRE_CLUSTER", "POST_CLUSTER"}
DeploymentGroups == DeploymentTags

DeploymentRuleset == <<
    Rule("PRE_CLUSTER", {Tagged("PRE_CLUSTER")}, {"BOOT"}),
    Unmatched(Rule("MS", {Tagged("MS"), Untagged("Remote", "ms"), Untagged("Config", "ms"),
                          Untagged("Callback", "ms")}, {})),
    Rule("UPGRADE_BOOT", {Tagged("UPGRADE_BOOT")}, {"PRE_NODE"}),
    Rule("VXVM", {Tagged("VXVM")}, {"UPGRADE_BOOT"}),
    Rule("NODE", {Tagged("NODE"), Untagged("Remote", "node"), Untagged("Config", "node"),
                  Untagged("Callback", "node")}, {"VXVM"}),
    Rule("CLUSTER", {Tagged("CLUSTER"), Untagged("Callback", "cluster")}, {"NODE"}),
    Rule("BOOT", {Tagged("BOOT")}, {"MS"}),
    Rule("PRE_NODE", {Tagged("PRE_NODE")}, {"PRE_CLUSTER"}),
    Rule("POST_CLUSTER", {Tagged("POST_CLUSTER")}, {"CLUSTER"}) >>

-----------------------------------------------------------------------------
(* Snapshot plans: a rule is for callback tasks with its group's tag. *)

Callbacks(group, requires) ==
    Rule(group, {[tag |-> group, types |-> {"Callback"}, under |-> "any"]}, requires)
Default(requires) == Unmatched(Rule("DEFAULT", {}, requires))

CreateSnapshotTags == {"VALIDATION", "PRE_OPERATION", "LMS_LVM", "NODE_LVM", "NODE_VXVM",
                       "NAS", "SAN", "POST_OPERATION"}
CreateSnapshotGroups == CreateSnapshotTags \cup {"DEFAULT"}
CreateSnapshotRuleset == <<
    Callbacks("VALIDATION", {}),
    Callbacks("PRE_OPERATION", {"VALIDATION"}),
    Callbacks("LMS_LVM", {"PRE_OPERATION"}),
    Callbacks("NODE_LVM", {"LMS_LVM"}),
    Callbacks("NODE_VXVM", {"NODE_LVM"}),
    Callbacks("NAS", {"NODE_VXVM"}),
    Callbacks("SAN", {"NAS"}),
    Default({"SAN"}),
    Callbacks("POST_OPERATION", {"DEFAULT"}) >>

RemoveSnapshotTags == {"VALIDATION", "PRE_OPERATION", "LMS_LVM", "NODE_LVM", "NODE_VXVM",
                       "NAS", "SAN", "POST_OPERATION"}
RemoveSnapshotGroups == RemoveSnapshotTags \cup {"DEFAULT", "FINAL"}
RemoveSnapshotRuleset == <<
    Callbacks("VALIDATION", {}),
    Callbacks("PRE_OPERATION", {"VALIDATION"}),
    Callbacks("LMS_LVM", {"PRE_OPERATION"}),
    Callbacks("NODE_LVM", {"LMS_LVM"}),
    Callbacks("NODE_VXVM", {"NODE_LVM"}),
    Callbacks("NAS", {"NODE_VXVM"}),
    Callbacks("SAN", {"NAS"}),
    Default({"SAN"}),
    Callbacks("POST_OPERATION", {"DEFAULT"}),
    Rule("FINAL", {[tag |-> "any", types |-> {"Cleanup"}, under |-> "any"]}, {"POST_OPERATION"}) >>

RestoreSnapshotTags == {"VALIDATION", "PREPARE_PUPPET", "PREPARE_VCS", "PRE_OPERATION", "NAS",
                        "NODE_LVM", "NODE_VXVM", "NODE_REBOOT", "POWER_OFF", "SAN",
                        "SANITISATION", "POWER_ON", "POST_POWER_ON", "LMS_LVM", "LMS_REBOOT"}
RestoreSnapshotGroups == RestoreSnapshotTags \cup {"DEFAULT"}
RestoreSnapshotRuleset == <<
    Callbacks("VALIDATION", {}),
    Callbacks("PREPARE_PUPPET", {"VALIDATION"}),
    Callbacks("PREPARE_VCS", {"PREPARE_PUPPET"}),
    Callbacks("PRE_OPERATION", {"PREPARE_VCS"}),
    Callbacks("NAS", {"PRE_OPERATION"}),
    Callbacks("NODE_LVM", {"NAS"}),
    Callbacks("NODE_VXVM", {"NODE_LVM"}),
    Callbacks("NODE_REBOOT", {"NODE_VXVM"}),
    Callbacks("POWER_OFF", {"NODE_REBOOT"}),
    Callbacks("SAN", {"POWER_OFF"}),
    Callbacks("SANITISATION", {"SAN"}),
    Callbacks("POWER_ON", {"SANITISATION"}),
    Callbacks("POST_POWER_ON", {"POWER_ON"}),
    Callbacks("LMS_LVM", {"POST_POWER_ON"}),
    Default({"LMS_LVM"}),
    Callbacks("LMS_REBOOT", {"DEFAULT"}) >>

-----------------------------------------------------------------------------

\* SnapshotPlanBuilder.ruleset and valid_tags; the deployment plan's own.
Ruleset(type) ==
    CASE type \in {"deployment", "reboot"} -> DeploymentRuleset
      [] type = "create" -> CreateSnapshotRuleset
      [] type = "remove" -> RemoveSnapshotRuleset
      [] type = "restore" -> RestoreSnapshotRuleset

ValidTags(type) ==
    CASE type \in {"deployment", "reboot"} -> DeploymentTags
      [] type = "create" -> CreateSnapshotTags
      [] type = "remove" -> RemoveSnapshotTags
      [] type = "restore" -> RestoreSnapshotTags

Groups(type) ==
    CASE type \in {"deployment", "reboot"} -> DeploymentGroups
      [] type = "create" -> CreateSnapshotGroups
      [] type = "remove" -> RemoveSnapshotGroups
      [] type = "restore" -> RestoreSnapshotGroups

UnmatchedGroupName(type) ==
    LET rules == Ruleset(type)
    IN  rules[CHOOSE i \in DOMAIN rules : rules[i].unmatched].group

\* The groups in the order topsort gives them: every layer has one group here.
\* The place of a group in it is its GROUP_PRIORITY_INDEX.
GroupOrder(type) ==
    LET rules == Ruleset(type)
        requires(g) == rules[CHOOSE i \in DOMAIN rules : rules[i].group = g].requires
        layer(done) == {g \in Groups(type) \ done : requires(g) \subseteq done}
        order[i \in Nat] ==
            IF i = 0 THEN <<>>
            ELSE LET before == order[i - 1]
                     next == layer({before[j] : j \in DOMAIN before})
                 IN  IF next = {} THEN before ELSE Append(before, CHOOSE g \in next : TRUE)
    IN  order[Len(rules)]

Priority(type) ==
    LET order == GroupOrder(type)
    IN  [g \in Groups(type) |-> CHOOSE i \in DOMAIN order : order[i] = g]

=============================================================================
