--------------------------- MODULE MCPuppetPhase ---------------------------
EXTENDS PuppetPhase

\* o is persisted on n1; t takes its place, u is new, m is on the management server.
Nodes == {"ms", "n1"}
Tasks == {"o", "t", "u", "m"}
TaskNode == [o |-> "n1", t |-> "n1", u |-> "n1", m |-> "ms"]
TaskKey == [o |-> "k1", t |-> "k1", u |-> "k2", m |-> "k3"]
NoneReplaced == [i \in Tasks |-> {}]
Earlier == [ms |-> {}, n1 |-> {"o"}]
\* One node with two tasks, the server and a node at once, one phase after the other.
Various == {<<{"t", "u"}>>, <<{"t", "m"}>>, <<{"m"}, {"t"}>>}
ResumeFirst == [p \in Various |-> IF p = <<{"t", "u"}>> THEN 2 ELSE 1]
None == {}
=============================================================================
