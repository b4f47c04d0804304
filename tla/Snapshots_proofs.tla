-------------------------- MODULE Snapshots_proofs --------------------------
(***************************************************************************)
(* Proofs about Snapshots: a snapshot the deployment can be restored to    *)
(* always has its model backup, for any snapshots, plugins and faults and  *)
(* any number of run_plan messages; with one message at a time a timestamp *)
(* means that the snapshot is complete, and a successful snapshot plan has *)
(* done what its request asked for.                                        *)
(***************************************************************************)
EXTENDS Snapshots, FiniteSetTheorems, TLAPS

PhaseType == [vol : Nat, clean : SUBSET Name]
PlanType ==
    [kind : {"none", "create", "remove", "restore", "deployment"},
     st : {"none", "initial", "running", "stopping", "successful", "failed",
           "stopped", "invalid"},
     action : {"none", "error", "create", "remove", "restore"},
     target : Name \cup {"none"},
     phases : Seq(PhaseType), done : Nat, failed : BOOLEAN]
ItemState == {"absent", "Initial", "Applied", "ForRemoval", "Removed"}
PreviousState == {"none", "absent", "Initial", "Applied", "Removed"}
ItemType ==
    [st : ItemState, prev : PreviousState, ts : {"none", "failed", "ok"},
     active : BOOLEAN]
SnapType == [Name -> ItemType]
CoordType ==
    [st : {"idle", "phases", "failing", "ending"},
     action : {"none", "create", "remove", "restore"}, name : Name \cup {"none"}]

(* All state keeps its type. *)
TypeOK ==
    /\ shape \in Shapes
    /\ snap \in SnapType
    /\ plan \in PlanType
    /\ queue \in Nat
    /\ coord \in CoordType
    /\ job \in {"none", "queued", "running", "ok", "error"}

(* Whatever becomes of the item later, a timestamp goes with a model backup. *)
StampBackedUp == \A n \in Name : snap[n].ts = "ok" => n \in backups

(* run_plan works on an active plan, a phase job for a run_plan. *)
Owned ==
    /\ coord.st # "idle" => PlanActive
    /\ job # "none" => coord.st = "phases"

(* There is a phase to run whenever one is run. *)
Unfinished ==
    /\ plan.done <= Len(plan.phases)
    /\ plan.st \in {"initial", "failed"} => plan.done < Len(plan.phases)
    /\ coord.st = "phases" /\ job \notin {"ok", "error"} =>
         /\ plan.done < Len(plan.phases)
         /\ job # "none" => NextPhase.clean = {}

Unclean(s) == {n \in Name : s[n].st = "ForRemoval"}
Covers(p, S) ==
    \A n \in S :
        /\ \A i \in DOMAIN p.phases : p.phases[i].clean # {} => n \in p.phases[i].clean
        /\ \E i \in DOMAIN p.phases : i > p.done /\ p.phases[i].clean # {}

(* Every snapshot that is to be removed is in the cleanup phases of a snapshot
   plan, and one of them is still to be run; when run_plan ends such a plan well
   none is left. *)
Cleaned ==
    SnapshotPlan =>
        /\ Covers(plan, Unclean(snap))
        /\ coord.st = "ending" => Unclean(snap) = {}

(* While run_plan works on a snapshot plan, the snapshot it set out to work on is
   the active one, unless none is any more. *)
OneSnapshot ==
    coord.st # "idle" =>
        IF SnapshotPlan
        THEN /\ coord.action # "none" /\ coord.name \in Name
             /\ CurrentOf(snap) \in {"none", coord.name}
             /\ IF coord.action = "remove"
                THEN snap[coord.name].st \in {"ForRemoval", "Removed"}
                ELSE coord.name \in backups
        ELSE coord.action = "none"

BackupInv ==
    TypeOK /\ StampBackedUp /\ Owned /\ Unfinished /\ Cleaned /\ OneSnapshot

-----------------------------------------------------------------------------
(* Items *)

(* _set_state changes the state only. *)
LEMMA SetStateFields ==
    ASSUME NEW i \in ItemType, NEW st \in ItemState
    PROVE  /\ SetState(i, st) \in ItemType
           /\ SetState(i, st).st = st
           /\ SetState(i, st).ts = i.ts
           /\ SetState(i, st).active = i.active
<1>1. CASE i.st = st
  BY <1>1 DEF SetState
<1>2. CASE i.st # st /\ i.st = "ForRemoval"
  BY <1>2 DEF SetState, ItemType, ItemState, PreviousState
<1>3. CASE i.st # st /\ i.st # "ForRemoval"
  BY <1>3 DEF SetState, ItemType, ItemState, PreviousState
<1> QED
  BY <1>1, <1>2, <1>3

(* set_previous_state never makes an item ForRemoval. *)
LEMMA SetPreviousFields ==
    ASSUME NEW i \in ItemType
    PROVE  /\ SetPreviousState(i) \in ItemType
           /\ SetPreviousState(i).st # "ForRemoval"
           /\ SetPreviousState(i).ts = i.ts
           /\ SetPreviousState(i).active = i.active
<1> DEFINE to == IF i.prev = "none" THEN "Initial" ELSE i.prev
<1>1. to \in ItemState /\ to # "ForRemoval"
  BY DEF ItemType, ItemState, PreviousState
<1>2. SetPreviousState(i) = SetState(i, to)
  BY DEF SetPreviousState
<1> HIDE DEF to
<1> QED
  BY <1>1, <1>2, SetStateFields

(* The active snapshot, if there is one, is a snapshot. *)
LEMMA CurrentIsName ==
    ASSUME NEW s
    PROVE  CurrentOf(s) = "none" \/ CurrentOf(s) \in Name
<1>1. CASE Cardinality(ActiveNames(s)) = 1
  <2>1. ActiveNames(s) # {}
    BY <1>1, FS_EmptySet
  <2>2. (CHOOSE n \in ActiveNames(s) : TRUE) \in ActiveNames(s)
    BY <2>1
  <2> QED
    BY <1>1, <2>2 DEF CurrentOf, ActiveNames
<1>2. CASE Cardinality(ActiveNames(s)) # 1
  BY <1>2 DEF CurrentOf
<1> QED
  BY <1>1, <1>2

(* It depends on the active attributes only. *)
LEMMA CurrentSame ==
    ASSUME NEW s, NEW t, \A n \in Name : s[n].active = t[n].active
    PROVE  CurrentOf(s) = CurrentOf(t)
<1>1. ActiveNames(s) = ActiveNames(t)
  BY DEF ActiveNames
<1> QED
  BY <1>1 DEF CurrentOf

LEMMA CurrentNone ==
    ASSUME NEW s, \A n \in Name : s[n].active = FALSE
    PROVE  CurrentOf(s) = "none"
<1>1. ActiveNames(s) = {}
  BY DEF ActiveNames
<1>2. Cardinality(ActiveNames(s)) = 0
  BY <1>1, FS_EmptySet
<1> QED
  BY <1>2 DEF CurrentOf

(* What snapshot_action returns says of the active snapshot. *)
LEMMA ActionFacts ==
    ASSUME NEW s
    PROVE  /\ SnapshotAction(s) \in {"error", "create", "remove", "restore"}
           /\ SnapshotAction(s) # "error" => CurrentOf(s) \in Name
           /\ SnapshotAction(s) = "remove" => s[CurrentOf(s)].st = "ForRemoval"
           /\ SnapshotAction(s) = "restore" => s[CurrentOf(s)].ts = "ok"
<1> DEFINE n == CurrentOf(s)
<1>1. n = "none" \/ n \in Name
  BY CurrentIsName
<1>2. SnapshotAction(s) =
        CASE n = "none" -> "error"
          [] n # "none" /\ s[n].st = "ForRemoval" -> "remove"
          [] n # "none" /\ s[n].st = "Initial" -> "create"
          [] n # "none" /\ s[n].st = "Applied" /\ s[n].ts = "ok" /\ n = Upgrade -> "restore"
          [] OTHER -> "error"
  BY DEF SnapshotAction
<1> HIDE DEF n
<1>3. CASE n = "none"
  BY <1>2, <1>3
<1>4. CASE n # "none" /\ s[n].st = "ForRemoval"
  BY <1>1, <1>2, <1>4 DEF n
<1>5. CASE n # "none" /\ s[n].st = "Initial"
  BY <1>1, <1>2, <1>5 DEF n
<1>6. CASE n # "none" /\ s[n].st = "Applied" /\ s[n].ts = "ok" /\ n = Upgrade
  BY <1>1, <1>2, <1>6 DEF n
<1>7. CASE /\ n # "none" /\ s[n].st \notin {"ForRemoval", "Initial"}
           /\ ~(s[n].st = "Applied" /\ s[n].ts = "ok" /\ n = Upgrade)
  BY <1>2, <1>7
<1> QED
  BY <1>3, <1>4, <1>5, <1>6, <1>7

(* reset_snapshot_active_attribute touches the active attributes only, all or none. *)
LEMMA ResetFacts ==
    ASSUME NEW s \in SnapType
    PROVE  /\ ResetActive(s) \in SnapType
           /\ \A n \in Name : /\ ResetActive(s)[n].st = s[n].st
                              /\ ResetActive(s)[n].ts = s[n].ts
           /\ CurrentOf(ResetActive(s)) \in {"none", CurrentOf(s)}
<1>1. CASE plan.st = "running"
  BY <1>1 DEF ResetActive
<1>2. CASE plan.st # "running"
  <2> DEFINE r == [n \in Name |-> [s[n] EXCEPT !.active = FALSE]]
  <2>1. \A n \in Name : s[n] \in ItemType
    BY DEF SnapType
  <2>2. \A n \in Name : /\ r[n] \in ItemType /\ r[n].st = s[n].st
                        /\ r[n].ts = s[n].ts /\ r[n].active = FALSE
    BY <2>1 DEF ItemType
  <2>3. r \in SnapType
    BY <2>2 DEF SnapType
  <2>4. ResetActive(s) = r
    BY <1>2 DEF ResetActive
  <2> HIDE DEF r
  <2>5. CurrentOf(r) = "none"
    BY <2>2, CurrentNone
  <2> QED
    BY <2>2, <2>3, <2>4, <2>5
<1> QED
  BY <1>1, <1>2

-----------------------------------------------------------------------------
(* Plans *)

(* BasePlan.end sets the state only, and fails a plan only if phases are left. *)
LEMMA EndOfFields ==
    ASSUME NEW p \in PlanType
    PROVE  /\ EndOf(p) \in PlanType
           /\ EndOf(p).kind = p.kind
           /\ EndOf(p).phases = p.phases
           /\ EndOf(p).done = p.done
           /\ EndOf(p).st \in {"successful", "failed", "stopped"}
           /\ EndOf(p).st = "failed" => p.done # Len(p.phases)
<1> DEFINE e == IF p.done = Len(p.phases) THEN "successful"
                ELSE IF p.st = "running" THEN "failed" ELSE "stopped"
<1>1. /\ e \in {"successful", "failed", "stopped"}
      /\ e = "failed" => p.done # Len(p.phases)
  OBVIOUS
<1>2. EndOf(p) = [p EXCEPT !.st = e]
  BY DEF EndOf
<1> HIDE DEF e
<1> QED
  BY <1>1, <1>2 DEF PlanType

(* What a step of a plan that keeps its phases leaves alone *)
LEMMA CoversKept ==
    ASSUME NEW p, NEW q, NEW S, NEW T, Covers(p, S), T \subseteq S,
           q.phases = p.phases, q.done = p.done
    PROVE  Covers(q, T)
BY DEF Covers

(* Phases whose CleanupTasks, where there are any, are for all of C *)
CleanPhases(C, f) ==
    f \in Seq(PhaseType) /\ \A i \in 1..Len(f) : f[i].clean \in {{}, C}
HasCleanup(f) == \E i \in 1..Len(f) : f[i].clean # {}

LEMMA CleanConcat ==
    ASSUME NEW C, NEW f, NEW g, CleanPhases(C, f), CleanPhases(C, g)
    PROVE  /\ CleanPhases(C, f \o g)
           /\ Len(f \o g) = Len(f) + Len(g)
           /\ HasCleanup(f) \/ HasCleanup(g) => HasCleanup(f \o g)
<1>1. /\ f \o g \in Seq(PhaseType)
      /\ Len(f \o g) = Len(f) + Len(g)
      /\ Len(f) \in Nat /\ Len(g) \in Nat
      /\ \A i \in 1..Len(f) : (f \o g)[i] = f[i]
      /\ \A i \in 1..Len(g) : (f \o g)[Len(f) + i] = g[i]
  BY DEF CleanPhases
<1>2. ASSUME NEW i \in 1..Len(f \o g) PROVE (f \o g)[i].clean \in {{}, C}
  <2>1. CASE i \in 1..Len(f)
    BY <1>1, <2>1 DEF CleanPhases
  <2>2. CASE i \notin 1..Len(f)
    <3>1. i - Len(f) \in 1..Len(g) /\ i = Len(f) + (i - Len(f))
      BY <1>1, <1>2, <2>2
    <3>2. (f \o g)[i] = g[i - Len(f)]
      BY <1>1, <3>1
    <3> QED
      BY <3>1, <3>2 DEF CleanPhases
  <2> QED
    BY <2>1, <2>2
<1>3. ASSUME HasCleanup(f) PROVE HasCleanup(f \o g)
  <2>1. PICK i \in 1..Len(f) : f[i].clean # {}
    BY <1>3 DEF HasCleanup
  <2>2. i \in 1..Len(f \o g) /\ (f \o g)[i].clean # {}
    BY <1>1, <2>1
  <2> QED
    BY <2>2 DEF HasCleanup
<1>4. ASSUME HasCleanup(g) PROVE HasCleanup(f \o g)
  <2>1. PICK i \in 1..Len(g) : g[i].clean # {}
    BY <1>4 DEF HasCleanup
  <2>2. Len(f) + i \in 1..Len(f \o g) /\ (f \o g)[Len(f) + i].clean # {}
    BY <1>1, <2>1
  <2> QED
    BY <2>2 DEF HasCleanup
<1> QED
  BY <1>1, <1>2, <1>3, <1>4 DEF CleanPhases

(* SnapshotPlanBuilder.build: all snapshots to be removed go into each phase with
   CleanupTasks, and if there are any there is such a phase. *)
LEMMA BuildFacts ==
    ASSUME NEW kind, NEW s, shape \in Shapes
    PROVE  /\ CleanPhases(CleanupOf(s), BuildPhases(kind, s))
           /\ Len(BuildPhases(kind, s)) > 0
           /\ CleanupOf(s) # {} => HasCleanup(BuildPhases(kind, s))
<1> DEFINE clean == CleanupOf(s)
           phase(i) == Phase(IF shape[i] = "post" THEN 0 ELSE i,
                             IF shape[i] = "default" /\ kind # "remove" THEN clean ELSE {})
           volumes == {j \in DOMAIN shape : shape[j] # "post"}
           before == [i \in 1..Cardinality(volumes) |-> phase(i)]
           after == IF Len(before) < Len(shape) THEN <<phase(Len(shape))>> ELSE <<>>
           apart == IF clean = {} THEN <<>> ELSE <<Phase(0, clean)>>
<1>1. /\ shape \in Seq({"tagged", "default", "post"}) /\ Len(shape) \in Nat \ {0}
      /\ DOMAIN shape = 1..Len(shape)
      /\ \A i \in 1..Len(shape) - 1 : shape[i] # "post"
  <2>1. shape \in Seq({"tagged", "default", "post"}) /\ shape # <<>>
    BY SnapshotAssumption
  <2> QED
    BY <2>1, SnapshotAssumption
<1>2. IsFiniteSet(volumes) /\ Cardinality(volumes) \in Nat
  <2>1. IsFiniteSet(DOMAIN shape)
    BY <1>1, FS_Interval
  <2> QED
    BY <2>1, FS_Subset, FS_CardinalityType
<1>3. clean \subseteq Name
  BY DEF CleanupOf
<1>4. \A i \in Nat : phase(i) \in PhaseType /\ phase(i).clean \in {{}, clean}
  BY <1>3 DEF Phase, PhaseType
<1>5. BuildPhases(kind, s) =
        IF kind = "remove" THEN before \o after \o apart
        ELSE IF \E i \in DOMAIN shape : shape[i] = "default" THEN before \o after
        ELSE before \o apart \o after
  BY DEF BuildPhases
<1>6. CleanPhases(clean, before) /\ Len(before) = Cardinality(volumes)
  <2> HIDE DEF phase
  <2>1. \A i \in 1..Cardinality(volumes) : i \in Nat
    BY <1>2
  <2> QED
    BY <1>2, <1>4, <2>1 DEF CleanPhases
<1>7. CleanPhases(clean, after)
  <2> HIDE DEF phase, before
  <2> QED
    BY <1>1, <1>4 DEF CleanPhases
<1>8. CleanPhases(clean, apart) /\ (clean # {} => HasCleanup(apart))
  <2> HIDE DEF clean
  <2>1. CASE clean = {}
    BY <2>1 DEF CleanPhases
  <2>2. CASE clean # {}
    <3>1. apart = <<Phase(0, clean)>> /\ Phase(0, clean) \in PhaseType
          /\ Phase(0, clean).clean = clean
      BY <1>3, <2>2 DEF Phase, PhaseType
    <3> HIDE DEF apart
    <3> QED
      BY <2>2, <3>1 DEF CleanPhases, HasCleanup
  <2> QED
    BY <2>1, <2>2
<1>9. Len(before) + Len(after) > 0
  <2> HIDE DEF phase, before
  <2>1. Len(before) < Len(shape) => Len(after) = 1
    OBVIOUS
  <2> HIDE DEF after
  <2>2. Len(before) \in Nat /\ Len(after) \in Nat
    BY <1>6, <1>7 DEF CleanPhases
  <2>3. Len(shape) \in Nat /\ Len(shape) > 0
    BY <1>1
  <2>4. \A a, b, c \in Nat : c > 0 /\ (a < c => b = 1) => a + b > 0
    OBVIOUS
  <2> QED
    BY <2>1, <2>2, <2>3, <2>4, Zenon
<1>10. ASSUME NEW i \in DOMAIN shape, shape[i] = "default", kind # "remove", clean # {}
       PROVE  HasCleanup(before)
  <2>1. \A j \in 1..i : j \in volumes
    BY <1>1, <1>10
  <2>2. IsFiniteSet(1..i) /\ Cardinality(1..i) = i
    BY <1>1, FS_Interval
  <2>3. i <= Cardinality(volumes)
    BY <1>2, <2>1, <2>2, FS_Subset
  <2>4. i \in 1..Len(before) /\ before[i].clean = clean
    BY <1>1, <1>6, <1>10, <2>3, <1>2 DEF Phase
  <2> QED
    BY <1>10, <2>4 DEF HasCleanup
<1> HIDE DEF before, after, apart, clean
<1>11. Len(before) \in Nat /\ Len(after) \in Nat /\ Len(apart) \in Nat
  BY <1>6, <1>7, <1>8 DEF CleanPhases
<1>12. /\ CleanPhases(clean, BuildPhases(kind, s))
       /\ Len(BuildPhases(kind, s)) > 0
       /\ clean # {} => HasCleanup(BuildPhases(kind, s))
  <2>1. CASE kind = "remove"
    <3>1. BuildPhases(kind, s) = (before \o after) \o apart
      BY <1>5, <2>1
    <3>2. CleanPhases(clean, before \o after) /\ Len(before \o after) = Len(before) + Len(after)
      BY <1>6, <1>7, CleanConcat
    <3>3. /\ CleanPhases(clean, (before \o after) \o apart)
          /\ Len((before \o after) \o apart) = Len(before \o after) + Len(apart)
          /\ HasCleanup(apart) => HasCleanup((before \o after) \o apart)
      BY <1>8, <3>2, CleanConcat
    <3> QED
      BY <1>8, <1>9, <1>11, <3>1, <3>2, <3>3
  <2>2. CASE kind # "remove" /\ \E i \in DOMAIN shape : shape[i] = "default"
    <3>1. BuildPhases(kind, s) = before \o after
      BY <1>5, <2>2
    <3>2. clean # {} => HasCleanup(before)
      BY <1>10, <2>2
    <3>3. /\ CleanPhases(clean, before \o after)
          /\ Len(before \o after) = Len(before) + Len(after)
          /\ HasCleanup(before) => HasCleanup(before \o after)
      BY <1>6, <1>7, CleanConcat
    <3> QED
      BY <1>9, <3>1, <3>2, <3>3
  <2>3. CASE kind # "remove" /\ ~\E i \in DOMAIN shape : shape[i] = "default"
    <3>1. BuildPhases(kind, s) = (before \o apart) \o after
      BY <1>5, <2>3
    <3>2. /\ CleanPhases(clean, before \o apart)
          /\ Len(before \o apart) = Len(before) + Len(apart)
          /\ HasCleanup(apart) => HasCleanup(before \o apart)
      BY <1>6, <1>8, CleanConcat
    <3>3. /\ CleanPhases(clean, (before \o apart) \o after)
          /\ Len((before \o apart) \o after) = Len(before \o apart) + Len(after)
          /\ HasCleanup(before \o apart) => HasCleanup((before \o apart) \o after)
      BY <1>7, <3>2, CleanConcat
    <3> QED
      BY <1>8, <1>9, <1>11, <3>1, <3>2, <3>3
  <2> QED
    BY <2>1, <2>2, <2>3
<1> QED
  BY <1>12 DEF clean

(* A plan that has just been made for the items s *)
LEMMA NewPlanFacts ==
    ASSUME NEW kind \in {"create", "remove", "restore"}, NEW s, shape \in Shapes,
           SnapshotAction(s) # "error"
    PROVE  /\ SnapshotPlanFor(kind, s) \in PlanType
           /\ SnapshotPlanFor(kind, s).st = "initial"
           /\ SnapshotPlanFor(kind, s).done = 0
           /\ Len(SnapshotPlanFor(kind, s).phases) \in Nat \ {0}
           /\ Covers(SnapshotPlanFor(kind, s), Unclean(s))
<1> DEFINE b == BuildPhases(kind, s)
           a == SnapshotAction(s)
           t == CurrentOf(s)
           p == [kind |-> kind, st |-> "initial", action |-> a, target |-> t,
                 phases |-> b, done |-> 0, failed |-> FALSE]
<1>1. /\ CleanPhases(CleanupOf(s), b) /\ Len(b) > 0
      /\ CleanupOf(s) # {} => HasCleanup(b)
  BY BuildFacts
<1>2. a \in {"none", "error", "create", "remove", "restore"} /\ t \in Name \cup {"none"}
  BY ActionFacts, CurrentIsName
<1>3. SnapshotPlanFor(kind, s) = p
  BY DEF SnapshotPlanFor
<1> HIDE DEF a, t, b
<1>4. b \in Seq(PhaseType) /\ Len(b) \in Nat \ {0} /\ DOMAIN b = 1..Len(b)
  BY <1>1 DEF CleanPhases
<1>5. p \in PlanType /\ p.phases = b /\ p.done = 0 /\ p.st = "initial"
  BY <1>2, <1>4 DEF PlanType
<1>6. Unclean(s) = CleanupOf(s)
  BY DEF Unclean, CleanupOf
<1> HIDE DEF p
<1>7. ASSUME NEW n \in Unclean(s)
      PROVE  /\ \A i \in DOMAIN b : b[i].clean # {} => n \in b[i].clean
             /\ \E i \in DOMAIN b : i > 0 /\ b[i].clean # {}
  <2>1. \A i \in DOMAIN b : b[i].clean # {} => n \in b[i].clean
    BY <1>1, <1>4, <1>6, <1>7 DEF CleanPhases
  <2>2. HasCleanup(b)
    BY <1>1, <1>6, <1>7
  <2>3. PICK i \in 1..Len(b) : b[i].clean # {}
    BY <2>2 DEF HasCleanup
  <2> QED
    BY <1>4, <2>1, <2>3
<1>8. Covers(p, Unclean(s))
  BY <1>5, <1>7 DEF Covers
<1> QED
  BY <1>3, <1>4, <1>5, <1>8

-----------------------------------------------------------------------------
(* What phases do to the items *)

(* _process_timestamp_at_ss_phasestart empties the timestamp of the active snapshot. *)
LEMMA StartFacts ==
    ASSUME NEW s \in SnapType
    PROVE  /\ AtPhaseStart(s) \in SnapType
           /\ \A m \in Name : /\ AtPhaseStart(s)[m].st = s[m].st
                              /\ AtPhaseStart(s)[m].active = s[m].active
                              /\ AtPhaseStart(s)[m].ts = "ok" => s[m].ts = "ok"
<1> DEFINE n == CurrentOf(s)
           f == [s EXCEPT ![n].ts = "failed"]
<1>1. n = "none" \/ n \in Name
  BY CurrentIsName
<1>2. AtPhaseStart(s) = IF SnapshotPlan /\ plan.done = 0 /\ plan.kind # "restore" /\ n # "none"
                        THEN f ELSE s
  BY DEF AtPhaseStart
<1> HIDE DEF n
<1>3. CASE n \in Name
  <2>1. s[n] \in ItemType
    BY <1>3 DEF SnapType
  <2>2. /\ [s[n] EXCEPT !.ts = "failed"] \in ItemType
        /\ [s[n] EXCEPT !.ts = "failed"].st = s[n].st
        /\ [s[n] EXCEPT !.ts = "failed"].active = s[n].active
        /\ [s[n] EXCEPT !.ts = "failed"].ts = "failed"
    BY <2>1 DEF ItemType
  <2>3. \A m \in Name : f[m] = IF m = n THEN [s[n] EXCEPT !.ts = "failed"] ELSE s[m]
    BY <1>3 DEF SnapType
  <2>4. f \in SnapType
    BY <1>3, <2>2 DEF SnapType
  <2> HIDE DEF f
  <2>5. \A m \in Name : /\ f[m].st = s[m].st /\ f[m].active = s[m].active
                        /\ f[m].ts = "ok" => s[m].ts = "ok"
    BY <2>2, <2>3
  <2> QED
    BY <1>2, <2>4, <2>5
<1>4. CASE n = "none"
  BY <1>2, <1>4
<1> QED
  BY <1>1, <1>3, <1>4

(* _process_timestamp_at_ss_phaseend gives a timestamp to the active snapshot only, and
   only if it is not to be removed. *)
LEMMA EndFacts ==
    ASSUME NEW s \in SnapType, NEW ok \in BOOLEAN
    PROVE  /\ AtPhaseEnd(s, ok) \in SnapType
           /\ \A m \in Name :
                /\ AtPhaseEnd(s, ok)[m].active = s[m].active
                /\ AtPhaseEnd(s, ok)[m].st = "ForRemoval" => s[m].st = "ForRemoval"
                /\ s[m].st \in {"ForRemoval", "Removed"} => AtPhaseEnd(s, ok)[m].st = s[m].st
                /\ AtPhaseEnd(s, ok)[m].ts = "ok" =>
                     \/ s[m].ts = "ok"
                     \/ /\ SnapshotPlan /\ m = CurrentOf(s) /\ m # "none"
                        /\ s[m].st \notin {"ForRemoval", "Removed"}
<1> DEFINE n == CurrentOf(s)
           f == [s EXCEPT ![n].ts = "failed"]
           a == [SetState(s[n], "Applied") EXCEPT !.ts = "ok"]
           g == [s EXCEPT ![n] = a]
<1>1. n = "none" \/ n \in Name
  BY CurrentIsName
<1>2. AtPhaseEnd(s, ok) =
        IF ~SnapshotPlan \/ ~IsLast \/ n = "none" THEN s
        ELSE IF ~ok THEN (IF plan.kind = "restore" THEN s ELSE f)
        ELSE IF s[n].st \in {"Removed", "ForRemoval"} THEN s
        ELSE g
  BY DEF AtPhaseEnd
<1> HIDE DEF n
<1>3. CASE n \in Name
  <2>1. s[n] \in ItemType
    BY <1>3 DEF SnapType
  <2>2. /\ [s[n] EXCEPT !.ts = "failed"] \in ItemType
        /\ [s[n] EXCEPT !.ts = "failed"].st = s[n].st
        /\ [s[n] EXCEPT !.ts = "failed"].active = s[n].active
        /\ [s[n] EXCEPT !.ts = "failed"].ts = "failed"
    BY <2>1 DEF ItemType
  <2>3. \A m \in Name : f[m] = IF m = n THEN [s[n] EXCEPT !.ts = "failed"] ELSE s[m]
    BY <1>3 DEF SnapType
  <2>4. f \in SnapType
    BY <1>3, <2>2 DEF SnapType
  <2>5. /\ SetState(s[n], "Applied") \in ItemType
        /\ SetState(s[n], "Applied").st = "Applied"
        /\ SetState(s[n], "Applied").active = s[n].active
    BY <2>1, SetStateFields DEF ItemState
  <2>6. a \in ItemType /\ a.st = "Applied" /\ a.active = s[n].active
    BY <2>5 DEF ItemType
  <2> HIDE DEF a
  <2>7. g \in SnapType /\ \A m \in Name : g[m] = IF m = n THEN a ELSE s[m]
    BY <1>3, <2>6 DEF SnapType
  <2> HIDE DEF f, g
  <2>8. \A m \in Name : /\ f[m].st = s[m].st /\ f[m].active = s[m].active
                        /\ f[m].ts = "ok" => s[m].ts = "ok"
    BY <2>2, <2>3
  <2>9. CASE SnapshotPlan /\ n # "none" /\ s[n].st \notin {"Removed", "ForRemoval"}
             /\ AtPhaseEnd(s, ok) = g
    BY <2>6, <2>7, <2>9 DEF n
  <2>10. CASE AtPhaseEnd(s, ok) = f
    BY <2>4, <2>8, <2>10
  <2>11. CASE AtPhaseEnd(s, ok) = s
    BY <2>11
  <2> QED
    BY <1>2, <2>9, <2>10, <2>11
<1>4. CASE n = "none"
  BY <1>2, <1>4
<1> QED
  BY <1>1, <1>3, <1>4

(* _clear_plan: Removed items go and lose all they had. *)
LEMMA ClearFacts ==
    ASSUME NEW s \in SnapType, NEW successful
    PROVE  /\ ClearPlan(s, successful) \in SnapType
           /\ \A m \in Name :
                /\ ClearPlan(s, successful)[m].st = "ForRemoval" => s[m].st = "ForRemoval"
                /\ ClearPlan(s, successful)[m].ts = "ok" =>
                     s[m].ts = "ok" /\ s[m].st # "Removed"
<1> DEFINE kept == [m \in Name |-> IF s[m].st = "Removed" THEN Absent ELSE s[m]]
           n == CurrentOf(kept)
           g == [kept EXCEPT ![n] = SetState(kept[n], "Applied")]
<1>1. n = "none" \/ n \in Name
  BY CurrentIsName
<1>2. ClearPlan(s, successful) = IF successful /\ SnapshotPlan /\ n # "none" THEN g ELSE kept
  BY DEF ClearPlan
<1>3. Absent \in ItemType /\ Absent.ts = "none" /\ Absent.st = "absent"
  BY DEF Absent, ItemType, ItemState, PreviousState
<1>4. kept \in SnapType /\ \A m \in Name : /\ kept[m].st = "ForRemoval" => s[m].st = "ForRemoval"
                                           /\ kept[m].ts = "ok" => s[m].ts = "ok" /\ s[m].st # "Removed"
  BY <1>3 DEF SnapType
<1> HIDE DEF kept, n
<1>5. CASE n \in Name
  <2>1. kept[n] \in ItemType
    BY <1>4, <1>5 DEF SnapType
  <2>2. /\ SetState(kept[n], "Applied") \in ItemType
        /\ SetState(kept[n], "Applied").st = "Applied"
        /\ SetState(kept[n], "Applied").ts = kept[n].ts
    BY <2>1, SetStateFields DEF ItemState
  <2>3. g \in SnapType /\ \A m \in Name : g[m] = IF m = n THEN SetState(kept[n], "Applied") ELSE kept[m]
    BY <1>4, <1>5, <2>2 DEF SnapType
  <2> HIDE DEF g
  <2>4. \A m \in Name : /\ g[m].st = "ForRemoval" => kept[m].st = "ForRemoval"
                        /\ g[m].ts = kept[m].ts
    BY <2>2, <2>3
  <2> QED
    BY <1>2, <1>4, <2>3, <2>4
<1>6. CASE n = "none"
  BY <1>2, <1>4, <1>6
<1> QED
  BY <1>1, <1>5, <1>6

-----------------------------------------------------------------------------
(* The steps in which run_plan does not work, or no longer does *)

LEMMA IdleFacts ==
    ASSUME BackupInv, ~PlanActive
    PROVE  coord.st = "idle" /\ job = "none"
BY DEF BackupInv, TypeOK, Owned

(* What such a step has to show for the items and the plan it leaves *)
LEMMA IdleStep ==
    ASSUME BackupInv, shape' = shape, queue' \in Nat,
           coord' \in CoordType, coord'.st = "idle", job' = "none",
           snap' \in SnapType,
           \A n \in Name : snap'[n].ts = "ok" => n \in backups',
           plan' \in PlanType,
           plan'.done <= Len(plan'.phases),
           plan'.st \in {"initial", "failed"} => plan'.done < Len(plan'.phases),
           plan'.kind \in {"create", "remove", "restore"} => Covers(plan', Unclean(snap'))
    PROVE  BackupInv'
<1>1. TypeOK'
  BY DEF BackupInv, TypeOK
<1>2. StampBackedUp' /\ Owned'
  BY DEF StampBackedUp, Owned
<1>3. Unfinished'
  BY DEF Unfinished
<1>4. Cleaned'
  BY DEF Cleaned, SnapshotPlan
<1>5. OneSnapshot'
  BY DEF OneSnapshot
<1> QED
  BY <1>1, <1>2, <1>3, <1>4, <1>5 DEF BackupInv

(* ... if it leaves the plan's phases alone *)
LEMMA IdleStepKept ==
    ASSUME BackupInv, shape' = shape, queue' \in Nat,
           coord' \in CoordType, coord'.st = "idle", job' = "none",
           snap' \in SnapType,
           \A n \in Name : snap'[n].ts = "ok" => n \in backups',
           \A n \in Name : snap'[n].st = "ForRemoval" => snap[n].st = "ForRemoval",
           plan' \in PlanType,
           plan'.kind = plan.kind, plan'.phases = plan.phases, plan'.done = plan.done,
           plan'.st \in {"initial", "failed"} => plan.done < Len(plan.phases)
    PROVE  BackupInv'
<1>1. plan.done <= Len(plan.phases)
  BY DEF BackupInv, Unfinished
<1>2. Unclean(snap') \subseteq Unclean(snap)
  BY DEF Unclean
<1>3. plan.kind \in {"create", "remove", "restore"} => Covers(plan, Unclean(snap))
  BY DEF BackupInv, Cleaned, SnapshotPlan
<1>4. plan'.kind \in {"create", "remove", "restore"} => Covers(plan', Unclean(snap'))
  BY <1>2, <1>3, CoversKept
<1> QED
  BY <1>1, <1>4, IdleStep

LEMMA NoPlanFacts ==
    /\ NoPlan \in PlanType /\ NoPlan.kind = "none" /\ NoPlan.st = "none"
    /\ NoPlan.done = 0 /\ NoPlan.phases = <<>> /\ NoPlan.done <= Len(NoPlan.phases)
<1>1. <<>> \in Seq(PhaseType) /\ Len(<<>>) = 0
  OBVIOUS
<1> QED
  BY <1>1 DEF NoPlan, PlanType

(* _create_plan_with_type, whatever comes of it *)
LEMMA CreateStep ==
    ASSUME BackupInv, ~PlanActive,
           NEW kind \in {"create", "remove", "restore"},
           NEW s \in SnapType, NEW undone \in SnapType,
           \A n \in Name : /\ s[n].ts = "ok" => snap[n].ts = "ok"
                           /\ undone[n].ts = "ok" => snap[n].ts = "ok"
                           /\ undone[n].st = "ForRemoval" => snap[n].st = "ForRemoval"
                           /\ undone[n].st = "ForRemoval" => s[n].st = "ForRemoval",
           CreateSnapshotPlan(kind, s, undone),
           UNCHANGED <<shape, coord, job, backups>>
    PROVE  BackupInv'
<1>1. /\ coord.st = "idle" /\ job = "none" /\ coord \in CoordType /\ queue \in Nat
      /\ plan \in PlanType /\ shape \in Shapes
      /\ \A n \in Name : snap[n].ts = "ok" => n \in backups
      /\ plan.st \in {"initial", "failed"} => plan.done < Len(plan.phases)
  BY IdleFacts DEF BackupInv, TypeOK, StampBackedUp, Unfinished
<1>2. coord'.st = "idle" /\ job' = "none" /\ coord' \in CoordType
  BY <1>1
<1>3. CASE plan' = plan /\ snap' = undone /\ queue' = queue
  BY <1>1, <1>2, <1>3, IdleStepKept
<1>4. CASE plan' = NoPlan /\ snap' = undone /\ queue' = queue
  <2>1. plan' \in PlanType /\ plan'.kind = "none" /\ plan'.st = "none"
        /\ plan'.done <= Len(plan'.phases)
    BY <1>4, NoPlanFacts
  <2> QED
    BY <1>1, <1>2, <1>4, <2>1, IdleStep
<1>5. CASE /\ SnapshotAction(s) # "error" /\ plan' = SnapshotPlanFor(kind, s)
           /\ queue' \in {queue, queue + 1} /\ snap' \in {s, undone}
  <2> DEFINE p == SnapshotPlanFor(kind, s)
  <2>1. /\ p \in PlanType /\ p.st = "initial" /\ p.done = 0
        /\ Len(p.phases) \in Nat \ {0} /\ Covers(p, Unclean(s))
    BY <1>1, <1>5, NewPlanFacts
  <2> HIDE DEF p
  <2>2. plan' = p
    BY <1>5 DEF p
  <2>3. Unclean(snap') \subseteq Unclean(s)
    BY <1>5 DEF Unclean
  <2>4. Covers(p, Unclean(snap'))
    BY <2>1, <2>3, CoversKept
  <2>5. plan'.done <= Len(plan'.phases) /\ plan'.done < Len(plan'.phases)
    BY <2>1, <2>2
  <2>6. snap' \in SnapType /\ \A n \in Name : snap'[n].ts = "ok" => n \in backups'
    BY <1>1, <1>5
  <2>7. queue' \in Nat
    BY <1>1, <1>5
  <2> QED
    BY <1>2, <2>1, <2>2, <2>4, <2>5, <2>6, <2>7, IdleStep
<1> QED
  BY <1>3, <1>4, <1>5 DEF CreateSnapshotPlan

LEMMA CreateSnapshotStep ==
    ASSUME BackupInv, NEW n \in Name, CreateSnapshot(n)
    PROVE  BackupInv'
<1> DEFINE reset == ResetActive(snap)
           fresh == [st |-> "Initial", prev |-> "none", ts |-> "none", active |-> TRUE]
           new == [reset EXCEPT ![n] = fresh]
<1>1. ~PlanActive /\ UNCHANGED <<shape, coord, job, backups>>
  BY DEF CreateSnapshot, RequestAllowed
<1>2. /\ reset \in SnapType
      /\ \A m \in Name : reset[m].st = snap[m].st /\ reset[m].ts = snap[m].ts
  BY ResetFacts DEF BackupInv, TypeOK
<1>3. IF MayCreate(n) THEN CreateSnapshotPlan("create", new, reset)
      ELSE snap' = reset /\ UNCHANGED <<plan, queue>>
  BY DEF CreateSnapshot, WithNew
<1> HIDE DEF reset
<1>4. CASE MayCreate(n)
  <2>1. fresh \in ItemType /\ fresh.ts = "none"
    BY DEF ItemType, ItemState, PreviousState
  <2>2. snap[n].st = "absent"
    BY <1>4 DEF MayCreate
  <2> HIDE DEF fresh
  <2>3. new \in SnapType /\ \A m \in Name : new[m] = IF m = n THEN fresh ELSE reset[m]
    BY <1>2, <2>1 DEF SnapType
  <2>4. CreateSnapshotPlan("create", new, reset)
    BY <1>3, <1>4
  <2> HIDE DEF new
  <2>5. \A m \in Name : /\ new[m].ts = "ok" => snap[m].ts = "ok"
                        /\ reset[m].ts = "ok" => snap[m].ts = "ok"
                        /\ reset[m].st = "ForRemoval" => snap[m].st = "ForRemoval"
                        /\ reset[m].st = "ForRemoval" => new[m].st = "ForRemoval"
    BY <1>2, <2>1, <2>2, <2>3
  <2> QED
    BY <1>1, <1>2, <2>3, <2>4, <2>5, CreateStep
<1>5. CASE ~MayCreate(n)
  <2>1. snap' = reset /\ UNCHANGED <<plan, queue>>
    BY <1>3, <1>5
  <2>2. /\ coord'.st = "idle" /\ job' = "none" /\ coord' \in CoordType /\ queue' \in Nat
        /\ plan' \in PlanType /\ \A m \in Name : snap[m].ts = "ok" => m \in backups'
        /\ plan'.st \in {"initial", "failed"} => plan.done < Len(plan.phases)
    BY <1>1, <2>1, IdleFacts DEF BackupInv, TypeOK, StampBackedUp, Unfinished
  <2> QED
    BY <1>1, <1>2, <2>1, <2>2, IdleStepKept
<1> QED
  BY <1>4, <1>5

(* The items after reset_snapshot_active_attribute and the setting of one attribute *)
LEMMA ActivateFacts ==
    ASSUME NEW s \in SnapType, NEW n \in Name, NEW b \in BOOLEAN
    PROVE  /\ [ResetActive(s) EXCEPT ![n].active = b] \in SnapType
           /\ \A m \in Name :
                /\ [ResetActive(s) EXCEPT ![n].active = b][m].st = s[m].st
                /\ [ResetActive(s) EXCEPT ![n].active = b][m].ts = s[m].ts
<1> DEFINE r == ResetActive(s)
           i == [r[n] EXCEPT !.active = b]
           t == [r EXCEPT ![n].active = b]
<1>1. r \in SnapType /\ \A m \in Name : r[m].st = s[m].st /\ r[m].ts = s[m].ts
  BY ResetFacts
<1> HIDE DEF r
<1>2. r[n] \in ItemType
  BY <1>1 DEF SnapType
<1>3. i \in ItemType /\ i.st = r[n].st /\ i.ts = r[n].ts
  BY <1>2 DEF ItemType
<1>4. \A m \in Name : t[m] = IF m = n THEN i ELSE r[m]
  BY <1>1 DEF SnapType
<1>5. t \in SnapType
  BY <1>1, <1>3 DEF SnapType
<1> HIDE DEF i, t
<1>6. \A m \in Name : t[m].st = s[m].st /\ t[m].ts = s[m].ts
  BY <1>1, <1>3, <1>4
<1> QED
  BY <1>5, <1>6 DEF t, r

(* A request that only resets the active attributes *)
LEMMA RefusedStep ==
    ASSUME BackupInv, ~PlanActive, UNCHANGED <<shape, coord, job, backups, plan, queue>>,
           NEW reset \in SnapType, snap' = reset,
           \A m \in Name : reset[m].st = snap[m].st /\ reset[m].ts = snap[m].ts
    PROVE  BackupInv'
<1>1. /\ coord'.st = "idle" /\ job' = "none" /\ coord' \in CoordType /\ queue' \in Nat
      /\ plan' \in PlanType /\ \A m \in Name : snap[m].ts = "ok" => m \in backups'
      /\ plan'.st \in {"initial", "failed"} => plan.done < Len(plan.phases)
  BY IdleFacts DEF BackupInv, TypeOK, StampBackedUp, Unfinished
<1> QED
  BY <1>1, IdleStepKept

LEMMA DeleteSnapshotStep ==
    ASSUME BackupInv, NEW n \in Name, DeleteSnapshot(n)
    PROVE  BackupInv'
<1> DEFINE exists == snap[n].st # "absent"
           reset == [ResetActive(snap) EXCEPT ![n].active = exists]
           forRemoval == [reset EXCEPT ![n] = SetState(reset[n], "ForRemoval")]
           before == [forRemoval EXCEPT ![n] = SetPreviousState(forRemoval[n])]
           asked == MayRemove(reset, n)
<1>1. ~PlanActive /\ UNCHANGED <<shape, coord, job, backups>>
  BY DEF DeleteSnapshot, RequestAllowed
<1>2. /\ reset \in SnapType
      /\ \A m \in Name : reset[m].st = snap[m].st /\ reset[m].ts = snap[m].ts
  <2>1. exists \in BOOLEAN /\ snap \in SnapType
    BY DEF BackupInv, TypeOK
  <2> HIDE DEF exists
  <2> QED
    BY <2>1, ActivateFacts
<1>3. IF asked THEN CreateSnapshotPlan("remove", forRemoval, before)
      ELSE snap' = reset /\ UNCHANGED <<plan, queue>>
  BY DEF DeleteSnapshot, Activated, ForRemoval, PutBack
<1> HIDE DEF reset, asked
<1>4. CASE asked
  <2> DEFINE i == SetState(reset[n], "ForRemoval")
             j == SetPreviousState(forRemoval[n])
  <2>1. reset[n] \in ItemType
    BY <1>2 DEF SnapType
  <2>2. i \in ItemType /\ i.st = "ForRemoval" /\ i.ts = reset[n].ts
    BY <2>1, SetStateFields DEF ItemState
  <2> HIDE DEF i
  <2>3. forRemoval \in SnapType /\ \A m \in Name : forRemoval[m] = IF m = n THEN i ELSE reset[m]
    BY <1>2, <2>2 DEF SnapType, i
  <2> HIDE DEF forRemoval
  <2>4. forRemoval[n] = i
    BY <2>3
  <2>5. j \in ItemType /\ j.st # "ForRemoval" /\ j.ts = i.ts
    BY <2>2, <2>4, SetPreviousFields
  <2> HIDE DEF j
  <2>6. before \in SnapType /\ \A m \in Name : before[m] = IF m = n THEN j ELSE forRemoval[m]
    BY <2>3, <2>5 DEF SnapType, j
  <2>7. CreateSnapshotPlan("remove", forRemoval, before)
    BY <1>3, <1>4
  <2> HIDE DEF before
  <2>8. \A m \in Name : /\ forRemoval[m].ts = "ok" => snap[m].ts = "ok"
                        /\ before[m].ts = "ok" => snap[m].ts = "ok"
                        /\ before[m].st = "ForRemoval" => snap[m].st = "ForRemoval"
                        /\ before[m].st = "ForRemoval" => forRemoval[m].st = "ForRemoval"
    BY <1>2, <2>2, <2>3, <2>5, <2>6
  <2> QED
    BY <1>1, <2>3, <2>6, <2>7, <2>8, CreateStep
<1>5. CASE ~asked
  BY <1>1, <1>2, <1>3, <1>5, RefusedStep
<1> QED
  BY <1>4, <1>5

LEMMA RestoreSnapshotStep ==
    ASSUME BackupInv, RestoreSnapshot
    PROVE  BackupInv'
<1> DEFINE exists == snap[Upgrade].st # "absent"
           reset == [ResetActive(snap) EXCEPT ![Upgrade].active = exists]
<1>1. ~PlanActive /\ UNCHANGED <<shape, coord, job, backups>> /\ Upgrade \in Name
  BY DEF RestoreSnapshot, RequestAllowed, Name
<1>2. /\ reset \in SnapType
      /\ \A m \in Name : reset[m].st = snap[m].st /\ reset[m].ts = snap[m].ts
  <2>1. exists \in BOOLEAN /\ snap \in SnapType
    BY DEF BackupInv, TypeOK
  <2> HIDE DEF exists
  <2> QED
    BY <1>1, <2>1, ActivateFacts
<1>3. \/ CreateSnapshotPlan("restore", reset, reset)
      \/ snap' = reset /\ UNCHANGED <<plan, queue>>
  BY DEF RestoreSnapshot, Activated
<1> HIDE DEF reset
<1>4. CASE CreateSnapshotPlan("restore", reset, reset)
  BY <1>1, <1>2, <1>4, CreateStep
<1>5. CASE snap' = reset /\ UNCHANGED <<plan, queue>>
  BY <1>1, <1>2, <1>5, RefusedStep
<1> QED
  BY <1>3, <1>4, <1>5

(* The requests that leave the items alone and find no run_plan at work *)
LEMMA PlanRequestStep ==
    ASSUME BackupInv, RunPlanRequest \/ DeletePlan \/ ModelChanged
    PROVE  BackupInv'
<1>1. /\ ~PlanActive /\ snap' = snap /\ queue \in Nat /\ queue' \in Nat
      /\ UNCHANGED <<shape, coord, job, backups>>
  BY DEF RunPlanRequest, DeletePlan, ModelChanged, PlanActive, BackupInv, TypeOK
<1>2. /\ coord'.st = "idle" /\ job' = "none" /\ coord' \in CoordType
      /\ plan \in PlanType /\ snap' \in SnapType
      /\ \A n \in Name : snap'[n].ts = "ok" => n \in backups'
      /\ plan.st \in {"initial", "failed"} => plan.done < Len(plan.phases)
  BY <1>1, IdleFacts DEF BackupInv, TypeOK, StampBackedUp, Unfinished
<1>3. CASE RunPlanRequest
  <2>1. plan' = plan
    BY <1>3 DEF RunPlanRequest
  <2> QED
    BY <1>1, <1>2, <2>1, IdleStepKept
<1>4. CASE DeletePlan
  <2>1. plan' = NoPlan
    BY <1>4 DEF DeletePlan
  <2> QED
    BY <1>1, <1>2, <2>1, NoPlanFacts, IdleStep
<1>5. CASE ModelChanged
  <2>1. plan' = [plan EXCEPT !.st = "invalid"]
    BY <1>5 DEF ModelChanged
  <2>2. /\ plan' \in PlanType /\ plan'.st = "invalid" /\ plan'.kind = plan.kind
        /\ plan'.phases = plan.phases /\ plan'.done = plan.done
    BY <1>2, <2>1 DEF PlanType
  <2> QED
    BY <1>1, <1>2, <2>2, IdleStepKept
<1> QED
  BY <1>3, <1>4, <1>5

LEMMA IdleCoordType == IdleCoord \in CoordType /\ IdleCoord.st = "idle"
BY DEF IdleCoord, CoordType

(* The celery service dies: the plan stays as it is, for _fix_plan. *)
LEMMA CrashStep ==
    ASSUME BackupInv, Crash
    PROVE  BackupInv'
<1> DEFINE failed == plan.failed \/ job = "running"
<1>1. /\ plan' = [plan EXCEPT !.failed = failed] /\ coord' = IdleCoord /\ job' = "none"
      /\ queue' \in {queue, queue + 1} /\ UNCHANGED <<shape, snap, backups>>
  BY DEF Crash
<1>2. /\ plan \in PlanType /\ snap \in SnapType /\ queue \in Nat
      /\ \A n \in Name : snap[n].ts = "ok" => n \in backups
      /\ plan.st \in {"initial", "failed"} => plan.done < Len(plan.phases)
  BY DEF BackupInv, TypeOK, StampBackedUp, Unfinished
<1>3. failed \in BOOLEAN
  BY <1>2 DEF PlanType
<1> HIDE DEF failed
<1>4. /\ plan' \in PlanType /\ plan'.kind = plan.kind /\ plan'.st = plan.st
      /\ plan'.phases = plan.phases /\ plan'.done = plan.done
  BY <1>1, <1>2, <1>3 DEF PlanType
<1>5. queue' \in Nat
  BY <1>1, <1>2
<1> QED
  BY <1>1, <1>2, <1>4, <1>5, IdleCoordType, IdleStepKept

(* _fix_plan *)
LEMMA FixPlanStep ==
    ASSUME BackupInv, FixPlan
    PROVE  BackupInv'
<1>1. /\ plan' = EndOf(plan) /\ coord.st = "idle"
      /\ UNCHANGED <<shape, snap, queue, coord, job, backups>>
  BY DEF FixPlan
<1>2. /\ plan \in PlanType /\ snap \in SnapType /\ queue \in Nat /\ coord \in CoordType
      /\ job = "none"
      /\ \A n \in Name : snap[n].ts = "ok" => n \in backups
      /\ plan.done <= Len(plan.phases)
  BY <1>1 DEF BackupInv, TypeOK, StampBackedUp, Unfinished, Owned
<1>3. plan.done \in Nat /\ Len(plan.phases) \in Nat
  BY <1>2 DEF PlanType
<1>4. /\ plan' \in PlanType /\ plan'.kind = plan.kind
      /\ plan'.phases = plan.phases /\ plan'.done = plan.done
      /\ plan'.st \in {"successful", "failed", "stopped"}
      /\ plan'.st = "failed" => plan.done # Len(plan.phases)
  BY <1>1, <1>2, EndOfFields
<1>5. plan'.st \in {"initial", "failed"} => plan.done < Len(plan.phases)
  BY <1>2, <1>3, <1>4
<1> QED
  BY <1>1, <1>2, <1>4, <1>5, IdleStepKept

(* The end of run_plan: the backup goes when its snapshot has gone. *)
LEMMA CompletePlanStep ==
    ASSUME BackupInv, CompletePlan
    PROVE  BackupInv'
<1> DEFINE successful == coord.st = "ending"
<1>1. /\ plan' = EndOf(plan) /\ coord.st \in {"ending", "failing"} /\ coord' = IdleCoord
      /\ snap' = ClearPlan(snap, successful)
      /\ backups' = IF successful /\ coord.action = "remove"
                    THEN backups \ {coord.name} ELSE backups
      /\ UNCHANGED <<shape, queue, job>>
  BY DEF CompletePlan
<1>2. /\ plan \in PlanType /\ snap \in SnapType /\ queue \in Nat /\ coord \in CoordType
      /\ job = "none"
      /\ \A n \in Name : snap[n].ts = "ok" => n \in backups
      /\ plan.done <= Len(plan.phases)
  BY <1>1 DEF BackupInv, TypeOK, StampBackedUp, Unfinished, Owned
<1>3. plan.done \in Nat /\ Len(plan.phases) \in Nat
  BY <1>2 DEF PlanType
<1>4. /\ plan' \in PlanType /\ plan'.kind = plan.kind
      /\ plan'.phases = plan.phases /\ plan'.done = plan.done
      /\ plan'.st \in {"successful", "failed", "stopped"}
      /\ plan'.st = "failed" => plan.done # Len(plan.phases)
  BY <1>1, <1>2, EndOfFields
<1>5. plan'.st \in {"initial", "failed"} => plan.done < Len(plan.phases)
  BY <1>2, <1>3, <1>4
<1>6. /\ snap' \in SnapType
      /\ \A n \in Name : /\ snap'[n].st = "ForRemoval" => snap[n].st = "ForRemoval"
                         /\ snap'[n].ts = "ok" => snap[n].ts = "ok" /\ snap[n].st # "Removed"
  BY <1>1, <1>2, ClearFacts
<1>7. ASSUME successful, coord.action = "remove"
      PROVE  coord.name \in Name /\ snap[coord.name].st = "Removed"
  <2>1. SnapshotPlan /\ coord.name \in Name /\ snap[coord.name].st \in {"ForRemoval", "Removed"}
    BY <1>7 DEF BackupInv, OneSnapshot
  <2>2. Unclean(snap) = {}
    BY <1>7, <2>1 DEF BackupInv, Cleaned
  <2> QED
    BY <2>1, <2>2 DEF Unclean
<1>8. \A n \in Name : snap'[n].ts = "ok" => n \in backups'
  BY <1>1, <1>2, <1>6, <1>7
<1> QED
  BY <1>1, <1>2, <1>4, <1>5, <1>6, <1>8, IdleCoordType, IdleStepKept

-----------------------------------------------------------------------------
(* The steps of run_plan and its phases *)

(* The plan's phases and what is left to be cleaned stay. *)
LEMMA CleanedKept ==
    ASSUME BackupInv, plan'.kind = plan.kind, plan'.phases = plan.phases,
           plan'.done = plan.done,
           \A n \in Name : snap'[n].st = "ForRemoval" => snap[n].st = "ForRemoval",
           coord'.st = "ending" => coord.st = "ending"
    PROVE  Cleaned'
<1>1. Unclean(snap') \subseteq Unclean(snap)
  BY DEF Unclean
<1>2. ASSUME SnapshotPlan'
      PROVE  Covers(plan', Unclean(snap')) /\ (coord'.st = "ending" => Unclean(snap') = {})
  <2>1. Covers(plan, Unclean(snap)) /\ (coord.st = "ending" => Unclean(snap) = {})
    BY <1>2 DEF BackupInv, Cleaned, SnapshotPlan
  <2> QED
    BY <1>1, <2>1, CoversKept
<1> QED
  BY <1>2 DEF Cleaned

(* What a step has to show while run_plan works *)
LEMMA WorkStep ==
    ASSUME BackupInv, shape' = shape, queue' = queue, backups' = backups,
           coord.st # "idle",
           coord' \in CoordType, coord'.action = coord.action, coord'.name = coord.name,
           job' \in {"none", "queued", "running", "ok", "error"},
           job' # "none" => coord'.st = "phases",
           snap' \in SnapType,
           \A n \in Name : snap'[n].ts = "ok" => snap[n].ts = "ok" \/ n \in backups,
           \A n \in Name : snap[n].st \in {"ForRemoval", "Removed"} =>
                               snap'[n].st \in {"ForRemoval", "Removed"},
           CurrentOf(snap') \in {"none", CurrentOf(snap)},
           plan' \in PlanType, plan'.kind = plan.kind,
           plan'.st \in {"running", "stopping"},
           Unfinished', Cleaned'
    PROVE  BackupInv'
<1>1. TypeOK'
  BY DEF BackupInv, TypeOK
<1>2. StampBackedUp'
  BY DEF BackupInv, StampBackedUp
<1>3. Owned'
  BY DEF Owned, PlanActive
<1>4. OneSnapshot'
  <2>1. CASE SnapshotPlan
    <3>1. /\ coord.action # "none" /\ coord.name \in Name
          /\ CurrentOf(snap) \in {"none", coord.name}
          /\ coord.action = "remove" => snap[coord.name].st \in {"ForRemoval", "Removed"}
          /\ coord.action # "remove" => coord.name \in backups
      BY <2>1 DEF BackupInv, OneSnapshot
    <3>2. SnapshotPlan'
      BY <2>1 DEF SnapshotPlan
    <3>3. /\ coord'.action # "none" /\ coord'.name \in Name
          /\ CurrentOf(snap') \in {"none", coord'.name}
          /\ coord'.action = "remove" => snap'[coord'.name].st \in {"ForRemoval", "Removed"}
          /\ coord'.action # "remove" => coord'.name \in backups'
      BY <3>1
    <3> QED
      BY <3>2, <3>3 DEF OneSnapshot
  <2>2. CASE ~SnapshotPlan
    <3>1. coord'.action = "none" /\ ~SnapshotPlan'
      BY <2>2 DEF BackupInv, OneSnapshot, SnapshotPlan
    <3> QED
      BY <3>1 DEF OneSnapshot
  <2> QED
    BY <2>1, <2>2
<1> QED
  BY <1>1, <1>2, <1>3, <1>4 DEF BackupInv

(* A timestamp is given only to a snapshot whose backup run_plan has made or found. *)
LEMMA StampAllowed ==
    ASSUME BackupInv, coord.st # "idle", SnapshotPlan,
           NEW n \in Name, n = CurrentOf(snap), n # "none",
           snap[n].st \notin {"ForRemoval", "Removed"}
    PROVE  n \in backups
BY DEF BackupInv, OneSnapshot

(* stop_plan, and requests for a plan while one is executed *)
LEMMA StopPlanStep ==
    ASSUME BackupInv, StopPlan
    PROVE  BackupInv'
<1>1. /\ plan.st = "running" /\ plan' = [plan EXCEPT !.st = "stopping"]
      /\ UNCHANGED <<shape, snap, queue, coord, job, backups>>
  BY DEF StopPlan
<1>2. TypeOK /\ Unfinished /\ Owned /\ StampBackedUp
  BY DEF BackupInv
<1>3. /\ plan' \in PlanType /\ plan'.kind = plan.kind /\ plan'.st = "stopping"
      /\ plan'.phases = plan.phases /\ plan'.done = plan.done
  BY <1>1, <1>2 DEF TypeOK, PlanType
<1>4. CASE coord.st = "idle"
  <2>1. job = "none"
    BY <1>2, <1>4 DEF Owned
  <2> QED
    BY <1>1, <1>2, <1>3, <1>4, <2>1, IdleStepKept DEF TypeOK, StampBackedUp
<1>5. CASE coord.st # "idle"
  <2>1. Unfinished'
    BY <1>1, <1>2, <1>3 DEF Unfinished, NextPhase
  <2>2. Cleaned'
    BY <1>1, <1>3, CleanedKept
  <2>3. CurrentOf(snap') = CurrentOf(snap)
    BY <1>1
  <2> QED
    BY <1>1, <1>2, <1>3, <1>5, <2>1, <2>2, <2>3, WorkStep DEF TypeOK, Owned, StampBackedUp
<1> QED
  BY <1>4, <1>5

LEMMA CreateDeploymentPlanStep ==
    ASSUME BackupInv, CreateDeploymentPlan
    PROVE  BackupInv'
<1> DEFINE reset == ResetActive(snap)
           p == [NoPlan EXCEPT !.kind = "deployment", !.st = "initial",
                               !.phases = <<Phase(0, {})>>]
<1>1. /\ snap' = reset /\ UNCHANGED <<shape, queue, coord, job, backups>>
      /\ \/ plan' = plan
         \/ ~PlanActive /\ plan' \in {NoPlan, p}
  BY DEF CreateDeploymentPlan
<1>2. TypeOK /\ Unfinished /\ Owned /\ StampBackedUp
  BY DEF BackupInv
<1>3. /\ reset \in SnapType
      /\ \A m \in Name : reset[m].st = snap[m].st /\ reset[m].ts = snap[m].ts
      /\ CurrentOf(reset) \in {"none", CurrentOf(snap)}
  BY <1>2, ResetFacts DEF TypeOK
<1> HIDE DEF reset
<1>4. CASE plan' = plan /\ coord.st = "idle"
  <2>1. job = "none"
    BY <1>2, <1>4 DEF Owned
  <2> QED
    BY <1>1, <1>2, <1>3, <1>4, <2>1, IdleStepKept DEF TypeOK, StampBackedUp, Unfinished
<1>5. CASE plan' = plan /\ coord.st # "idle"
  <2>1. Unfinished'
    BY <1>1, <1>2, <1>5 DEF Unfinished, NextPhase
  <2>2. Cleaned'
    BY <1>1, <1>3, <1>5, CleanedKept
  <2>3. plan.st \in {"running", "stopping"}
    BY <1>2, <1>5 DEF Owned, PlanActive
  <2>4. CurrentOf(snap') \in {"none", CurrentOf(snap)}
    BY <1>1, <1>3
  <2> QED
    BY <1>1, <1>2, <1>3, <1>5, <2>1, <2>2, <2>3, <2>4, WorkStep DEF TypeOK, Owned, StampBackedUp
<1>6. CASE ~PlanActive /\ plan' \in {NoPlan, p}
  <2>1. coord.st = "idle" /\ job = "none"
    BY <1>6, IdleFacts
  <2>2. <<Phase(0, {})>> \in Seq(PhaseType) /\ Len(<<Phase(0, {})>>) = 1
    BY DEF Phase, PhaseType
  <2>3. p \in PlanType /\ p.kind = "deployment" /\ p.done = 0 /\ Len(p.phases) = 1
    BY <2>2 DEF NoPlan, PlanType
  <2> HIDE DEF p
  <2>4. /\ plan' \in PlanType /\ plan'.kind \notin {"create", "remove", "restore"}
        /\ plan'.done <= Len(plan'.phases)
        /\ plan'.st \in {"initial", "failed"} => plan'.done < Len(plan'.phases)
    <3>1. CASE plan' = NoPlan
      BY <3>1, NoPlanFacts
    <3>2. CASE plan' = p
      BY <3>2, <2>3
    <3> QED
      BY <1>6, <3>1, <3>2
  <2> QED
    BY <1>1, <1>2, <1>3, <2>1, <2>4, IdleStep DEF TypeOK, StampBackedUp
<1> QED
  BY <1>1, <1>4, <1>5, <1>6

(* The coordinator hands a phase to a worker, a phase job starts, or it dies. *)
LEMMA PhaseStep ==
    ASSUME BackupInv, EnqueuePhase \/ StartPhase \/ WorkerDies
    PROVE  BackupInv'
<1>1. TypeOK /\ Unfinished /\ Owned /\ StampBackedUp
  BY DEF BackupInv
<1>2. coord.st = "phases" /\ plan.st \in {"running", "stopping"}
  BY <1>1 DEF EnqueuePhase, StartPhase, WorkerDies, Owned, PlanActive
<1>3. UNCHANGED <<shape, queue, coord, backups>>
  BY DEF EnqueuePhase, StartPhase, WorkerDies
<1>4. /\ plan' \in PlanType /\ plan'.kind = plan.kind /\ plan'.st = plan.st
      /\ plan'.phases = plan.phases /\ plan'.done = plan.done
  <2>1. plan' = plan \/ plan' = [plan EXCEPT !.failed = TRUE]
    BY DEF EnqueuePhase, StartPhase, WorkerDies
  <2> QED
    BY <1>1, <2>1 DEF TypeOK, PlanType
<1>5. snap' = snap \/ snap' = AtPhaseStart(snap)
  BY DEF EnqueuePhase, StartPhase, WorkerDies
<1>6. /\ snap' \in SnapType
      /\ \A n \in Name : /\ snap'[n].st = snap[n].st
                         /\ snap'[n].active = snap[n].active
                         /\ snap'[n].ts = "ok" => snap[n].ts = "ok"
  BY <1>1, <1>5, StartFacts DEF TypeOK
<1>7. CurrentOf(snap') = CurrentOf(snap)
  BY <1>6, CurrentSame
<1>8. Cleaned'
  BY <1>3, <1>4, <1>6, CleanedKept
<1>9. /\ job' \in {"queued", "running", "error"}
      /\ job' # "error" => job # "error" /\ job # "ok" /\ NextPhase.clean = {}
  BY <1>1, <1>2 DEF EnqueuePhase, StartPhase, WorkerDies, Unfinished
<1>10. Unfinished'
  BY <1>1, <1>2, <1>3, <1>4, <1>9 DEF Unfinished, NextPhase
<1> QED
  BY <1>1, <1>2, <1>3, <1>4, <1>6, <1>7, <1>8, <1>9, <1>10, WorkStep DEF TypeOK

(* The tasks of a phase are over. *)
LEMMA FinishPhaseStep ==
    ASSUME BackupInv, FinishPhase
    PROVE  BackupInv'
<1>1. PICK ok \in BOOLEAN :
        /\ snap' = AtPhaseEnd(snap, ok)
        /\ job' = IF ok /\ ~EndRaises(snap) THEN "ok" ELSE "error"
        /\ plan' = [plan EXCEPT !.failed = plan.failed \/ ~ok,
                                !.done = IF ok THEN plan.done + 1 ELSE plan.done]
  BY DEF FinishPhase
<1>2. job = "running" /\ UNCHANGED <<shape, queue, coord, backups>>
  BY DEF FinishPhase
<1>3. TypeOK /\ Unfinished /\ Owned /\ StampBackedUp /\ Cleaned
  BY DEF BackupInv
<1>4. coord.st = "phases" /\ plan.st \in {"running", "stopping"}
  BY <1>2, <1>3 DEF Owned, PlanActive
<1>5. plan.done \in Nat /\ Len(plan.phases) \in Nat /\ DOMAIN plan.phases = 1..Len(plan.phases)
  BY <1>3 DEF TypeOK, PlanType
<1>6. plan.done < Len(plan.phases) /\ plan.phases[plan.done + 1].clean = {}
  BY <1>2, <1>3, <1>4 DEF Unfinished, NextPhase
<1>7. /\ plan' \in PlanType /\ plan'.kind = plan.kind /\ plan'.st = plan.st
      /\ plan'.phases = plan.phases /\ plan'.done \in {plan.done, plan.done + 1}
  <2> DEFINE f == plan.failed \/ ~ok
             d == IF ok THEN plan.done + 1 ELSE plan.done
  <2>1. f \in BOOLEAN /\ d \in {plan.done, plan.done + 1}
    OBVIOUS
  <2>2. plan' = [plan EXCEPT !.failed = f, !.done = d]
    BY <1>1
  <2> HIDE DEF f, d
  <2>3. d \in Nat
    BY <1>5, <2>1
  <2> QED
    BY <1>3, <2>1, <2>2, <2>3 DEF TypeOK, PlanType
<1>8. /\ snap' \in SnapType
      /\ \A m \in Name :
           /\ snap'[m].active = snap[m].active
           /\ snap'[m].st = "ForRemoval" => snap[m].st = "ForRemoval"
           /\ snap[m].st \in {"ForRemoval", "Removed"} => snap'[m].st = snap[m].st
           /\ snap'[m].ts = "ok" =>
                \/ snap[m].ts = "ok"
                \/ /\ SnapshotPlan /\ m = CurrentOf(snap) /\ m # "none"
                   /\ snap[m].st \notin {"ForRemoval", "Removed"}
  BY <1>1, <1>3, EndFacts DEF TypeOK
<1>9. CurrentOf(snap') = CurrentOf(snap)
  BY <1>8, CurrentSame
<1>10. \A m \in Name : snap'[m].ts = "ok" => snap[m].ts = "ok" \/ m \in backups
  BY <1>4, <1>8, StampAllowed
<1>11. job' \in {"ok", "error"}
  BY <1>1
<1>12. Unfinished'
  BY <1>4, <1>5, <1>6, <1>7, <1>11 DEF Unfinished
<1>13. Cleaned'
  <2>1. ASSUME SnapshotPlan', NEW n \in Unclean(snap')
        PROVE  /\ \A i \in DOMAIN plan'.phases :
                     plan'.phases[i].clean # {} => n \in plan'.phases[i].clean
               /\ \E i \in DOMAIN plan'.phases : i > plan'.done /\ plan'.phases[i].clean # {}
    <3>1. Covers(plan, Unclean(snap)) /\ n \in Unclean(snap)
      BY <1>3, <1>7, <1>8, <2>1 DEF Cleaned, SnapshotPlan, Unclean
    <3>2. /\ \A i \in DOMAIN plan.phases :
                plan.phases[i].clean # {} => n \in plan.phases[i].clean
          /\ \E i \in DOMAIN plan.phases : i > plan.done /\ plan.phases[i].clean # {}
      BY <3>1 DEF Covers
    <3>3. PICK i \in DOMAIN plan.phases : i > plan.done /\ plan.phases[i].clean # {}
      BY <3>2
    <3>4. i > plan'.done
      BY <1>5, <1>6, <1>7, <3>3
    <3> QED
      BY <1>7, <3>2, <3>3, <3>4
  <2>2. coord'.st # "ending"
    BY <1>2, <1>4
  <2> QED
    BY <2>1, <2>2 DEF Cleaned, Covers
<1> QED
  BY <1>2, <1>3, <1>4, <1>7, <1>8, <1>9, <1>10, <1>11, <1>12, <1>13, WorkStep DEF TypeOK

(* run_plan takes the result of a phase: when all are complete nothing is left to be
   removed. *)
LEMMA CollectPhaseStep ==
    ASSUME BackupInv, CollectPhase
    PROVE  BackupInv'
<1> DEFINE to == IF job = "error" THEN "failing"
                 ELSE IF plan.done = Len(plan.phases) THEN "ending" ELSE "phases"
<1>1. /\ coord.st = "phases" /\ job' = "none" /\ coord' = [coord EXCEPT !.st = to]
      /\ UNCHANGED <<shape, snap, plan, queue, backups>>
  BY DEF CollectPhase
<1>2. TypeOK /\ Unfinished /\ Owned /\ StampBackedUp /\ Cleaned
  BY DEF BackupInv
<1>3. plan.done \in Nat /\ Len(plan.phases) \in Nat /\ DOMAIN plan.phases = 1..Len(plan.phases)
  BY <1>2 DEF TypeOK, PlanType
<1>4. /\ to \in {"failing", "ending", "phases"}
      /\ to = "ending" => plan.done = Len(plan.phases)
      /\ to = "phases" => plan.done # Len(plan.phases)
  OBVIOUS
<1> HIDE DEF to
<1>5. /\ coord' \in CoordType /\ coord'.st = to
      /\ coord'.action = coord.action /\ coord'.name = coord.name
  BY <1>1, <1>2, <1>4 DEF TypeOK, CoordType
<1>6. plan.st \in {"running", "stopping"}
  BY <1>1, <1>2 DEF Owned, PlanActive
<1>7. Unfinished'
  BY <1>1, <1>2, <1>3, <1>4, <1>5 DEF Unfinished
<1>8. ASSUME SnapshotPlan, to = "ending" PROVE Unclean(snap) = {}
  BY <1>2, <1>3, <1>4, <1>8 DEF Cleaned, Covers
<1>9. Cleaned'
  BY <1>1, <1>2, <1>5, <1>8 DEF Cleaned, SnapshotPlan
<1>10. CurrentOf(snap') = CurrentOf(snap)
  BY <1>1
<1> QED
  BY <1>1, <1>2, <1>5, <1>6, <1>7, <1>9, <1>10, WorkStep DEF TypeOK

(* run_plan runs the cleanup tasks: they take all that is to be removed. *)
LEMMA RunCleanupPhaseStep ==
    ASSUME BackupInv, RunCleanupPhase
    PROVE  BackupInv'
<1> DEFINE refused == NextPhase.vol # 0 \/ plan.st = "stopping"
           removed == [n \in Name |->
                          IF n \in NextPhase.clean /\ snap[n].st = "ForRemoval"
                          THEN SetState(snap[n], "Removed") ELSE snap[n]]
           started == AtPhaseStart(removed)
           to == IF EndRaises(started) THEN "failing" ELSE "ending"
<1>1. /\ coord.st = "phases" /\ job = "none" /\ NextPhase.clean # {}
      /\ UNCHANGED <<shape, queue, job, backups>>
  BY DEF RunCleanupPhase
<1>2. TypeOK /\ Unfinished /\ Owned /\ StampBackedUp /\ Cleaned
  BY DEF BackupInv
<1>3. plan.done \in Nat /\ Len(plan.phases) \in Nat /\ DOMAIN plan.phases = 1..Len(plan.phases)
  BY <1>2 DEF TypeOK, PlanType
<1>4. plan.st \in {"running", "stopping"} /\ plan.done < Len(plan.phases)
  BY <1>1, <1>2 DEF Owned, PlanActive, Unfinished
<1>5. CASE refused
  <2>1. coord' = [coord EXCEPT !.st = "failing"] /\ UNCHANGED <<snap, plan>>
    BY <1>5 DEF RunCleanupPhase
  <2>2. /\ coord' \in CoordType /\ coord'.st = "failing"
        /\ coord'.action = coord.action /\ coord'.name = coord.name
    BY <1>2, <2>1 DEF TypeOK, CoordType
  <2>3. Unfinished'
    BY <1>2, <2>1, <2>2 DEF Unfinished
  <2>4. Cleaned'
    BY <1>2, <2>1, <2>2 DEF Cleaned, SnapshotPlan
  <2>5. CurrentOf(snap') = CurrentOf(snap)
    BY <2>1
  <2> QED
    BY <1>1, <1>2, <1>4, <2>1, <2>2, <2>3, <2>4, <2>5, WorkStep DEF TypeOK
<1>6. CASE ~refused
  <2>1. /\ snap' = AtPhaseEnd(started, TRUE)
        /\ plan' = [plan EXCEPT !.done = plan.done + 1]
        /\ coord' = [coord EXCEPT !.st = to]
    BY <1>6 DEF RunCleanupPhase
  <2>2. ASSUME NEW n \in Name
        PROVE  /\ removed[n] \in ItemType
               /\ removed[n].active = snap[n].active /\ removed[n].ts = snap[n].ts
               /\ removed[n].st = IF n \in NextPhase.clean /\ snap[n].st = "ForRemoval"
                                  THEN "Removed" ELSE snap[n].st
    <3>1. snap[n] \in ItemType
      BY <1>2 DEF TypeOK, SnapType
    <3>2. /\ SetState(snap[n], "Removed") \in ItemType
          /\ SetState(snap[n], "Removed").st = "Removed"
          /\ SetState(snap[n], "Removed").ts = snap[n].ts
          /\ SetState(snap[n], "Removed").active = snap[n].active
      BY <3>1, SetStateFields DEF ItemState
    <3> QED
      BY <3>1, <3>2
  <2>3. removed \in SnapType
    BY <2>2 DEF SnapType
  <2>4. to \in {"failing", "ending"}
    OBVIOUS
  <2> HIDE DEF removed, to
  <2>5. /\ started \in SnapType
        /\ \A n \in Name : /\ started[n].st = removed[n].st
                           /\ started[n].active = removed[n].active
                           /\ started[n].ts = "ok" => removed[n].ts = "ok"
    BY <2>3, StartFacts
  <2> HIDE DEF started
  <2>6. /\ snap' \in SnapType
        /\ \A m \in Name :
             /\ snap'[m].active = started[m].active
             /\ snap'[m].st = "ForRemoval" => started[m].st = "ForRemoval"
             /\ started[m].st \in {"ForRemoval", "Removed"} => snap'[m].st = started[m].st
             /\ snap'[m].ts = "ok" =>
                  \/ started[m].ts = "ok"
                  \/ /\ SnapshotPlan /\ m = CurrentOf(started) /\ m # "none"
                     /\ started[m].st \notin {"ForRemoval", "Removed"}
    BY <2>1, <2>5, EndFacts
  <2>7. CurrentOf(started) = CurrentOf(snap) /\ CurrentOf(snap') = CurrentOf(snap)
    <3>1. \A n \in Name : started[n].active = snap[n].active /\ snap'[n].active = snap[n].active
      BY <2>2, <2>5, <2>6
    <3> QED
      BY <3>1, CurrentSame
  <2>8. \A n \in Name : snap[n].st \in {"ForRemoval", "Removed"} =>
                            started[n].st \in {"ForRemoval", "Removed"}
    BY <2>2, <2>5
  <2>9. \A n \in Name : snap'[n].ts = "ok" => snap[n].ts = "ok" \/ n \in backups
    <3>1. SUFFICES ASSUME NEW n \in Name, snap'[n].ts = "ok", snap[n].ts # "ok"
                   PROVE  n \in backups
      OBVIOUS
    <3>2. SnapshotPlan /\ n = CurrentOf(snap) /\ n # "none"
      BY <2>2, <2>5, <2>6, <2>7, <3>1
    <3>3. snap[n].st \notin {"ForRemoval", "Removed"}
      BY <2>2, <2>5, <2>6, <2>8, <3>1
    <3> QED
      BY <1>1, <3>2, <3>3, StampAllowed
  <2>10. \A n \in Name : snap[n].st \in {"ForRemoval", "Removed"} =>
                             snap'[n].st \in {"ForRemoval", "Removed"}
    BY <2>6, <2>8
  <2>11. /\ plan' \in PlanType /\ plan'.kind = plan.kind /\ plan'.st = plan.st
         /\ plan'.phases = plan.phases /\ plan'.done = plan.done + 1
    BY <1>2, <1>3, <2>1 DEF TypeOK, PlanType
  <2>12. /\ coord' \in CoordType /\ coord'.st = to
         /\ coord'.action = coord.action /\ coord'.name = coord.name
    BY <1>2, <2>1, <2>4 DEF TypeOK, CoordType
  <2>13. Unfinished'
    BY <1>3, <1>4, <2>4, <2>11, <2>12 DEF Unfinished
  <2>14. ASSUME SnapshotPlan PROVE Unclean(snap') = {}
    <3>1. SUFFICES ASSUME NEW n \in Name, snap'[n].st = "ForRemoval" PROVE FALSE
      BY DEF Unclean
    <3>2. snap[n].st = "ForRemoval" /\ n \notin NextPhase.clean
      BY <2>2, <2>5, <2>6, <3>1
    <3>3. plan.done + 1 \in DOMAIN plan.phases
      BY <1>3, <1>4
    <3>4. n \in plan.phases[plan.done + 1].clean
      BY <1>1, <1>2, <2>14, <3>2, <3>3 DEF Cleaned, Covers, Unclean, NextPhase
    <3> QED
      BY <3>2, <3>4 DEF NextPhase
  <2>15. Cleaned'
    BY <2>11, <2>14 DEF Cleaned, SnapshotPlan, Covers
  <2> QED
    BY <1>1, <1>2, <1>4, <2>4, <2>6, <2>7, <2>9, <2>10, <2>11, <2>12, <2>13, <2>15,
       WorkStep DEF TypeOK
<1> QED
  BY <1>5, <1>6

(* run_plan starts the plan: it knows its snapshot from now on. *)
LEMMA StartPlanStep ==
    ASSUME BackupInv, coord.st = "idle", ~PlanActive,
           ~(SnapshotPlan /\ SnapshotAction(snap) = "error"),
           NEW action, action = IF SnapshotPlan THEN SnapshotAction(snap) ELSE "none",
           NEW name, name = CurrentOf(snap),
           plan.st \in {"initial", "failed"},
           backups' = IF action = "create" THEN backups \cup {name} ELSE backups,
           plan' = [plan EXCEPT !.st = "running", !.failed = FALSE],
           coord' = [st |-> "phases", action |-> action, name |-> name],
           queue' \in Nat, UNCHANGED <<snap, job, shape>>
    PROVE  BackupInv'
<1>1. TypeOK /\ Unfinished /\ Owned /\ StampBackedUp
  BY DEF BackupInv
<1>2. job = "none"
  BY <1>1 DEF Owned
<1>3. /\ plan' \in PlanType /\ plan'.kind = plan.kind /\ plan'.st = "running"
      /\ plan'.phases = plan.phases /\ plan'.done = plan.done
  BY <1>1 DEF TypeOK, PlanType
<1>4. /\ name \in Name \cup {"none"}
      /\ action \in {"none", "create", "remove", "restore"}
      /\ SnapshotPlan => /\ action # "none" /\ name \in Name
                         /\ action = "remove" => snap[name].st = "ForRemoval"
                         /\ action = "restore" => snap[name].ts = "ok"
  BY CurrentIsName, ActionFacts
<1>5. /\ coord' \in CoordType /\ coord'.st = "phases"
      /\ coord'.action = action /\ coord'.name = name
  BY <1>4 DEF CoordType
<1>6. TypeOK'
  BY <1>1, <1>3, <1>5 DEF TypeOK
<1>7. StampBackedUp'
  BY <1>1 DEF StampBackedUp
<1>8. Owned'
  BY <1>2, <1>3 DEF Owned, PlanActive
<1>9. Unfinished'
  BY <1>1, <1>2, <1>3 DEF Unfinished
<1>10. Cleaned'
  BY <1>3, <1>5, CleanedKept
<1>11. CurrentOf(snap') = name
  OBVIOUS
<1>12. OneSnapshot'
  <2>1. CASE SnapshotPlan
    <3>1. SnapshotPlan' /\ coord'.action # "none" /\ coord'.name \in Name
      BY <1>3, <1>4, <1>5, <2>1 DEF SnapshotPlan
    <3>2. coord'.action = "remove" => snap'[coord'.name].st \in {"ForRemoval", "Removed"}
      BY <1>4, <1>5, <2>1
    <3>3. coord'.action # "remove" => coord'.name \in backups'
      BY <1>1, <1>4, <1>5, <2>1 DEF StampBackedUp
    <3> QED
      BY <1>5, <1>11, <3>1, <3>2, <3>3 DEF OneSnapshot
  <2>2. CASE ~SnapshotPlan
    <3>1. ~SnapshotPlan' /\ coord'.action = "none"
      BY <1>3, <1>5, <2>2 DEF SnapshotPlan
    <3> QED
      BY <3>1 DEF OneSnapshot
  <2> QED
    BY <2>1, <2>2
<1> QED
  BY <1>6, <1>7, <1>8, <1>9, <1>10, <1>12 DEF BackupInv

(* run_plan takes a message. *)
LEMMA RunPlanStep ==
    ASSUME BackupInv, RunPlan
    PROVE  BackupInv'
<1>1. TypeOK /\ Unfinished /\ Owned /\ StampBackedUp
  BY DEF BackupInv
<1>2. coord.st = "idle" /\ job = "none" /\ queue' \in Nat /\ shape' = shape
  BY <1>1 DEF RunPlan, TypeOK, Owned
<1>3. plan.done \in Nat /\ Len(plan.phases) \in Nat /\ plan.done <= Len(plan.phases)
  BY <1>1 DEF TypeOK, PlanType, Unfinished
<1>4. CASE PlanActive
  <2> DEFINE failed == plan.failed \/ job = "running"
             p == [plan EXCEPT !.failed = failed]
  <2>1. /\ plan' = EndOf(p) /\ snap' = ClearPlan(snap, FALSE)
        /\ job' = "none" /\ UNCHANGED <<coord, backups>>
    BY <1>4 DEF RunPlan
  <2>2. failed \in BOOLEAN
    OBVIOUS
  <2> HIDE DEF failed
  <2>3. p \in PlanType /\ p.kind = plan.kind /\ p.phases = plan.phases /\ p.done = plan.done
    BY <1>1, <2>2 DEF TypeOK, PlanType
  <2> HIDE DEF p
  <2>4. /\ plan' \in PlanType /\ plan'.kind = plan.kind
        /\ plan'.phases = plan.phases /\ plan'.done = plan.done
        /\ plan'.st \in {"successful", "failed", "stopped"}
        /\ plan'.st = "failed" => plan.done # Len(plan.phases)
    BY <2>1, <2>3, EndOfFields
  <2>5. plan'.st \in {"initial", "failed"} => plan.done < Len(plan.phases)
    BY <1>3, <2>4
  <2>6. /\ snap' \in SnapType
        /\ \A n \in Name : /\ snap'[n].st = "ForRemoval" => snap[n].st = "ForRemoval"
                           /\ snap'[n].ts = "ok" => snap[n].ts = "ok"
    BY <1>1, <2>1, ClearFacts DEF TypeOK
  <2> QED
    BY <1>1, <1>2, <2>1, <2>4, <2>5, <2>6, IdleStepKept DEF TypeOK, StampBackedUp
<1>5. CASE ~PlanActive /\ (~PlanExists \/ (SnapshotPlan /\ SnapshotAction(snap) = "error"))
  <2>1. UNCHANGED <<plan, snap, job, coord, backups>>
    BY <1>5 DEF RunPlan
  <2> QED
    BY <1>1, <1>2, <2>1, IdleStepKept DEF TypeOK, StampBackedUp, Unfinished
<1>6. CASE ~PlanActive /\ ~(~PlanExists \/ (SnapshotPlan /\ SnapshotAction(snap) = "error"))
  <2>1. PICK action : action = IF SnapshotPlan THEN SnapshotAction(snap) ELSE "none"
    OBVIOUS
  <2>2. PICK name : name = CurrentOf(snap)
    OBVIOUS
  <2>3. /\ backups' = IF action = "create" THEN backups \cup {name} ELSE backups
        /\ plan' = IF plan.st \in {"initial", "failed"}
                   THEN [plan EXCEPT !.st = "running", !.failed = FALSE] ELSE plan
        /\ coord' = IF plan.st \in {"initial", "failed"}
                    THEN [st |-> "phases", action |-> action, name |-> name] ELSE coord
        /\ UNCHANGED <<snap, job>>
    BY <1>6, <2>1, <2>2 DEF RunPlan
  <2>4. CASE plan.st \in {"initial", "failed"}
    <3>1. /\ plan' = [plan EXCEPT !.st = "running", !.failed = FALSE]
          /\ coord' = [st |-> "phases", action |-> action, name |-> name]
      BY <2>3, <2>4
    <3> QED
      BY <1>2, <1>6, <2>1, <2>2, <2>3, <2>4, <3>1, StartPlanStep
  <2>5. CASE plan.st \notin {"initial", "failed"}
    <3>1. plan' = plan /\ coord' = coord /\ backups \subseteq backups'
      BY <2>3, <2>5
    <3> QED
      BY <1>1, <1>2, <2>3, <2>5, <3>1, IdleStepKept DEF TypeOK, StampBackedUp
  <2> QED
    BY <2>4, <2>5
<1> QED
  BY <1>4, <1>5, <1>6

-----------------------------------------------------------------------------

LEMMA InitBackup == Init => BackupInv
<1> SUFFICES ASSUME Init PROVE BackupInv
  OBVIOUS
<1>1. Absent \in ItemType /\ Absent.ts = "none" /\ Absent.st = "absent"
  BY DEF Absent, ItemType, ItemState, PreviousState
<1>2. /\ snap \in SnapType /\ plan = NoPlan /\ coord = IdleCoord
      /\ \A n \in Name : snap[n].ts = "none"
  BY <1>1 DEF Init, SnapType
<1>3. TypeOK
  BY <1>2, NoPlanFacts, IdleCoordType DEF Init, TypeOK
<1>4. StampBackedUp /\ Owned /\ OneSnapshot
  BY <1>2, IdleCoordType DEF Init, StampBackedUp, Owned, OneSnapshot
<1>5. Unfinished /\ Cleaned
  BY <1>2, NoPlanFacts, IdleCoordType DEF Unfinished, Cleaned, SnapshotPlan
<1> QED
  BY <1>3, <1>4, <1>5 DEF BackupInv

LEMMA NextBackup == BackupInv /\ [Next]_vars => BackupInv'
<1> SUFFICES ASSUME BackupInv, [Next]_vars PROVE BackupInv'
  OBVIOUS
<1>1. CASE \E n \in Name : CreateSnapshot(n) \/ DeleteSnapshot(n)
  BY <1>1, CreateSnapshotStep, DeleteSnapshotStep
<1>2. CASE RestoreSnapshot
  BY <1>2, RestoreSnapshotStep
<1>3. CASE CreateDeploymentPlan
  BY <1>3, CreateDeploymentPlanStep
<1>4. CASE RunPlanRequest \/ DeletePlan \/ ModelChanged
  BY <1>4, PlanRequestStep
<1>5. CASE StopPlan
  BY <1>5, StopPlanStep
<1>6. CASE RunPlan
  BY <1>6, RunPlanStep
<1>7. CASE EnqueuePhase \/ StartPhase \/ WorkerDies
  BY <1>7, PhaseStep
<1>8. CASE RunCleanupPhase
  BY <1>8, RunCleanupPhaseStep
<1>9. CASE FinishPhase
  BY <1>9, FinishPhaseStep
<1>10. CASE CollectPhase
  BY <1>10, CollectPhaseStep
<1>11. CASE CompletePlan
  BY <1>11, CompletePlanStep
<1>12. CASE Crash
  BY <1>12, CrashStep
<1>13. CASE FixPlan
  BY <1>13, FixPlanStep
<1>14. CASE UNCHANGED vars
  BY <1>14 DEF vars, BackupInv, TypeOK, StampBackedUp, Owned, Unfinished, NextPhase,
               Cleaned, OneSnapshot, SnapshotPlan, PlanActive, Unclean, Covers,
               CurrentOf, ActiveNames
<1> QED
  BY <1>1, <1>2, <1>3, <1>4, <1>5, <1>6, <1>7, <1>8, <1>9, <1>10, <1>11, <1>12, <1>13,
     <1>14 DEF Next

(* run_plan and its backups: for any snapshots and plugins, whatever requests, stops,
   crashes, repairs and repeated or late run_plan messages come in between, a snapshot
   the deployment can be restored to has the model backup it is restored from. *)
THEOREM RestorableIsBackedUp == Spec => []RestorableHasBackup
<1>1. BackupInv => RestorableHasBackup
  BY DEF BackupInv, StampBackedUp, RestorableHasBackup
<1> QED
  BY <1>1, InitBackup, NextBackup, PTL DEF Spec

-----------------------------------------------------------------------------
(* One run_plan message at a time: a timestamp and success mean what they say *)

(* No request is lost, late or repeated beyond the message of a coordinator that died, and
   no plan is asked for while one is stopping. *)
Orderly == Faults = {} /\ MaxQueue = 1

OneMessage == queue <= 1 /\ (coord.st # "idle" => queue = 0)

(* A timestamp is given with the state Applied, to which set_previous_state goes back. *)
Sound(i) ==
    i.ts = "ok" =>
        /\ i.st # "Initial"
        /\ i.st = "ForRemoval" => i.prev \notin {"Initial", "none"}
StampApplied == \A n \in Name : Sound(snap[n])

(* ... and for all the volumes, whatever becomes of the item later. *)
StampComplete ==
    /\ disk \in [Name -> SUBSET Volume]
    /\ \A n \in Name : snap[n].ts = "ok" => disk[n] = Volume

(* The phases of a snapshot plan have all the volumes, and the last phase of a removal,
   which alone has CleanupTasks, has the item. *)
WellBuilt(p, V) ==
    /\ p.action = p.kind /\ p.target \in Name
    /\ p.kind = "restore" => p.target = Upgrade
    /\ \A v \in V : \E i \in DOMAIN p.phases : p.phases[i].vol = v
    /\ \A i \in DOMAIN p.phases : p.phases[i].vol \in V \cup {0}
    /\ p.kind = "remove" =>
         \A i \in DOMAIN p.phases :
            IF i = Len(p.phases) THEN p.target \in p.phases[i].clean ELSE p.phases[i].clean = {}

(* The phases done so far have done what they should to the volumes. *)
Progress(p, d) ==
    \A i \in 1..p.done : p.phases[i].vol # 0 =>
        /\ p.kind = "create" => p.phases[i].vol \in d[p.target]
        /\ p.kind = "remove" => p.phases[i].vol \notin d[p.target]

(* run_plan works on the plan, or a message may still make it do so. *)
Engaged ==
    \/ PlanActive \/ plan.st = "initial"
    \/ plan.st = "failed" /\ queue = 1 /\ ActiveNames(snap) # {}

(* How far the item i is, with the plan p and the job j *)
ItemAt(i, p, j) ==
    /\ p.kind = "create" =>
         IF p.done = Len(p.phases) THEN i.st = "Applied" /\ i.ts = "ok"
         ELSE i.st = "Initial" /\ (p.done > 0 \/ j = "running" => i.ts = "failed")
    /\ p.kind = "remove" =>
         IF p.done = Len(p.phases) THEN i.st = "Removed"
         ELSE i.st = "ForRemoval" /\ (p.done > 0 \/ j = "running" => i.ts = "failed")
    /\ p.kind = "restore" => i.st = "Applied" /\ i.ts = "ok"

(* A plan that may run is for the active snapshot. *)
OnTarget ==
    Engaged =>
        /\ ActiveNames(snap) = {plan.target}
        /\ plan.st = "initial" => queue = 1
        /\ ItemAt(snap[plan.target], plan, job)
        /\ plan.kind = "create" /\ PlanActive => plan.target \in backups
        /\ coord.st # "idle" => coord.action = plan.kind

(* What is left of a successful plan *)
Success ==
    plan.st = "successful" =>
        /\ plan.done = Len(plan.phases)
        /\ plan.kind = "create" => snap[plan.target].ts = "ok" /\ plan.target \in backups
        /\ plan.kind = "remove" => snap[plan.target].st \in {"absent", "Removed"}

PlanInv ==
    IF SnapshotPlan THEN WellBuilt(plan, Volume) /\ Progress(plan, disk) /\ OnTarget /\ Success
    ELSE plan.action = "none"

StampInv == OneMessage /\ StampApplied /\ StampComplete /\ PlanInv
DoneInv == BackupInv /\ StampInv

(* SnapshotPlanBuilder.build: every volume has a phase of its own, and only the last
   phase of a removal has CleanupTasks. *)
LEMMA BuildVolumes ==
    ASSUME NEW kind, NEW s, shape \in Shapes, NEW b, b = BuildPhases(kind, s)
    PROVE  /\ \A v \in Volume : \E i \in DOMAIN b : b[i].vol = v
           /\ \A i \in DOMAIN b : b[i].vol \in Volume \cup {0}
           /\ kind = "remove" /\ CleanupOf(s) # {} =>
                \A i \in DOMAIN b :
                    IF i = Len(b) THEN b[i].clean = CleanupOf(s) ELSE b[i].clean = {}
<1> DEFINE clean == CleanupOf(s)
           phase(i) == Phase(IF shape[i] = "post" THEN 0 ELSE i,
                             IF shape[i] = "default" /\ kind # "remove" THEN clean ELSE {})
           volumes == {j \in DOMAIN shape : shape[j] # "post"}
           before == [i \in 1..Cardinality(volumes) |-> phase(i)]
           after == IF Len(before) < Len(shape) THEN <<phase(Len(shape))>> ELSE <<>>
           apart == IF clean = {} THEN <<>> ELSE <<Phase(0, clean)>>
           T == {x \in [vol : Nat, clean : SUBSET Name] : x.vol \in Volume \cup {0}}
           T0 == {x \in T : kind = "remove" => x.clean = {}}
<1>1. /\ shape \in Seq({"tagged", "default", "post"}) /\ Len(shape) \in Nat \ {0}
      /\ DOMAIN shape = 1..Len(shape)
      /\ \A i \in 1..Len(shape) - 1 : shape[i] # "post"
  <2>1. shape \in Seq({"tagged", "default", "post"}) /\ shape # <<>>
    BY SnapshotAssumption
  <2> QED
    BY <2>1, SnapshotAssumption
<1>2. PICK N \in Nat : /\ volumes = 1..N /\ N \in {Len(shape), Len(shape) - 1}
                       /\ N = Len(shape) - 1 => shape[Len(shape)] = "post"
  <2>1. CASE shape[Len(shape)] = "post"
    <3>1. volumes = 1..(Len(shape) - 1) /\ Len(shape) - 1 \in Nat
      BY <1>1, <2>1
    <3> QED
      BY <2>1, <3>1
  <2>2. CASE shape[Len(shape)] # "post"
    <3>1. volumes = 1..Len(shape)
      BY <1>1, <2>2
    <3>2. Len(shape) \in Nat /\ \A k \in Nat : k # k - 1
      BY <1>1
    <3> HIDE DEF volumes
    <3> QED
      BY <3>1, <3>2
  <2> QED
    BY <2>1, <2>2
<1>3. Cardinality(volumes) = N
  <2> HIDE DEF volumes
  <2>1. Cardinality(1..N) = IF 1 > N THEN 0 ELSE N - 1 + 1
    BY <1>2, FS_Interval
  <2> QED
    BY <1>2, <2>1
<1>4. Volume = 1..N
  BY <1>1, <1>2 DEF Volume
<1>5. clean \subseteq Name
  BY DEF CleanupOf
<1>6. \A i \in 1..N : phase(i).vol = i
  BY <1>2 DEF Phase
<1>7. ASSUME NEW i \in 1..Len(shape) PROVE phase(i) \in T0
  <2> DEFINE v == IF shape[i] = "post" THEN 0 ELSE i
             c == IF shape[i] = "default" /\ kind # "remove" THEN clean ELSE {}
  <2>1. v \in Nat /\ v \in Volume \cup {0}
    BY <1>1 DEF Volume
  <2>2. c \in SUBSET Name /\ (kind = "remove" => c = {})
    BY <1>5
  <2>3. phase(i) = [vol |-> v, clean |-> c]
    BY DEF Phase
  <2> HIDE DEF v, c
  <2> QED
    BY <2>1, <2>2, <2>3
<1>8. b = IF kind = "remove" THEN before \o after \o apart
          ELSE IF \E i \in DOMAIN shape : shape[i] = "default" THEN before \o after
          ELSE before \o apart \o after
  BY DEF BuildPhases
<1>9. before \in Seq(T0) /\ Len(before) = N /\ \A i \in 1..N : before[i].vol = i
  <2> HIDE DEF phase, T0
  <2>1. before = [i \in 1..N |-> phase(i)]
    BY <1>3
  <2>2. \A i \in 1..N : phase(i) \in T0
    BY <1>1, <1>2, <1>7
  <2> HIDE DEF before
  <2>3. before \in [1..N -> T0] /\ \A i \in 1..N : before[i] = phase(i)
    BY <2>1, <2>2
  <2>4. before \in Seq(T0) /\ Len(before) = N
    BY <1>2, <2>3
  <2> QED
    BY <1>6, <2>3, <2>4
<1>10. after \in Seq(T0)
  <2> HIDE DEF phase, before, T0
  <2> QED
    BY <1>1, <1>7
<1>11. Phase(0, clean) \in T /\ Phase(0, clean).clean = clean
  BY <1>5 DEF Phase
<1>12. apart \in Seq(T)
  <2> HIDE DEF clean, T
  <2> QED
    BY <1>11
<1>13. T0 \subseteq T
  OBVIOUS
<1>14. \A x \in T : x.vol \in Volume \cup {0}
  OBVIOUS
<1>15. \A x \in T0 : kind = "remove" => x.clean = {}
  OBVIOUS
<1> HIDE DEF before, after, clean, T, T0
<1>16. before \in Seq(T) /\ after \in Seq(T) /\ before \o after \in Seq(T0)
  BY <1>9, <1>10, <1>13
<1>17. PICK c \in Seq(T) : b = before \o c
  <2> HIDE DEF apart
  <2>1. CASE kind = "remove"
    <3>1. b = before \o (after \o apart) /\ after \o apart \in Seq(T)
      BY <1>8, <1>12, <1>16, <2>1
    <3> QED
      BY <3>1
  <2>2. CASE kind # "remove" /\ \E i \in DOMAIN shape : shape[i] = "default"
    BY <1>8, <1>16, <2>2
  <2>3. CASE kind # "remove" /\ ~\E i \in DOMAIN shape : shape[i] = "default"
    <3>1. b = before \o (apart \o after) /\ apart \o after \in Seq(T)
      BY <1>8, <1>12, <1>16, <2>3
    <3> QED
      BY <3>1
  <2> QED
    BY <2>1, <2>2, <2>3
<1>18. /\ b \in Seq(T) /\ DOMAIN b = 1..Len(b) /\ Len(b) = N + Len(c) /\ Len(c) \in Nat
       /\ \A i \in 1..N : b[i] = before[i]
  <2>1. b \in Seq(T) /\ Len(b) = Len(before) + Len(c) /\ Len(c) \in Nat
    BY <1>16, <1>17
  <2>2. \A i \in 1..Len(before) : b[i] = before[i]
    BY <1>16, <1>17
  <2> QED
    BY <1>9, <2>1, <2>2
<1>19. ASSUME NEW v \in Volume PROVE \E i \in DOMAIN b : b[i].vol = v
  <2>1. v \in 1..N /\ v \in DOMAIN b
    BY <1>4, <1>18
  <2> QED
    BY <1>9, <1>18, <2>1
<1>20. \A i \in DOMAIN b : b[i].vol \in Volume \cup {0}
  BY <1>14, <1>18
<1>21. ASSUME kind = "remove", clean # {}, NEW i \in DOMAIN b
       PROVE  IF i = Len(b) THEN b[i].clean = clean ELSE b[i].clean = {}
  <2> DEFINE a == before \o after
             l == Phase(0, clean)
  <2>1. b = a \o <<l>> /\ a \in Seq(T0)
    BY <1>8, <1>16, <1>21
  <2> HIDE DEF a, l
  <2>2. /\ Len(b) = Len(a) + 1 /\ Len(a) \in Nat /\ b[Len(a) + 1] = l
        /\ \A k \in 1..Len(a) : b[k] = a[k] /\ a[k] \in T0
    BY <2>1
  <2>3. l.clean = clean
    BY <1>11 DEF l
  <2>4. i = Len(b) \/ i \in 1..Len(a)
    BY <1>18, <2>2
  <2>5. CASE i = Len(b)
    BY <2>2, <2>3, <2>5
  <2>6. CASE i # Len(b) /\ i \in 1..Len(a)
    BY <1>15, <1>21, <2>2, <2>6
  <2> QED
    BY <2>4, <2>5, <2>6
<1> QED
  BY <1>19, <1>20, <1>21 DEF clean

-----------------------------------------------------------------------------
(* The active snapshot and its item *)

LEMMA NoneIsNoName == "none" \notin Name
BY SnapshotAssumption DEF Name

LEMMA CurrentIsTarget ==
    ASSUME NEW s, NEW t, ActiveNames(s) = {t}
    PROVE  CurrentOf(s) = t /\ t \in Name /\ t # "none"
<1>1. Cardinality(ActiveNames(s)) = 1
  BY FS_Singleton
<1>2. (CHOOSE n \in ActiveNames(s) : TRUE) = t
  OBVIOUS
<1>3. t \in Name
  BY DEF ActiveNames
<1> QED
  BY <1>1, <1>2, <1>3, NoneIsNoName DEF CurrentOf

LEMMA TargetIsCurrent ==
    ASSUME NEW s, NEW t \in Name, \A m \in Name : s[m].active => m = t, CurrentOf(s) \in Name
    PROVE  ActiveNames(s) = {t} /\ CurrentOf(s) = t
<1>1. ActiveNames(s) # {}
  <2>1. SUFFICES ASSUME ActiveNames(s) = {} PROVE FALSE
    OBVIOUS
  <2>2. Cardinality(ActiveNames(s)) = 0
    BY <2>1, FS_EmptySet
  <2> QED
    BY <2>2, NoneIsNoName DEF CurrentOf
<1>2. ActiveNames(s) = {t}
  BY <1>1 DEF ActiveNames
<1> QED
  BY <1>2, CurrentIsTarget

(* snapshot_action, for the active snapshot t *)
LEMMA ActionOfTarget ==
    ASSUME NEW s, NEW t, ActiveNames(s) = {t}
    PROVE  /\ SnapshotAction(s) = "remove" <=> s[t].st = "ForRemoval"
           /\ SnapshotAction(s) = "create" <=> s[t].st = "Initial"
           /\ SnapshotAction(s) = "restore" <=>
                s[t].st = "Applied" /\ s[t].ts = "ok" /\ t = Upgrade
<1>1. CurrentOf(s) = t /\ t # "none"
  BY CurrentIsTarget
<1>2. SnapshotAction(s) =
        CASE t = "none" -> "error"
          [] t # "none" /\ s[t].st = "ForRemoval" -> "remove"
          [] t # "none" /\ s[t].st = "Initial" -> "create"
          [] t # "none" /\ s[t].st = "Applied" /\ s[t].ts = "ok" /\ t = Upgrade -> "restore"
          [] OTHER -> "error"
  BY <1>1 DEF SnapshotAction
<1>3. CASE s[t].st = "ForRemoval"
  BY <1>1, <1>2, <1>3
<1>4. CASE s[t].st = "Initial"
  BY <1>1, <1>2, <1>4
<1>5. CASE s[t].st = "Applied" /\ s[t].ts = "ok" /\ t = Upgrade
  BY <1>1, <1>2, <1>5
<1>6. CASE /\ s[t].st \notin {"ForRemoval", "Initial"}
           /\ ~(s[t].st = "Applied" /\ s[t].ts = "ok" /\ t = Upgrade)
  BY <1>1, <1>2, <1>6
<1> QED
  BY <1>3, <1>4, <1>5, <1>6

(* snapshot_status: only a snapshot with a timestamp exists. *)
LEMMA StatusExists ==
    ASSUME NEW s \in SnapType, NEW p, NEW n \in Name,
           SnapshotStatus(s, p, n) \in {"exists", "exists_previous_plan"}
    PROVE  s[n].ts = "ok"
<1> DEFINE exists == p.kind # "none"
           active == p.st \in {"running", "stopping"}
           related == exists /\ CurrentOf(s) = n
           isSnapshot == p.kind \in {"create", "remove", "restore"}
           refused == s[n].st # "absent" /\ ~active /\ related /\ isSnapshot
                        /\ p.failed /\ p.kind # "restore"
           of == CASE s[n].ts = "ok" ->
                        IF related /\ isSnapshot THEN "exists" ELSE "exists_previous_plan"
                  [] s[n].ts = "none" -> "not_started_yet"
                  [] s[n].ts = "failed" -> IF active THEN "in_progress" ELSE "failed"
<1>1. SnapshotStatus(s, p, n) = CASE s[n].st = "absent" -> "no_snapshot"
                                  [] refused -> "failed"
                                  [] OTHER -> of
  BY DEF SnapshotStatus
<1>2. s[n].ts \in {"none", "failed", "ok"}
  BY DEF SnapType, ItemType
<1>3. s[n].ts = "none" => of = "not_started_yet"
  OBVIOUS
<1>4. s[n].ts = "failed" => of \in {"in_progress", "failed"}
  OBVIOUS
<1> HIDE DEF of, refused
<1>5. CASE s[n].st = "absent"
  BY <1>1, <1>5
<1>6. CASE s[n].st # "absent" /\ refused
  BY <1>1, <1>6
<1>7. CASE s[n].st # "absent" /\ ~refused
  <2>1. of \in {"exists", "exists_previous_plan"}
    BY <1>1, <1>7
  <2> QED
    BY <1>2, <1>3, <1>4, <2>1
<1> QED
  BY <1>5, <1>6, <1>7

(* No change of state makes a timestamp unsound. *)
LEMMA SoundState ==
    ASSUME NEW i \in ItemType, NEW st \in {"Applied", "Removed", "ForRemoval"}, Sound(i)
    PROVE  Sound(SetState(i, st))
<1>1. SetState(i, st).st = st /\ SetState(i, st).ts = i.ts
  BY SetStateFields DEF ItemState
<1>2. i.st \in ItemState
  BY DEF ItemType
<1>3. CASE i.st = st
  BY <1>3 DEF SetState
<1>4. CASE i.st # st /\ st = "ForRemoval"
  <2>1. SetState(i, st).prev = i.st
    BY <1>4 DEF SetState, ItemType
  <2> QED
    BY <1>1, <1>2, <1>4, <2>1 DEF Sound, ItemState
<1>5. CASE st # "ForRemoval"
  BY <1>1, <1>5 DEF Sound
<1> QED
  BY <1>3, <1>4, <1>5

(* set_previous_state after the item was set ForRemoval *)
LEMMA PutBackFacts ==
    ASSUME NEW i \in ItemType, NEW j, j = SetState(i, "ForRemoval")
    PROVE  /\ i.st # "ForRemoval" => SetPreviousState(j).st = i.st
           /\ Sound(i) => Sound(SetPreviousState(j))
<1> DEFINE to == IF j.prev = "none" THEN "Initial" ELSE j.prev
<1>1. j \in ItemType /\ j.st = "ForRemoval" /\ j.ts = i.ts
  BY SetStateFields DEF ItemState
<1>2. to \in ItemState /\ to # "ForRemoval"
  BY <1>1 DEF ItemType, ItemState, PreviousState
<1>3. SetPreviousState(j) = SetState(j, to)
  BY DEF SetPreviousState
<1>4. i.st # "ForRemoval" => j.prev = i.st
  BY DEF SetState, ItemType
<1>5. i.st # "none"
  BY DEF ItemType, ItemState
<1>6. i.st # "ForRemoval" => to = i.st
  BY <1>4, <1>5
<1>7. Sound(i) => Sound(j)
  BY SoundState
<1>8. Sound(j) /\ j.ts = "ok" => to # "Initial"
  BY <1>1 DEF Sound
<1> HIDE DEF to
<1>9. SetState(j, to).st = to /\ SetState(j, to).ts = j.ts
  BY <1>1, <1>2, SetStateFields
<1>10. Sound(j) => Sound(SetState(j, to))
  BY <1>2, <1>8, <1>9 DEF Sound
<1> QED
  BY <1>3, <1>6, <1>7, <1>9, <1>10

LEMMA SoundSame ==
    ASSUME NEW i, NEW j, j.st = i.st, j.prev = i.prev, j.ts = i.ts, Sound(i)
    PROVE  Sound(j)
BY DEF Sound

(* reset_snapshot_active_attribute, then the attribute of n, without a running plan *)
LEMMA ResetExact ==
    ASSUME NEW s \in SnapType, plan.st # "running"
    PROVE  \A m \in Name : /\ ResetActive(s)[m].prev = s[m].prev
                           /\ ResetActive(s)[m].active = FALSE
<1> DEFINE r == [m \in Name |-> [s[m] EXCEPT !.active = FALSE]]
<1>1. \A m \in Name : s[m] \in ItemType
  BY DEF SnapType
<1>2. \A m \in Name : r[m].prev = s[m].prev /\ r[m].active = FALSE
  BY <1>1 DEF ItemType
<1>3. ResetActive(s) = r
  BY DEF ResetActive
<1> QED
  BY <1>2, <1>3

LEMMA ActivateExact ==
    ASSUME NEW s \in SnapType, plan.st # "running", NEW n \in Name, NEW b \in BOOLEAN
    PROVE  \A m \in Name :
             /\ [ResetActive(s) EXCEPT ![n].active = b][m].prev = s[m].prev
             /\ [ResetActive(s) EXCEPT ![n].active = b][m].active => m = n
<1> DEFINE r == ResetActive(s)
           t == [r EXCEPT ![n].active = b]
           i == [r[n] EXCEPT !.active = b]
<1>1. /\ r \in SnapType
      /\ \A m \in Name : r[m].prev = s[m].prev /\ r[m].active = FALSE
  BY ResetFacts, ResetExact
<1> HIDE DEF r
<1>2. r[n] \in ItemType
  BY <1>1 DEF SnapType
<1>3. i.prev = r[n].prev
  BY <1>2 DEF ItemType
<1>4. \A m \in Name : t[m] = IF m = n THEN i ELSE r[m]
  BY <1>1 DEF SnapType
<1> HIDE DEF i, t
<1>5. \A m \in Name : t[m].prev = s[m].prev /\ (t[m].active => m = n)
  BY <1>1, <1>3, <1>4
<1> QED
  BY <1>5 DEF t, r

(* A phase of a snapshot plan starts, when t is the active snapshot. *)
LEMMA StartExact ==
    ASSUME NEW s \in SnapType, NEW t, ActiveNames(s) = {t}, SnapshotPlan,
           NEW r, r = AtPhaseStart(s)
    PROVE  /\ \A m \in Name : m # t => r[m] = s[m]
           /\ r[t].st = s[t].st /\ r[t].prev = s[t].prev
           /\ plan.kind = "restore" \/ plan.done # 0 => r = s
           /\ plan.kind # "restore" /\ plan.done = 0 => r[t].ts = "failed"
<1>1. CurrentOf(s) = t /\ t # "none" /\ t \in Name
  BY CurrentIsTarget
<1>2. r = IF plan.done = 0 /\ plan.kind # "restore" THEN [s EXCEPT ![t].ts = "failed"] ELSE s
  BY <1>1 DEF AtPhaseStart
<1>3. s[t] \in ItemType
  BY <1>1 DEF SnapType
<1>4. CASE plan.done = 0 /\ plan.kind # "restore"
  <2> DEFINE i == [s[t] EXCEPT !.ts = "failed"]
  <2>1. i.st = s[t].st /\ i.prev = s[t].prev /\ i.ts = "failed"
    BY <1>3 DEF ItemType
  <2>2. \A m \in Name : r[m] = IF m = t THEN i ELSE s[m]
    BY <1>1, <1>2, <1>4 DEF SnapType
  <2> HIDE DEF i
  <2> QED
    BY <1>1, <1>4, <2>1, <2>2
<1>5. CASE ~(plan.done = 0 /\ plan.kind # "restore")
  BY <1>2, <1>5
<1> QED
  BY <1>4, <1>5

(* ... and ends *)
LEMMA EndExact ==
    ASSUME NEW s \in SnapType, NEW t, ActiveNames(s) = {t}, SnapshotPlan,
           NEW ok \in BOOLEAN, NEW r, r = AtPhaseEnd(s, ok)
    PROVE  /\ \A m \in Name : m # t => r[m] = s[m]
           /\ ~IsLast \/ (ok /\ s[t].st \in {"Removed", "ForRemoval"}) => r = s
           /\ IsLast /\ ~ok => IF plan.kind = "restore" THEN r = s
                               ELSE r[t].st = s[t].st /\ r[t].ts = "failed"
           /\ IsLast /\ ok /\ s[t].st \notin {"Removed", "ForRemoval"} =>
                r[t].st = "Applied" /\ r[t].ts = "ok"
<1> DEFINE f == [s EXCEPT ![t].ts = "failed"]
           a == [SetState(s[t], "Applied") EXCEPT !.ts = "ok"]
           g == [s EXCEPT ![t] = a]
<1>1. CurrentOf(s) = t /\ t # "none" /\ t \in Name
  BY CurrentIsTarget
<1>2. r = IF ~IsLast THEN s
          ELSE IF ~ok THEN (IF plan.kind = "restore" THEN s ELSE f)
          ELSE IF s[t].st \in {"Removed", "ForRemoval"} THEN s
          ELSE g
  BY <1>1 DEF AtPhaseEnd
<1>3. s[t] \in ItemType
  BY <1>1 DEF SnapType
<1>4. /\ \A m \in Name : m # t => f[m] = s[m]
      /\ f[t].st = s[t].st /\ f[t].ts = "failed"
  <2> DEFINE i == [s[t] EXCEPT !.ts = "failed"]
  <2>1. i.st = s[t].st /\ i.ts = "failed"
    BY <1>3 DEF ItemType
  <2>2. \A m \in Name : f[m] = IF m = t THEN i ELSE s[m]
    BY <1>1 DEF SnapType
  <2> HIDE DEF i, f
  <2> QED
    BY <1>1, <2>1, <2>2
<1>5. /\ \A m \in Name : m # t => g[m] = s[m]
      /\ g[t].st = "Applied" /\ g[t].ts = "ok"
  <2>1. SetState(s[t], "Applied") \in ItemType /\ SetState(s[t], "Applied").st = "Applied"
    BY <1>3, SetStateFields DEF ItemState
  <2>2. a.st = "Applied" /\ a.ts = "ok"
    BY <2>1 DEF ItemType
  <2> HIDE DEF a
  <2>3. \A m \in Name : g[m] = IF m = t THEN a ELSE s[m]
    BY <1>1 DEF SnapType
  <2> HIDE DEF g
  <2> QED
    BY <1>1, <2>2, <2>3
<1> HIDE DEF f, g
<1> QED
  BY <1>2, <1>4, <1>5

(* _clear_plan: items that stay keep their timestamp. *)
LEMMA ClearExact ==
    ASSUME NEW s \in SnapType, NEW successful, NEW r, r = ClearPlan(s, successful)
    PROVE  \A m \in Name : /\ s[m].st = "Removed" => r[m].st = "absent" /\ r[m].ts = "none"
                           /\ s[m].st # "Removed" => r[m].ts = s[m].ts
                           /\ Sound(s[m]) => Sound(r[m])
<1> DEFINE kept == [m \in Name |-> IF s[m].st = "Removed" THEN Absent ELSE s[m]]
           n == CurrentOf(kept)
           g == [kept EXCEPT ![n] = SetState(kept[n], "Applied")]
<1>1. r = IF successful /\ SnapshotPlan /\ n # "none" THEN g ELSE kept
  BY DEF ClearPlan
<1>2. /\ Absent \in ItemType /\ Absent.ts = "none" /\ Absent.st = "absent"
      /\ Absent.active = FALSE
  BY DEF Absent, ItemType, ItemState, PreviousState
<1>3. Sound(Absent)
  BY <1>2 DEF Sound
<1>4. /\ kept \in SnapType
      /\ \A m \in Name : kept[m] = IF s[m].st = "Removed" THEN Absent ELSE s[m]
  BY <1>2 DEF SnapType
<1> HIDE DEF kept
<1>5. n # "none" => n \in Name /\ kept[n].active
  <2>1. SUFFICES ASSUME n # "none" PROVE n \in ActiveNames(kept)
    BY DEF ActiveNames
  <2>2. Cardinality(ActiveNames(kept)) = 1
    BY <2>1 DEF CurrentOf
  <2>3. ActiveNames(kept) # {}
    BY <2>2, FS_EmptySet
  <2> QED
    BY <2>2, <2>3 DEF CurrentOf
<1> HIDE DEF n
<1>6. CASE r = kept
  BY <1>2, <1>3, <1>4, <1>6
<1>7. CASE r = g /\ n # "none"
  <2> DEFINE a == SetState(kept[n], "Applied")
  <2>1. n \in Name /\ kept[n].active /\ kept[n] \in ItemType
    BY <1>4, <1>5, <1>7 DEF SnapType
  <2>2. s[n].st # "Removed" /\ kept[n] = s[n]
    BY <1>2, <1>4, <2>1
  <2>3. a.ts = kept[n].ts /\ (Sound(kept[n]) => Sound(a))
    BY <2>1, SetStateFields, SoundState DEF ItemState
  <2> HIDE DEF a
  <2>4. \A m \in Name : r[m] = IF m = n THEN a ELSE kept[m]
    BY <1>4, <1>7, <2>1 DEF SnapType, a
  <2> HIDE DEF g
  <2> QED
    BY <1>2, <1>3, <1>4, <2>2, <2>3, <2>4
<1> QED
  BY <1>1, <1>6, <1>7

-----------------------------------------------------------------------------
(* The phases of a plan and the volumes *)

LEMMA WellBuiltKept ==
    ASSUME NEW p, NEW q, NEW V, WellBuilt(p, V), q.kind = p.kind, q.action = p.action,
           q.target = p.target, q.phases = p.phases
    PROVE  WellBuilt(q, V)
BY DEF WellBuilt

LEMMA ProgressKept ==
    ASSUME NEW p, NEW q, NEW d, NEW e, Progress(p, d), q.kind = p.kind,
           q.target = p.target, q.phases = p.phases, q.done = p.done,
           p.kind = "create" => d[p.target] \subseteq e[p.target],
           p.kind = "remove" => e[p.target] \subseteq d[p.target]
    PROVE  Progress(q, e)
BY DEF Progress

LEMMA ProgressMore ==
    ASSUME NEW p, NEW q, NEW d, NEW e, Progress(p, d), q.kind = p.kind,
           q.target = p.target, q.phases = p.phases, p.done \in Nat, q.done = p.done + 1,
           p.kind = "create" => d[p.target] \subseteq e[p.target],
           p.kind = "remove" => e[p.target] \subseteq d[p.target],
           NEW v, v = p.phases[p.done + 1].vol,
           v # 0 => /\ p.kind = "create" => v \in e[p.target]
                    /\ p.kind = "remove" => v \notin e[p.target]
    PROVE  Progress(q, e)
<1>1. ASSUME NEW i \in 1..q.done, q.phases[i].vol # 0
      PROVE  /\ q.kind = "create" => q.phases[i].vol \in e[q.target]
             /\ q.kind = "remove" => q.phases[i].vol \notin e[q.target]
  <2>1. i \in 1..p.done \/ i = p.done + 1
    OBVIOUS
  <2>2. CASE i \in 1..p.done
    BY <1>1, <2>2 DEF Progress
  <2>3. CASE i = p.done + 1
    BY <1>1, <2>3
  <2> QED
    BY <2>1, <2>2, <2>3
<1> QED
  BY <1>1 DEF Progress

(* A plan all of whose phases are done has done its work. *)
LEMMA AllDone ==
    ASSUME NEW p \in PlanType, NEW V, NEW d, WellBuilt(p, V), Progress(p, d),
           p.done = Len(p.phases), d[p.target] \subseteq V, 0 \notin V
    PROVE  /\ p.kind = "create" => d[p.target] = V
           /\ p.kind = "remove" => d[p.target] = {}
<1>1. DOMAIN p.phases = 1..p.done
  BY DEF PlanType
<1>2. ASSUME NEW v \in V
      PROVE  /\ p.kind = "create" => v \in d[p.target]
             /\ p.kind = "remove" => v \notin d[p.target]
  <2>1. PICK i \in DOMAIN p.phases : p.phases[i].vol = v
    BY DEF WellBuilt
  <2>2. i \in 1..p.done /\ v # 0
    BY <1>1, <2>1
  <2> QED
    BY <2>1, <2>2 DEF Progress
<1> QED
  BY <1>2

LEMMA VolumeFacts == 0 \notin Volume /\ (shape' = shape => Volume' = Volume)
BY DEF Volume

(* The callbacks of a phase touch the volumes of the plan's snapshot only. *)
LEMMA DiskFacts ==
    ASSUME SnapshotPlan, WellBuilt(plan, Volume), disk \in [Name -> SUBSET Volume],
           plan.done + 1 \in DOMAIN plan.phases,
           NEW ok \in BOOLEAN, NEW d \in DiskAfter(ok),
           NEW v, v = plan.phases[plan.done + 1].vol, NEW t, t = plan.target
    PROVE  /\ d \in [Name -> SUBSET Volume]
           /\ \A m \in Name : m # t => d[m] = disk[m]
           /\ plan.kind = "restore" => d = disk
           /\ plan.kind = "create" => disk[t] \subseteq d[t] /\ (ok /\ v # 0 => v \in d[t])
           /\ plan.kind = "remove" => d[t] \subseteq disk[t] /\ (ok /\ v # 0 => v \notin d[t])
<1> DEFINE w == {v} \ {0}
           acted == CASE plan.action = "create" -> [disk EXCEPT ![t] = @ \cup w]
                      [] plan.action = "remove" -> [disk EXCEPT ![t] = @ \ w]
                      [] OTHER -> disk
<1>1. d \in IF ok THEN {acted} ELSE {acted, disk}
  BY DEF DiskAfter, NextPhase
<1>2. /\ plan.action = plan.kind /\ t \in Name /\ v \in Volume \cup {0}
      /\ plan.kind \in {"create", "remove", "restore"}
  BY DEF WellBuilt, SnapshotPlan
<1>3. w \subseteq Volume /\ (v # 0 => v \in w)
  BY <1>2
<1> HIDE DEF w
<1>4. CASE plan.kind = "create"
  <2>1. acted = [disk EXCEPT ![t] = disk[t] \cup w]
    BY <1>2, <1>4
  <2> HIDE DEF acted
  <2>2. /\ acted \in [Name -> SUBSET Volume] /\ acted[t] = disk[t] \cup w
        /\ \A m \in Name : m # t => acted[m] = disk[m]
    BY <1>2, <1>3, <2>1
  <2> QED
    BY <1>1, <1>3, <1>4, <2>2
<1>5. CASE plan.kind = "remove"
  <2>1. acted = [disk EXCEPT ![t] = disk[t] \ w]
    BY <1>2, <1>5
  <2> HIDE DEF acted
  <2>2. /\ acted \in [Name -> SUBSET Volume] /\ acted[t] = disk[t] \ w
        /\ \A m \in Name : m # t => acted[m] = disk[m]
    BY <1>2, <1>3, <2>1
  <2> QED
    BY <1>1, <1>3, <1>5, <2>2
<1>6. CASE plan.kind = "restore"
  <2>1. acted = disk
    BY <1>2, <1>6
  <2> QED
    BY <1>1, <1>6, <2>1
<1> QED
  BY <1>2, <1>4, <1>5, <1>6

LEMMA DiskNone ==
    ASSUME plan.action = "none", NEW ok \in BOOLEAN, NEW d \in DiskAfter(ok)
    PROVE  d = disk
<1> DEFINE t == plan.target
           w == {NextPhase.vol} \ {0}
           acted == CASE plan.action = "create" -> [disk EXCEPT ![t] = @ \cup w]
                      [] plan.action = "remove" -> [disk EXCEPT ![t] = @ \ w]
                      [] OTHER -> disk
<1>1. d \in IF ok THEN {acted} ELSE {acted, disk}
  BY DEF DiskAfter
<1>2. acted = disk
  OBVIOUS
<1> QED
  BY <1>1, <1>2

-----------------------------------------------------------------------------
(* What a step that does not touch the volumes has to show *)

LEMMA StampStep ==
    ASSUME DoneInv, shape' = shape, disk' = disk,
           plan'.kind = plan.kind, plan'.action = plan.action, plan'.target = plan.target,
           plan'.phases = plan.phases, plan'.done = plan.done,
           OneMessage',
           \A n \in Name : Sound(snap'[n]) /\ (snap'[n].ts = "ok" => snap[n].ts = "ok"),
           SnapshotPlan => OnTarget' /\ Success'
    PROVE  StampInv'
<1>1. Volume' = Volume
  BY VolumeFacts
<1>2. StampApplied'
  BY DEF StampApplied
<1>3. StampComplete'
  BY <1>1 DEF DoneInv, StampInv, StampComplete
<1>4. PlanInv'
  <2>1. CASE SnapshotPlan
    <3>1. SnapshotPlan'
      BY <2>1 DEF SnapshotPlan
    <3>2. WellBuilt(plan, Volume) /\ Progress(plan, disk)
      BY <2>1 DEF DoneInv, StampInv, PlanInv
    <3>3. WellBuilt(plan', Volume)
      BY <3>2, WellBuiltKept
    <3>4. Progress(plan', disk)
      BY <3>2, ProgressKept
    <3>5. WellBuilt(plan', Volume') /\ Progress(plan', disk')
      BY <1>1, <3>3, <3>4
    <3> QED
      BY <2>1, <3>1, <3>5 DEF PlanInv
  <2>2. CASE ~SnapshotPlan
    <3>1. ~SnapshotPlan' /\ plan'.action = "none"
      BY <2>2 DEF SnapshotPlan, DoneInv, StampInv, PlanInv
    <3> QED
      BY <3>1 DEF PlanInv
  <2> QED
    BY <2>1, <2>2
<1> QED
  BY <1>2, <1>3, <1>4 DEF StampInv

(* ... when the snapshot plan goes *)
LEMMA GoneStep ==
    ASSUME DoneInv, shape' = shape, disk' = disk,
           plan'.kind \notin {"create", "remove", "restore"}, plan'.action = "none",
           OneMessage',
           \A n \in Name : Sound(snap'[n]) /\ (snap'[n].ts = "ok" => snap[n].ts = "ok")
    PROVE  StampInv'
<1>1. Volume' = Volume
  BY VolumeFacts
<1>2. StampApplied'
  BY DEF StampApplied
<1>3. StampComplete'
  BY <1>1 DEF DoneInv, StampInv, StampComplete
<1>4. PlanInv'
  BY DEF PlanInv, SnapshotPlan
<1> QED
  BY <1>2, <1>3, <1>4 DEF StampInv

(* A request finds no message, and so no snapshot plan that may still run. *)
LEMMA RequestFacts ==
    ASSUME Orderly, DoneInv, ~PlanActive, queue < MaxQueue
    PROVE  /\ queue = 0 /\ coord.st = "idle" /\ job = "none"
           /\ SnapshotPlan => plan.st # "initial"
<1>1. queue \in Nat /\ coord.st = "idle" /\ job = "none"
  BY IdleFacts DEF DoneInv, BackupInv, TypeOK
<1>2. queue = 0
  BY <1>1 DEF Orderly
<1>3. ASSUME SnapshotPlan, plan.st = "initial" PROVE FALSE
  BY <1>2, <1>3 DEF DoneInv, StampInv, PlanInv, OnTarget, Engaged
<1> QED
  BY <1>1, <1>2, <1>3

LEMMA SuccessKept ==
    ASSUME Success, plan'.st = "successful" => plan.st = "successful",
           plan'.kind = plan.kind, plan'.target = plan.target,
           plan'.phases = plan.phases, plan'.done = plan.done, plan.target \in Name,
           \A n \in Name : /\ snap[n].ts = "ok" => snap'[n].ts = "ok"
                           /\ snap[n].st \in {"absent", "Removed"} =>
                                  snap'[n].st \in {"absent", "Removed"},
           backups \subseteq backups'
    PROVE  Success'
BY DEF Success

LEMMA TargetIsName ==
    ASSUME DoneInv, SnapshotPlan
    PROVE  plan.target \in Name /\ Success /\ OnTarget /\ plan.action = plan.kind
BY DEF DoneInv, StampInv, PlanInv, WellBuilt

(* A request that leaves the plan alone *)
LEMMA RefusedKept ==
    ASSUME Orderly, DoneInv, ~PlanActive, queue < MaxQueue,
           UNCHANGED <<shape, coord, job, backups, disk, plan, queue>>,
           \A n \in Name : /\ Sound(snap'[n]) /\ snap'[n].ts = snap[n].ts
                           /\ snap[n].st \in {"absent", "Removed"} => snap'[n].st = snap[n].st
    PROVE  StampInv'
<1>1. /\ queue = 0 /\ coord.st = "idle" /\ job = "none"
      /\ SnapshotPlan => plan.st # "initial"
  BY RequestFacts
<1>2. OneMessage'
  BY <1>1 DEF OneMessage
<1>3. ASSUME SnapshotPlan PROVE OnTarget' /\ Success'
  <2>1. ~Engaged'
    BY <1>1, <1>3 DEF Engaged, PlanActive
  <2>2. Success'
    BY <1>3, TargetIsName, SuccessKept
  <2> QED
    BY <2>1, <2>2 DEF OnTarget
<1> QED
  BY <1>2, <1>3, StampStep

(* _create_plan_with_type for the snapshot n *)
LEMMA CreateKept ==
    ASSUME Orderly, DoneInv, RequestAllowed,
           NEW kind \in {"create", "remove", "restore"}, NEW n \in Name,
           kind = "restore" => n = Upgrade,
           NEW s \in SnapType, NEW undone \in SnapType,
           \A m \in Name : /\ Sound(s[m]) /\ Sound(undone[m])
                           /\ s[m].active => m = n
                           /\ s[m].ts = "ok" => snap[m].ts = "ok"
                           /\ undone[m].ts = snap[m].ts
                           /\ snap[m].st \in {"absent", "Removed"} => undone[m].st = snap[m].st,
           SnapshotAction(s) \in {"error", kind},
           CreateSnapshotPlan(kind, s, undone),
           UNCHANGED <<shape, coord, job, backups, disk>>
    PROVE  StampInv'
<1>1. ~PlanActive /\ queue < MaxQueue
  BY DEF RequestAllowed
<1>2. queue = 0 /\ coord.st = "idle" /\ job = "none"
  BY <1>1, RequestFacts
<1>3. CASE plan' = plan /\ snap' = undone /\ queue' = queue
  BY <1>1, <1>3, RefusedKept
<1>4. CASE plan' = NoPlan /\ snap' = undone /\ queue' = queue
  <2>1. plan'.kind = "none" /\ plan'.action = "none"
    BY <1>4 DEF NoPlan
  <2>2. OneMessage'
    BY <1>2, <1>4 DEF OneMessage
  <2> QED
    BY <1>4, <2>1, <2>2, GoneStep
<1>5. CASE /\ SnapshotAction(s) # "error" /\ plan' = SnapshotPlanFor(kind, s)
           /\ snap' = s /\ queue' = queue + 1
  <2>1. /\ CurrentOf(s) \in Name /\ SnapshotAction(s) = kind
    BY <1>5, ActionFacts
  <2>2. ActiveNames(s) = {n} /\ CurrentOf(s) = n
    BY <2>1, TargetIsCurrent
  <2>3. /\ kind = "remove" => s[n].st = "ForRemoval"
        /\ kind = "create" => s[n].st = "Initial"
        /\ kind = "restore" => s[n].st = "Applied" /\ s[n].ts = "ok"
    BY <2>1, <2>2, ActionOfTarget
  <2>4. PICK b : b = BuildPhases(kind, s)
    OBVIOUS
  <2>5. plan' = [kind |-> kind, st |-> "initial", action |-> kind, target |-> n,
                 phases |-> b, done |-> 0, failed |-> FALSE]
    BY <1>5, <2>1, <2>2, <2>4 DEF SnapshotPlanFor
  <2>6. /\ plan'.kind = kind /\ plan'.st = "initial" /\ plan'.action = kind
        /\ plan'.target = n /\ plan'.phases = b /\ plan'.done = 0
    BY <2>5
  <2>7. shape \in Shapes
    BY DEF DoneInv, BackupInv, TypeOK
  <2>8. b \in Seq(PhaseType) /\ Len(b) \in Nat /\ Len(b) > 0
    BY <2>4, <2>7, BuildFacts DEF CleanPhases
  <2>9. /\ \A v \in Volume : \E i \in DOMAIN b : b[i].vol = v
        /\ \A i \in DOMAIN b : b[i].vol \in Volume \cup {0}
        /\ kind = "remove" /\ CleanupOf(s) # {} =>
             \A i \in DOMAIN b :
                 IF i = Len(b) THEN b[i].clean = CleanupOf(s) ELSE b[i].clean = {}
    BY <2>4, <2>7, BuildVolumes
  <2>10. kind = "remove" => n \in CleanupOf(s)
    BY <2>3 DEF CleanupOf
  <2>11. WellBuilt(plan', Volume)
    BY <2>6, <2>9, <2>10 DEF WellBuilt
  <2>12. Progress(plan', disk')
    BY <2>6 DEF Progress
  <2>13. queue' = 1 /\ coord'.st = "idle" /\ job' = "none" /\ ~PlanActive'
    BY <1>2, <1>5, <2>6 DEF PlanActive
  <2>14. ItemAt(snap'[plan'.target], plan', job')
    BY <1>5, <2>3, <2>6, <2>8, <2>13 DEF ItemAt
  <2>15. ActiveNames(snap') = {plan'.target}
    BY <1>5, <2>2, <2>6
  <2>16. OnTarget' /\ Success'
    BY <2>6, <2>13, <2>14, <2>15 DEF OnTarget, Success
  <2>17. Volume' = Volume
    BY VolumeFacts
  <2>18. WellBuilt(plan', Volume')
    BY <2>11, <2>17
  <2>19. PlanInv'
    BY <2>6, <2>12, <2>16, <2>18 DEF PlanInv, SnapshotPlan
  <2>20. OneMessage'
    BY <2>13 DEF OneMessage
  <2>21. StampApplied'
    BY <1>5 DEF StampApplied
  <2>22. StampComplete'
    BY <1>5, <2>17 DEF DoneInv, StampInv, StampComplete
  <2> QED
    BY <2>19, <2>20, <2>21, <2>22 DEF StampInv
<1>6. "enqueue" \notin Faults
  BY DEF Orderly
<1> QED
  BY <1>3, <1>4, <1>5, <1>6 DEF CreateSnapshotPlan

LEMMA ItemsSound ==
    ASSUME DoneInv
    PROVE  snap \in SnapType /\ plan \in PlanType /\ \A m \in Name : Sound(snap[m])
BY DEF DoneInv, BackupInv, TypeOK, StampInv, StampApplied

LEMMA CreateSnapshotKept ==
    ASSUME Orderly, DoneInv, NEW n \in Name, CreateSnapshot(n)
    PROVE  StampInv'
<1> DEFINE reset == ResetActive(snap)
           fresh == [st |-> "Initial", prev |-> "none", ts |-> "none", active |-> TRUE]
           new == [reset EXCEPT ![n] = fresh]
<1>1. /\ RequestAllowed /\ ~PlanActive /\ queue < MaxQueue
      /\ UNCHANGED <<shape, coord, job, backups, disk>>
  BY DEF CreateSnapshot, RequestAllowed
<1>2. plan.st # "running"
  BY <1>1 DEF PlanActive
<1>3. /\ reset \in SnapType
      /\ \A m \in Name : /\ reset[m].st = snap[m].st /\ reset[m].ts = snap[m].ts
                         /\ reset[m].prev = snap[m].prev /\ reset[m].active = FALSE
  BY <1>2, ItemsSound, ResetFacts, ResetExact
<1>4. IF MayCreate(n) THEN CreateSnapshotPlan("create", new, reset)
      ELSE snap' = reset /\ UNCHANGED <<plan, queue>>
  BY DEF CreateSnapshot, WithNew
<1> HIDE DEF reset
<1>5. \A m \in Name : Sound(reset[m])
  BY <1>3, ItemsSound, SoundSame
<1>6. CASE MayCreate(n)
  <2>1. /\ fresh \in ItemType /\ fresh.ts = "none" /\ fresh.st = "Initial"
        /\ fresh.active = TRUE
    BY DEF ItemType, ItemState, PreviousState
  <2> HIDE DEF fresh
  <2>2. Sound(fresh)
    BY <2>1 DEF Sound
  <2>3. new \in SnapType /\ \A m \in Name : new[m] = IF m = n THEN fresh ELSE reset[m]
    BY <1>3, <2>1 DEF SnapType
  <2>4. CreateSnapshotPlan("create", new, reset)
    BY <1>4, <1>6
  <2> HIDE DEF new
  <2>5. \A m \in Name : /\ Sound(new[m]) /\ Sound(reset[m])
                        /\ new[m].active => m = n
                        /\ new[m].ts = "ok" => snap[m].ts = "ok"
                        /\ reset[m].ts = snap[m].ts
                        /\ snap[m].st \in {"absent", "Removed"} => reset[m].st = snap[m].st
    BY <1>3, <1>5, <2>1, <2>2, <2>3
  <2>6. SnapshotAction(new) \in {"error", "create"}
    <3>1. SUFFICES ASSUME SnapshotAction(new) # "error" PROVE SnapshotAction(new) = "create"
      OBVIOUS
    <3>2. ActiveNames(new) = {n}
      BY <2>5, <3>1, ActionFacts, TargetIsCurrent
    <3>3. new[n].st = "Initial"
      BY <2>1, <2>3
    <3> QED
      BY <3>2, <3>3, ActionOfTarget
  <2>7. "create" \in {"create", "remove", "restore"} /\ "create" # "restore"
    OBVIOUS
  <2> QED
    BY <1>1, <1>3, <2>3, <2>4, <2>5, <2>6, <2>7, CreateKept
<1>7. CASE ~MayCreate(n)
  BY <1>1, <1>3, <1>4, <1>5, <1>7, RefusedKept
<1> QED
  BY <1>6, <1>7

LEMMA DeleteSnapshotKept ==
    ASSUME Orderly, DoneInv, NEW n \in Name, DeleteSnapshot(n)
    PROVE  StampInv'
<1> DEFINE exists == snap[n].st # "absent"
           reset == [ResetActive(snap) EXCEPT ![n].active = exists]
           forRemoval == [reset EXCEPT ![n] = SetState(reset[n], "ForRemoval")]
           before == [forRemoval EXCEPT ![n] = SetPreviousState(forRemoval[n])]
           asked == MayRemove(reset, n)
<1>1. /\ RequestAllowed /\ ~PlanActive /\ queue < MaxQueue
      /\ UNCHANGED <<shape, coord, job, backups, disk>>
  BY DEF DeleteSnapshot, RequestAllowed
<1>2. plan.st # "running"
  BY <1>1 DEF PlanActive
<1>3. /\ reset \in SnapType
      /\ \A m \in Name : /\ reset[m].st = snap[m].st /\ reset[m].ts = snap[m].ts
                         /\ reset[m].prev = snap[m].prev
                         /\ reset[m].active => m = n
  <2>1. exists \in BOOLEAN /\ snap \in SnapType
    BY ItemsSound
  <2> HIDE DEF exists
  <2> QED
    BY <1>2, <2>1, ActivateFacts, ActivateExact
<1>4. IF asked THEN CreateSnapshotPlan("remove", forRemoval, before)
      ELSE snap' = reset /\ UNCHANGED <<plan, queue>>
  BY DEF DeleteSnapshot, Activated, ForRemoval, PutBack
<1> HIDE DEF reset, asked
<1>5. \A m \in Name : Sound(reset[m])
  BY <1>3, ItemsSound, SoundSame
<1>6. CASE asked
  <2> DEFINE i == SetState(reset[n], "ForRemoval")
             j == SetPreviousState(i)
  <2>1. reset[n] \in ItemType /\ Sound(reset[n])
    BY <1>3, <1>5 DEF SnapType
  <2>2. /\ i \in ItemType /\ i.st = "ForRemoval" /\ i.ts = reset[n].ts
        /\ i.active = reset[n].active /\ Sound(i)
    BY <2>1, SetStateFields, SoundState DEF ItemState
  <2>3. /\ j \in ItemType /\ j.ts = i.ts /\ Sound(j)
        /\ reset[n].st # "ForRemoval" => j.st = reset[n].st
    BY <2>1, <2>2, SetPreviousFields, PutBackFacts
  <2> HIDE DEF j
  <2>4. forRemoval = [reset EXCEPT ![n] = i]
    OBVIOUS
  <2> HIDE DEF i
  <2>5. forRemoval \in SnapType /\ \A m \in Name : forRemoval[m] = IF m = n THEN i ELSE reset[m]
    BY <1>3, <2>2, <2>4 DEF SnapType
  <2>6. before = [forRemoval EXCEPT ![n] = j]
    BY <2>5 DEF j
  <2>7. CreateSnapshotPlan("remove", forRemoval, before)
    BY <1>4, <1>6
  <2> HIDE DEF forRemoval
  <2>8. before \in SnapType /\ \A m \in Name : before[m] = IF m = n THEN j ELSE forRemoval[m]
    BY <2>3, <2>5, <2>6 DEF SnapType
  <2> HIDE DEF before
  <2>9. \A m \in Name : Sound(forRemoval[m]) /\ Sound(before[m])
    BY <1>5, <2>2, <2>3, <2>5, <2>8
  <2>10. \A m \in Name :
           /\ forRemoval[m].active => m = n
           /\ forRemoval[m].ts = "ok" => snap[m].ts = "ok"
           /\ before[m].ts = snap[m].ts
           /\ snap[m].st \in {"absent", "Removed"} => before[m].st = snap[m].st
    BY <1>3, <2>2, <2>3, <2>5, <2>8
  <2>11. SnapshotAction(forRemoval) \in {"error", "remove"}
    <3>1. SUFFICES ASSUME SnapshotAction(forRemoval) # "error"
                   PROVE  SnapshotAction(forRemoval) = "remove"
      OBVIOUS
    <3>2. ActiveNames(forRemoval) = {n}
      BY <2>10, <3>1, ActionFacts, TargetIsCurrent
    <3>3. forRemoval[n].st = "ForRemoval"
      BY <2>2, <2>5
    <3> QED
      BY <3>2, <3>3, ActionOfTarget
  <2>12. "remove" \in {"create", "remove", "restore"} /\ "remove" # "restore"
    OBVIOUS
  <2> QED
    BY <1>1, <2>5, <2>7, <2>8, <2>9, <2>10, <2>11, <2>12, CreateKept
<1>7. CASE ~asked
  BY <1>1, <1>3, <1>4, <1>5, <1>7, RefusedKept
<1> QED
  BY <1>6, <1>7

LEMMA RestoreSnapshotKept ==
    ASSUME Orderly, DoneInv, RestoreSnapshot
    PROVE  StampInv'
<1> DEFINE exists == snap[Upgrade].st # "absent"
           reset == [ResetActive(snap) EXCEPT ![Upgrade].active = exists]
<1>1. /\ RequestAllowed /\ ~PlanActive /\ queue < MaxQueue /\ Upgrade \in Name
      /\ UNCHANGED <<shape, coord, job, backups, disk>>
      /\ snap[Upgrade].st # "ForRemoval"
  BY DEF RestoreSnapshot, RequestAllowed, Name, Orderly
<1>2. plan.st # "running"
  BY <1>1 DEF PlanActive
<1>3. /\ reset \in SnapType
      /\ \A m \in Name : /\ reset[m].st = snap[m].st /\ reset[m].ts = snap[m].ts
                         /\ reset[m].prev = snap[m].prev
                         /\ reset[m].active => m = Upgrade
  <2>1. exists \in BOOLEAN /\ snap \in SnapType
    BY ItemsSound
  <2> HIDE DEF exists
  <2> QED
    BY <1>1, <1>2, <2>1, ActivateFacts, ActivateExact
<1>4. IF MayRestore(reset) THEN CreateSnapshotPlan("restore", reset, reset)
      ELSE snap' = reset /\ UNCHANGED <<plan, queue>>
  BY DEF RestoreSnapshot, Activated
<1> HIDE DEF reset
<1>5. \A m \in Name : Sound(reset[m])
  BY <1>3, ItemsSound, SoundSame
<1>6. CASE MayRestore(reset)
  <2>1. reset[Upgrade].ts = "ok"
    <3>1. SnapshotStatus(reset, plan, Upgrade) \in {"exists", "exists_previous_plan"}
      BY <1>6 DEF MayRestore
    <3> QED
      BY <1>1, <1>3, <3>1, StatusExists
  <2>2. reset[Upgrade].st \notin {"Initial", "ForRemoval"}
    BY <1>1, <1>3, <1>5, <2>1 DEF Sound
  <2>3. SnapshotAction(reset) \in {"error", "restore"}
    <3>1. SUFFICES ASSUME SnapshotAction(reset) # "error"
                   PROVE  SnapshotAction(reset) = "restore"
      OBVIOUS
    <3>2. ActiveNames(reset) = {Upgrade}
      BY <1>1, <1>3, <3>1, ActionFacts, TargetIsCurrent
    <3>3. SnapshotAction(reset) \notin {"create", "remove"}
      BY <2>2, <3>2, ActionOfTarget
    <3> QED
      BY <3>1, <3>3, ActionFacts
  <2>4. CreateSnapshotPlan("restore", reset, reset)
    BY <1>4, <1>6
  <2>5. "restore" \in {"create", "remove", "restore"}
    OBVIOUS
  <2> QED
    BY <1>1, <1>3, <1>5, <2>3, <2>4, <2>5, CreateKept
<1>7. CASE ~MayRestore(reset)
  BY <1>1, <1>3, <1>4, <1>5, <1>7, RefusedKept
<1> QED
  BY <1>6, <1>7

(* A deployment plan is asked for: a snapshot plan that waits for its message is in
   the way, and one that failed loses its snapshot. *)
LEMMA CreateDeploymentPlanKept ==
    ASSUME Orderly, DoneInv, CreateDeploymentPlan
    PROVE  StampInv'
<1> DEFINE reset == ResetActive(snap)
           p == [NoPlan EXCEPT !.kind = "deployment", !.st = "initial",
                               !.phases = <<Phase(0, {})>>]
<1>1. /\ snap' = reset /\ UNCHANGED <<shape, queue, coord, job, backups, disk>>
      /\ plan' = plan \/ plan' \in {NoPlan, p}
      /\ Served /\ plan.st # "stopping"
  BY DEF CreateDeploymentPlan, Orderly
<1>2. OneMessage'
  BY <1>1 DEF DoneInv, StampInv, OneMessage
<1>3. reset \in SnapType /\ \A m \in Name : reset[m].st = snap[m].st /\ reset[m].ts = snap[m].ts
  BY ItemsSound, ResetFacts
<1>4. plan.st = "running" => reset = snap
  BY DEF ResetActive
<1>5. plan.st # "running" =>
        \A m \in Name : reset[m].prev = snap[m].prev /\ reset[m].active = FALSE
  BY ItemsSound, ResetExact
<1> HIDE DEF reset
<1>6. \A m \in Name : Sound(reset[m])
  BY <1>3, <1>4, <1>5, ItemsSound, SoundSame
<1>7. CASE plan' = plan
  <2>1. ASSUME SnapshotPlan PROVE OnTarget' /\ Success'
    <3>1. Success'
      BY <1>1, <1>3, <1>7, <2>1, TargetIsName, SuccessKept
    <3>2. CASE plan.st = "running"
      <4>1. UNCHANGED <<snap, plan, queue, coord, job, backups>>
        BY <1>1, <1>4, <1>7, <3>2
      <4>2. OnTarget
        BY <2>1, TargetIsName
      <4>3. OnTarget'
        BY <4>1, <4>2 DEF OnTarget, Engaged, PlanActive, ActiveNames
      <4> QED
        BY <3>1, <4>3
    <3>3. CASE plan.st # "running"
      <4>1. plan.st # "initial"
        <5>1. SUFFICES ASSUME plan.st = "initial" PROVE FALSE
          OBVIOUS
        <5>2. queue = 1
          BY <2>1, <5>1, TargetIsName DEF OnTarget, Engaged
        <5> QED
          BY <1>1, <5>1, <5>2 DEF Served, Orderly
      <4>2. ActiveNames(reset) = {}
        BY <1>5, <3>3 DEF ActiveNames
      <4>3. ActiveNames(snap') = {}
        BY <1>1, <4>2
      <4>4. ~Engaged'
        BY <1>1, <1>7, <3>3, <4>1, <4>3 DEF Engaged, PlanActive
      <4> QED
        BY <3>1, <4>4 DEF OnTarget
    <3> QED
      BY <3>2, <3>3
  <2> QED
    BY <1>1, <1>2, <1>3, <1>6, <1>7, <2>1, StampStep
<1>8. CASE plan' \in {NoPlan, p}
  <2>1. plan'.kind \notin {"create", "remove", "restore"} /\ plan'.action = "none"
    <3>1. NoPlan.kind = "none" /\ NoPlan.action = "none"
      BY DEF NoPlan
    <3>2. p.kind = "deployment" /\ p.action = "none"
      BY DEF NoPlan
    <3> HIDE DEF p
    <3> QED
      BY <1>8, <3>1, <3>2
  <2> QED
    BY <1>1, <1>2, <1>3, <1>6, <2>1, GoneStep
<1> QED
  BY <1>1, <1>7, <1>8

(* A step that leaves the items alone, and the plan's phases *)
LEMMA OnTargetKept ==
    ASSUME OnTarget, Engaged' => Engaged, snap' = snap, backups \subseteq backups',
           plan'.kind = plan.kind, plan'.target = plan.target,
           plan'.phases = plan.phases, plan'.done = plan.done,
           job' = "running" => job = "running",
           plan'.st = "initial" => plan.st = "initial" /\ queue' = queue,
           PlanActive' => PlanActive,
           coord'.st # "idle" => coord.st # "idle" /\ coord'.action = coord.action
    PROVE  OnTarget'
<1>1. SUFFICES ASSUME Engaged'
               PROVE  /\ ActiveNames(snap') = {plan'.target}
                      /\ plan'.st = "initial" => queue' = 1
                      /\ ItemAt(snap'[plan'.target], plan', job')
                      /\ plan'.kind = "create" /\ PlanActive' => plan'.target \in backups'
                      /\ coord'.st # "idle" => coord'.action = plan'.kind
  BY DEF OnTarget
<1>2. /\ ActiveNames(snap) = {plan.target}
      /\ plan.st = "initial" => queue = 1
      /\ ItemAt(snap[plan.target], plan, job)
      /\ plan.kind = "create" /\ PlanActive => plan.target \in backups
      /\ coord.st # "idle" => coord.action = plan.kind
  BY <1>1 DEF OnTarget
<1>3. ItemAt(snap'[plan'.target], plan', job')
  BY <1>2 DEF ItemAt
<1>4. ActiveNames(snap') = {plan'.target}
  BY <1>2
<1>5. /\ plan'.st = "initial" => queue' = 1
      /\ plan'.kind = "create" /\ PlanActive' => plan'.target \in backups'
      /\ coord'.st # "idle" => coord'.action = plan'.kind
  BY <1>2
<1> QED
  BY <1>3, <1>4, <1>5

LEMMA EndOfMore ==
    ASSUME NEW p \in PlanType
    PROVE  /\ EndOf(p).action = p.action /\ EndOf(p).target = p.target
           /\ EndOf(p).st = "successful" => p.done = Len(p.phases)
<1> DEFINE e == IF p.done = Len(p.phases) THEN "successful"
                ELSE IF p.st = "running" THEN "failed" ELSE "stopped"
<1>1. e = "successful" => p.done = Len(p.phases)
  OBVIOUS
<1>2. EndOf(p) = [p EXCEPT !.st = e]
  BY DEF EndOf
<1> HIDE DEF e
<1> QED
  BY <1>1, <1>2 DEF PlanType

(* The requests that leave the items alone: a snapshot plan waits for its message only
   while that message is there. *)
LEMMA PlanRequestKept ==
    ASSUME Orderly, DoneInv, RunPlanRequest \/ DeletePlan \/ ModelChanged \/ StopPlan
    PROVE  StampInv'
<1>1. UNCHANGED <<shape, snap, coord, job, backups, disk>>
  BY DEF RunPlanRequest, DeletePlan, ModelChanged, StopPlan
<1>2. \A n \in Name : Sound(snap'[n]) /\ (snap'[n].ts = "ok" => snap[n].ts = "ok")
  BY <1>1, ItemsSound
<1>3. OneMessage /\ queue \in Nat
  BY DEF DoneInv, StampInv, BackupInv, TypeOK
<1>4. CASE RunPlanRequest
  <2>1. /\ plan' = plan /\ queue' = queue + 1 /\ ~PlanActive /\ queue < MaxQueue
        /\ plan.st = "initial" \/ ~SnapshotPlan
    BY <1>4 DEF RunPlanRequest, PlanActive
  <2>2. queue = 0 /\ coord.st = "idle" /\ ~SnapshotPlan
    BY <2>1, RequestFacts
  <2>3. OneMessage'
    BY <1>1, <2>1, <2>2 DEF OneMessage
  <2> QED
    BY <1>1, <1>2, <2>1, <2>2, <2>3, StampStep
<1>5. CASE DeletePlan
  <2>1. plan' = NoPlan /\ queue' = queue
    BY <1>5 DEF DeletePlan
  <2>2. plan'.kind = "none" /\ plan'.action = "none"
    BY <2>1 DEF NoPlan
  <2>3. OneMessage'
    BY <1>1, <1>3, <2>1 DEF OneMessage
  <2> QED
    BY <1>1, <1>2, <2>2, <2>3, GoneStep
<1>6. CASE ModelChanged \/ StopPlan
  <2>1. PICK st \in {"invalid", "stopping"} :
          /\ plan' = [plan EXCEPT !.st = st]
          /\ st = "stopping" => plan.st = "running"
    BY <1>6 DEF ModelChanged, StopPlan
  <2>2. queue' = queue /\ OneMessage'
    BY <1>1, <1>3, <1>6 DEF ModelChanged, StopPlan, OneMessage
  <2>3. /\ plan'.st = st /\ plan'.kind = plan.kind /\ plan'.action = plan.action
        /\ plan'.target = plan.target /\ plan'.phases = plan.phases /\ plan'.done = plan.done
    BY <2>1, ItemsSound DEF PlanType
  <2>4. ASSUME SnapshotPlan PROVE OnTarget' /\ Success'
    <3>1. (PlanActive' => PlanActive) /\ (Engaged' => Engaged)
      BY <2>1, <2>3 DEF PlanActive, Engaged
    <3>2. OnTarget
      BY <2>4, TargetIsName
    <3>3. OnTarget'
      BY <1>1, <2>1, <2>2, <2>3, <3>1, <3>2, OnTargetKept
    <3>4. Success'
      BY <2>1, <2>3 DEF Success
    <3> QED
      BY <3>3, <3>4
  <2> QED
    BY <1>1, <1>2, <2>2, <2>3, <2>4, StampStep
<1> QED
  BY <1>4, <1>5, <1>6

(* The coordinator hands a phase to a worker or takes its result. *)
LEMMA HandOverKept ==
    ASSUME Orderly, DoneInv, EnqueuePhase \/ CollectPhase
    PROVE  StampInv'
<1>1. /\ UNCHANGED <<shape, snap, plan, queue, backups, disk>>
      /\ coord.st = "phases" /\ job' # "running"
  BY DEF EnqueuePhase, CollectPhase
<1>2. coord'.action = coord.action
  <2>1. coord \in CoordType
    BY DEF DoneInv, BackupInv, TypeOK
  <2>2. CASE EnqueuePhase
    BY <2>2 DEF EnqueuePhase
  <2>3. CASE CollectPhase
    <3>1. PICK st : coord' = [coord EXCEPT !.st = st]
      BY <2>3 DEF CollectPhase
    <3> QED
      BY <2>1, <3>1 DEF CoordType
  <2> QED
    BY <2>2, <2>3
<1>3. OneMessage'
  BY <1>1 DEF DoneInv, StampInv, OneMessage
<1>4. \A n \in Name : Sound(snap'[n]) /\ (snap'[n].ts = "ok" => snap[n].ts = "ok")
  BY <1>1, ItemsSound
<1>5. ASSUME SnapshotPlan PROVE OnTarget' /\ Success'
  <2>1. OnTarget /\ Success
    BY <1>5, TargetIsName
  <2>2. (Engaged' => Engaged) /\ (PlanActive' => PlanActive)
    BY <1>1 DEF Engaged, PlanActive, ActiveNames
  <2>3. OnTarget'
    BY <1>1, <1>2, <2>1, <2>2, OnTargetKept
  <2>4. Success'
    BY <1>1, <2>1 DEF Success
  <2> QED
    BY <2>3, <2>4
<1> QED
  BY <1>1, <1>3, <1>4, <1>5, StampStep

(* _fix_plan ends a plan as its phases stand. *)
LEMMA FixPlanKept ==
    ASSUME Orderly, DoneInv, FixPlan
    PROVE  StampInv'
<1>1. /\ plan' = EndOf(plan) /\ PlanActive /\ coord.st = "idle"
      /\ UNCHANGED <<shape, snap, queue, coord, job, backups, disk>>
  BY DEF FixPlan
<1>2. /\ plan'.kind = plan.kind /\ plan'.phases = plan.phases /\ plan'.done = plan.done
      /\ plan'.action = plan.action /\ plan'.target = plan.target
      /\ plan'.st \in {"successful", "failed", "stopped"}
      /\ plan'.st = "successful" => plan.done = Len(plan.phases)
  BY <1>1, ItemsSound, EndOfFields, EndOfMore
<1>3. OneMessage'
  BY <1>1 DEF DoneInv, StampInv, OneMessage
<1>4. \A n \in Name : Sound(snap'[n]) /\ (snap'[n].ts = "ok" => snap[n].ts = "ok")
  BY <1>1, ItemsSound
<1>5. ASSUME SnapshotPlan PROVE OnTarget' /\ Success'
  <2>1. OnTarget /\ Engaged /\ ~PlanActive' /\ plan'.st # "initial"
    BY <1>1, <1>2, <1>5, TargetIsName DEF Engaged, PlanActive
  <2>2. OnTarget'
    BY <1>1, <1>2, <2>1, OnTargetKept
  <2>3. /\ ItemAt(snap[plan.target], plan, job)
        /\ plan.kind = "create" => plan.target \in backups
    BY <1>1, <2>1 DEF OnTarget
  <2>4. Success'
    BY <1>1, <1>2, <2>3 DEF Success, ItemAt
  <2> QED
    BY <2>2, <2>4
<1> QED
  BY <1>1, <1>2, <1>3, <1>4, <1>5, StampStep

(* What a plan that ends well leaves, once _clear_plan has gone over the items *)
LEMMA ClearedSuccess ==
    ASSUME DoneInv, SnapshotPlan, PlanActive, NEW successful, snap' = ClearPlan(snap, successful),
           plan'.kind = plan.kind, plan'.phases = plan.phases, plan'.done = plan.done,
           plan'.target = plan.target,
           plan'.st = "successful" => plan.done = Len(plan.phases),
           plan.kind = "create" => backups' = backups
    PROVE  Success'
<1>1. plan.target \in Name /\ OnTarget /\ Engaged
  BY TargetIsName DEF Engaged
<1>2. /\ ItemAt(snap[plan.target], plan, job)
      /\ plan.kind = "create" => plan.target \in backups
  BY <1>1 DEF OnTarget
<1>3. /\ snap[plan.target].st = "Removed" => snap'[plan.target].st = "absent"
      /\ snap[plan.target].st # "Removed" => snap'[plan.target].ts = snap[plan.target].ts
  BY <1>1, ItemsSound, ClearExact
<1> QED
  BY <1>2, <1>3 DEF Success, ItemAt

(* The end of run_plan *)
LEMMA CompletePlanKept ==
    ASSUME Orderly, DoneInv, CompletePlan
    PROVE  StampInv'
<1>1. PICK successful \in BOOLEAN :
        /\ snap' = ClearPlan(snap, successful)
        /\ backups' = IF successful /\ coord.action = "remove"
                      THEN backups \ {coord.name} ELSE backups
  BY DEF CompletePlan
<1>2. /\ plan' = EndOf(plan) /\ coord.st # "idle" /\ coord' = IdleCoord
      /\ UNCHANGED <<shape, queue, job, disk>>
  BY DEF CompletePlan
<1>3. PlanActive /\ queue = 0
  BY <1>2 DEF DoneInv, BackupInv, Owned, StampInv, OneMessage
<1>4. /\ plan'.kind = plan.kind /\ plan'.phases = plan.phases /\ plan'.done = plan.done
      /\ plan'.action = plan.action /\ plan'.target = plan.target
      /\ plan'.st \in {"successful", "failed", "stopped"}
      /\ plan'.st = "successful" => plan.done = Len(plan.phases)
  BY <1>2, ItemsSound, EndOfFields, EndOfMore
<1>5. OneMessage'
  BY <1>2, <1>3, IdleCoordType DEF OneMessage
<1>6. \A n \in Name : Sound(snap'[n]) /\ (snap'[n].ts = "ok" => snap[n].ts = "ok")
  BY <1>1, ItemsSound, ClearExact
<1>7. ASSUME SnapshotPlan PROVE OnTarget' /\ Success'
  <2>1. ~Engaged'
    BY <1>2, <1>3, <1>4 DEF Engaged, PlanActive
  <2>2. coord.action = plan.kind
    BY <1>2, <1>3, <1>7, TargetIsName DEF OnTarget, Engaged
  <2>3. plan.kind = "create" => backups' = backups
    BY <1>1, <2>2
  <2>4. Success'
    BY <1>1, <1>3, <1>4, <1>7, <2>3, ClearedSuccess
  <2> QED
    BY <2>1, <2>4 DEF OnTarget
<1> QED
  BY <1>2, <1>4, <1>5, <1>6, <1>7, StampStep

(* run_plan takes a message. *)
LEMMA RunPlanKept ==
    ASSUME Orderly, DoneInv, RunPlan
    PROVE  StampInv'
<1>1. /\ queue' = queue - 1 /\ queue > 0 /\ coord.st = "idle"
      /\ UNCHANGED <<shape, disk>>
  BY DEF RunPlan
<1>2. queue = 1 /\ queue' = 0
  BY <1>1 DEF DoneInv, StampInv, OneMessage, BackupInv, TypeOK
<1>3. job = "none"
  BY <1>1 DEF DoneInv, BackupInv, Owned
<1>4. OneMessage'
  BY <1>2 DEF OneMessage
<1>5. CASE PlanActive
  <2> DEFINE failed == plan.failed \/ job = "running"
             p == [plan EXCEPT !.failed = failed]
  <2>1. plan' = EndOf(p) /\ snap' = ClearPlan(snap, FALSE) /\ UNCHANGED <<coord, backups>>
    BY <1>5 DEF RunPlan
  <2>2. failed \in BOOLEAN
    OBVIOUS
  <2> HIDE DEF failed
  <2>3. /\ p \in PlanType /\ p.kind = plan.kind /\ p.phases = plan.phases
        /\ p.done = plan.done /\ p.action = plan.action /\ p.target = plan.target
    BY <2>2, ItemsSound DEF PlanType
  <2> HIDE DEF p
  <2>4. /\ plan'.kind = plan.kind /\ plan'.phases = plan.phases /\ plan'.done = plan.done
        /\ plan'.action = plan.action /\ plan'.target = plan.target
        /\ plan'.st \in {"successful", "failed", "stopped"}
        /\ plan'.st = "successful" => plan.done = Len(plan.phases)
    BY <2>1, <2>3, EndOfFields, EndOfMore
  <2>5. \A n \in Name : Sound(snap'[n]) /\ (snap'[n].ts = "ok" => snap[n].ts = "ok")
    BY <2>1, ItemsSound, ClearExact
  <2>6. ASSUME SnapshotPlan PROVE OnTarget' /\ Success'
    <3>1. ~Engaged'
      BY <1>2, <2>4 DEF Engaged, PlanActive
    <3>2. Success'
      BY <1>5, <2>1, <2>4, <2>6, ClearedSuccess
    <3> QED
      BY <3>1, <3>2 DEF OnTarget
  <2> QED
    BY <1>1, <1>4, <2>4, <2>5, <2>6, StampStep
<1>6. ASSUME SnapshotPlan, Engaged
      PROVE  /\ ActiveNames(snap) = {plan.target} /\ CurrentOf(snap) = plan.target
             /\ plan.done < Len(plan.phases) => SnapshotAction(snap) = plan.kind
  <2>1. /\ ActiveNames(snap) = {plan.target} /\ ItemAt(snap[plan.target], plan, job)
        /\ plan.kind = "restore" => plan.target = Upgrade
        /\ plan.kind \in {"create", "remove", "restore"}
    BY <1>6 DEF DoneInv, StampInv, PlanInv, WellBuilt, OnTarget, SnapshotPlan
  <2>2. CurrentOf(snap) = plan.target
    BY <2>1, CurrentIsTarget
  <2>3. ASSUME plan.done < Len(plan.phases) PROVE SnapshotAction(snap) = plan.kind
    <3>1. plan.done # Len(plan.phases)
      BY <2>3, ItemsSound DEF PlanType
    <3>2. /\ plan.kind = "create" => snap[plan.target].st = "Initial"
          /\ plan.kind = "remove" => snap[plan.target].st = "ForRemoval"
          /\ plan.kind = "restore" =>
               snap[plan.target].st = "Applied" /\ snap[plan.target].ts = "ok"
      BY <2>1, <3>1 DEF ItemAt
    <3> QED
      BY <2>1, <3>2, ActionOfTarget
  <2> QED
    BY <2>1, <2>2, <2>3
<1>7. plan.st \in {"initial", "failed"} => plan.done < Len(plan.phases)
  BY DEF DoneInv, BackupInv, Unfinished
<1>8. CASE ~PlanActive /\ (~PlanExists \/ (SnapshotPlan /\ SnapshotAction(snap) = "error"))
  <2>1. UNCHANGED <<plan, snap, job, coord, backups>>
    BY <1>8 DEF RunPlan
  <2>2. \A n \in Name : Sound(snap'[n]) /\ (snap'[n].ts = "ok" => snap[n].ts = "ok")
    BY <2>1, ItemsSound
  <2>3. ASSUME SnapshotPlan PROVE OnTarget' /\ Success'
    <3>1. SnapshotAction(snap) = "error" /\ plan.kind # "error"
      BY <1>8, <2>3 DEF PlanExists, SnapshotPlan
    <3>2. plan.st # "initial"
      BY <1>6, <1>7, <2>3, <3>1 DEF Engaged
    <3>3. ~Engaged'
      BY <1>2, <1>8, <2>1, <3>2 DEF Engaged, PlanActive
    <3>4. Success'
      BY <2>1, <2>3, TargetIsName DEF Success
    <3> QED
      BY <3>3, <3>4 DEF OnTarget
  <2> QED
    BY <1>1, <1>4, <2>1, <2>2, <2>3, StampStep
<1>9. CASE ~PlanActive /\ ~(~PlanExists \/ (SnapshotPlan /\ SnapshotAction(snap) = "error"))
  <2>1. PICK action : action = IF SnapshotPlan THEN SnapshotAction(snap) ELSE "none"
    OBVIOUS
  <2>2. PICK name : name = CurrentOf(snap)
    OBVIOUS
  <2>3. /\ backups' = IF action = "create" THEN backups \cup {name} ELSE backups
        /\ plan' = IF plan.st \in {"initial", "failed"}
                   THEN [plan EXCEPT !.st = "running", !.failed = FALSE] ELSE plan
        /\ coord' = IF plan.st \in {"initial", "failed"}
                    THEN [st |-> "phases", action |-> action, name |-> name] ELSE coord
        /\ UNCHANGED <<snap, job>>
    BY <1>9, <2>1, <2>2 DEF RunPlan
  <2>4. \A n \in Name : Sound(snap'[n]) /\ (snap'[n].ts = "ok" => snap[n].ts = "ok")
    BY <2>3, ItemsSound
  <2>5. CASE plan.st \in {"initial", "failed"}
    <3>1. /\ plan' = [plan EXCEPT !.st = "running", !.failed = FALSE]
          /\ coord' = [st |-> "phases", action |-> action, name |-> name]
      BY <2>3, <2>5
    <3>2. /\ plan'.kind = plan.kind /\ plan'.phases = plan.phases /\ plan'.done = plan.done
          /\ plan'.action = plan.action /\ plan'.target = plan.target /\ plan'.st = "running"
      BY <3>1, ItemsSound DEF PlanType
    <3>3. ASSUME SnapshotPlan PROVE OnTarget' /\ Success'
      <4>1. SnapshotAction(snap) # "error" /\ action = SnapshotAction(snap)
        BY <1>9, <2>1, <3>3
      <4>2. ActiveNames(snap) # {}
        <5>1. SUFFICES ASSUME ActiveNames(snap) = {} PROVE FALSE
          OBVIOUS
        <5>2. CurrentOf(snap) = "none"
          BY <5>1, FS_EmptySet DEF CurrentOf
        <5> QED
          BY <4>1, <5>2, ActionFacts, NoneIsNoName
      <4>3. Engaged
        BY <1>2, <2>5, <4>2 DEF Engaged
      <4>4. /\ ActiveNames(snap) = {plan.target} /\ name = plan.target
            /\ action = plan.kind
        BY <1>6, <1>7, <2>2, <2>5, <3>3, <4>1, <4>3
      <4>5. ItemAt(snap[plan.target], plan, job)
        BY <3>3, <4>3, TargetIsName DEF OnTarget
      <4>6. ItemAt(snap'[plan'.target], plan', job')
        BY <2>3, <3>2, <4>5 DEF ItemAt
      <4>7. ActiveNames(snap') = {plan'.target}
        BY <2>3, <3>2, <4>4
      <4>8. plan'.kind = "create" => plan'.target \in backups'
        BY <2>3, <3>2, <4>4
      <4>9. coord'.action = plan'.kind
        BY <3>1, <3>2, <4>4
      <4> QED
        BY <3>2, <4>6, <4>7, <4>8, <4>9 DEF OnTarget, Success
    <3> QED
      BY <1>1, <1>4, <2>4, <3>2, <3>3, StampStep
  <2>6. CASE plan.st \notin {"initial", "failed"}
    <3>1. plan' = plan /\ coord' = coord /\ backups \subseteq backups'
      BY <2>3, <2>6
    <3>2. ASSUME SnapshotPlan PROVE OnTarget' /\ Success'
      <4>1. ~Engaged'
        BY <1>9, <2>6, <3>1 DEF Engaged, PlanActive
      <4>2. Success'
        BY <2>3, <3>1, <3>2, TargetIsName, SuccessKept
      <4> QED
        BY <4>1, <4>2 DEF OnTarget
    <3> QED
      BY <1>1, <1>4, <2>4, <3>1, <3>2, StampStep
  <2> QED
    BY <2>5, <2>6
<1> QED
  BY <1>5, <1>8, <1>9

-----------------------------------------------------------------------------
(* The phases *)

(* Where the plan and the item are while a phase is run *)
LEMMA AtWork ==
    ASSUME DoneInv, SnapshotPlan, coord.st = "phases", job \in {"none", "queued", "running"},
           NEW t, t = plan.target
    PROVE  /\ PlanActive /\ Engaged /\ t \in Name /\ ActiveNames(snap) = {t}
           /\ CurrentOf(snap) = t /\ t # "none"
           /\ plan.done \in Nat /\ Len(plan.phases) \in Nat
           /\ plan.done < Len(plan.phases) /\ plan.done + 1 \in DOMAIN plan.phases
           /\ plan.kind = "create" => t \in backups /\ snap[t].st = "Initial"
           /\ plan.kind = "remove" => snap[t].st = "ForRemoval"
           /\ plan.kind # "restore" =>
                (plan.done > 0 \/ job = "running" => snap[t].ts = "failed")
           /\ plan.kind = "restore" => snap[t].st = "Applied" /\ snap[t].ts = "ok"
           /\ coord.action = plan.kind /\ plan.kind \in {"create", "remove", "restore"}
           /\ WellBuilt(plan, Volume) /\ Progress(plan, disk)
<1>1. PlanActive /\ Engaged
  BY DEF DoneInv, BackupInv, Owned, Engaged
<1>2. /\ plan.done \in Nat /\ Len(plan.phases) \in Nat
      /\ DOMAIN plan.phases = 1..Len(plan.phases)
  BY ItemsSound DEF PlanType
<1>3. plan.done < Len(plan.phases)
  BY DEF DoneInv, BackupInv, Unfinished
<1>4. plan.done # Len(plan.phases) /\ plan.done + 1 \in DOMAIN plan.phases
  BY <1>2, <1>3
<1>5. t \in Name /\ OnTarget /\ WellBuilt(plan, Volume) /\ Progress(plan, disk)
  BY DEF DoneInv, StampInv, PlanInv, WellBuilt
<1>6. /\ ActiveNames(snap) = {t} /\ ItemAt(snap[t], plan, job)
      /\ plan.kind = "create" => t \in backups
      /\ coord.action = plan.kind
  BY <1>1, <1>5 DEF OnTarget
<1>7. CurrentOf(snap) = t /\ t # "none"
  BY <1>6, CurrentIsTarget
<1>8. plan.kind \in {"create", "remove", "restore"}
  BY DEF SnapshotPlan
<1>9. /\ plan.kind = "create" => snap[t].st = "Initial"
      /\ plan.kind = "remove" => snap[t].st = "ForRemoval"
      /\ plan.kind # "restore" =>
           (plan.done > 0 \/ job = "running" => snap[t].ts = "failed")
      /\ plan.kind = "restore" => snap[t].st = "Applied" /\ snap[t].ts = "ok"
  BY <1>4, <1>6, <1>8 DEF ItemAt
<1> QED
  BY <1>1, <1>2, <1>3, <1>4, <1>5, <1>6, <1>7, <1>8, <1>9

(* What a step of a phase has to show *)
LEMMA WorkKept ==
    ASSUME DoneInv, SnapshotPlan, WellBuilt(plan, Volume), PlanActive, Engaged, shape' = shape,
           NEW t \in Name, t = plan.target, ActiveNames(snap) = {t},
           plan'.kind = plan.kind, plan'.action = plan.action, plan'.target = t,
           plan'.phases = plan.phases, plan'.st = plan.st,
           disk' \in [Name -> SUBSET Volume], Progress(plan', disk'),
           OneMessage',
           \A n \in Name : /\ Sound(snap'[n]) /\ snap'[n].active = snap[n].active
                           /\ snap'[n].ts = "ok" => disk'[n] = Volume,
           ItemAt(snap'[t], plan', job'),
           backups' = backups, coord'.st # "idle" => coord'.action = plan.kind
    PROVE  StampInv'
<1>1. Volume' = Volume
  BY VolumeFacts
<1>2. StampApplied'
  BY DEF StampApplied
<1>3. StampComplete'
  BY <1>1 DEF StampComplete
<1>4. WellBuilt(plan', Volume)
  BY WellBuiltKept
<1>5. WellBuilt(plan', Volume') /\ SnapshotPlan'
  BY <1>1, <1>4 DEF SnapshotPlan
<1>6. ActiveNames(snap') = {t}
  BY DEF ActiveNames
<1>7. plan'.kind = "create" => t \in backups'
  BY TargetIsName DEF OnTarget
<1>8. plan'.st \in {"running", "stopping"}
  BY DEF PlanActive
<1>9. OnTarget' /\ Success'
  BY <1>6, <1>7, <1>8 DEF OnTarget, Success
<1>10. PlanInv'
  BY <1>5, <1>9 DEF PlanInv
<1> QED
  BY <1>2, <1>3, <1>10 DEF StampInv

LEMMA OtherPlan ==
    ASSUME DoneInv, ~SnapshotPlan
    PROVE  plan.action = "none" /\ plan.kind \notin {"create", "remove", "restore"}
BY DEF DoneInv, StampInv, PlanInv, SnapshotPlan

LEMMA StampedDisk ==
    ASSUME DoneInv
    PROVE  /\ disk \in [Name -> SUBSET Volume]
           /\ \A n \in Name : snap[n].ts = "ok" => disk[n] = Volume
BY DEF DoneInv, StampInv, StampComplete

(* A phase job starts: the timestamp goes before the volumes are touched. *)
LEMMA StartPhaseKept ==
    ASSUME Orderly, DoneInv, StartPhase
    PROVE  StampInv'
<1>1. /\ job = "queued" /\ UNCHANGED <<shape, plan, queue, coord, backups, disk>>
      /\ \/ job' = "error" /\ snap' = snap
         \/ job' = "running" /\ snap' = AtPhaseStart(snap)
  BY DEF StartPhase
<1>2. coord.st = "phases"
  BY <1>1 DEF DoneInv, BackupInv, Owned
<1>3. OneMessage'
  BY <1>1 DEF DoneInv, StampInv, OneMessage
<1>4. CASE ~SnapshotPlan
  <2>1. snap' = snap
    BY <1>1, <1>4 DEF AtPhaseStart
  <2> QED
    BY <1>1, <1>3, <1>4, <2>1, ItemsSound, StampStep
<1>5. CASE SnapshotPlan
  <2>1. PICK t : t = plan.target
    OBVIOUS
  <2>2. /\ PlanActive /\ Engaged /\ t \in Name /\ ActiveNames(snap) = {t}
        /\ plan.done \in Nat /\ plan.done < Len(plan.phases) /\ Len(plan.phases) \in Nat
        /\ plan.kind = "create" => snap[t].st = "Initial"
        /\ plan.kind = "remove" => snap[t].st = "ForRemoval"
        /\ plan.kind # "restore" => (plan.done > 0 => snap[t].ts = "failed")
        /\ plan.kind = "restore" => snap[t].st = "Applied" /\ snap[t].ts = "ok"
        /\ coord.action = plan.kind
        /\ WellBuilt(plan, Volume) /\ Progress(plan, disk)
    BY <1>1, <1>2, <1>5, <2>1, AtWork
  <2>3. /\ \A m \in Name : m # t => snap'[m] = snap[m]
        /\ snap'[t].st = snap[t].st /\ snap'[t].prev = snap[t].prev
        /\ job' = "running" /\ plan.kind # "restore" /\ plan.done = 0 => snap'[t].ts = "failed"
        /\ snap'[t] = snap[t] \/ snap'[t].ts = "failed"
        /\ plan.kind = "restore" \/ plan.done # 0 => snap' = snap
    <3>1. CASE job' = "running" /\ snap' = AtPhaseStart(snap)
      <4>1. /\ \A m \in Name : m # t => snap'[m] = snap[m]
            /\ snap'[t].st = snap[t].st /\ snap'[t].prev = snap[t].prev
            /\ plan.kind = "restore" \/ plan.done # 0 => snap' = snap
            /\ plan.kind # "restore" /\ plan.done = 0 => snap'[t].ts = "failed"
        BY <1>5, <2>2, <3>1, ItemsSound, StartExact
      <4> QED
        BY <4>1
    <3>2. CASE job' = "error" /\ snap' = snap
      BY <3>2
    <3> QED
      BY <1>1, <3>1, <3>2
  <2>4. \A n \in Name : snap'[n].active = snap[n].active
    BY <1>1, ItemsSound, StartFacts
  <2>5. \A n \in Name : Sound(snap'[n])
    <3>1. snap'[t].ts = "failed" => Sound(snap'[t])
      BY DEF Sound
    <3> QED
      BY <2>3, <3>1, ItemsSound
  <2>6. \A n \in Name : snap'[n].ts = "ok" => disk'[n] = Volume
    BY <1>1, <2>3, StampedDisk
  <2>7. ItemAt(snap'[t], plan', job')
    <3>1. plan.done # Len(plan.phases) /\ plan' = plan
      BY <1>1, <2>2
    <3>2. plan.kind # "restore" => (plan.done > 0 \/ job' = "running" => snap'[t].ts = "failed")
      BY <2>2, <2>3
    <3>3. plan.kind = "restore" => snap'[t].st = "Applied" /\ snap'[t].ts = "ok"
      BY <2>2, <2>3
    <3> QED
      BY <2>2, <2>3, <3>1, <3>2, <3>3 DEF ItemAt
  <2>8. disk' \in [Name -> SUBSET Volume] /\ Progress(plan', disk')
    BY <1>1, <2>2, StampedDisk
  <2> QED
    BY <1>1, <1>3, <1>5, <2>1, <2>2, <2>4, <2>5, <2>6, <2>7, <2>8, WorkKept
<1> QED
  BY <1>4, <1>5

(* A worker or the celery service dies, with the phase half done *)
LEMMA DiesKept ==
    ASSUME Orderly, DoneInv, WorkerDies \/ Crash
    PROVE  StampInv'
<1>1. /\ UNCHANGED <<shape, snap, backups>> /\ coord.st # "idle"
      /\ job' # "running"
      /\ coord' = IdleCoord \/ coord' = coord
  BY DEF WorkerDies, Crash, DoneInv, BackupInv, Owned
<1>2. /\ job = "running" => disk' \in DiskAfter(FALSE)
      /\ job # "running" => disk' = disk
  BY DEF WorkerDies, Crash
<1>3. OneMessage'
  <2>1. CASE WorkerDies
    BY <2>1 DEF WorkerDies, DoneInv, StampInv, OneMessage
  <2>2. CASE Crash
    <3>1. queue' <= MaxQueue /\ coord' = IdleCoord
      BY <2>2 DEF Crash
    <3> QED
      BY <3>1, IdleCoordType DEF OneMessage, Orderly
  <2> QED
    BY <2>1, <2>2
<1>4. PICK f \in BOOLEAN : plan' = [plan EXCEPT !.failed = f]
  <2>1. CASE WorkerDies
    BY <2>1 DEF WorkerDies
  <2>2. CASE Crash
    <3>1. plan' = [plan EXCEPT !.failed = plan.failed \/ job = "running"]
      BY <2>2 DEF Crash
    <3>2. (plan.failed \/ job = "running") \in BOOLEAN
      OBVIOUS
    <3> QED
      BY <3>1, <3>2
  <2> QED
    BY <2>1, <2>2
<1>5. /\ plan'.kind = plan.kind /\ plan'.phases = plan.phases /\ plan'.done = plan.done
      /\ plan'.action = plan.action /\ plan'.target = plan.target /\ plan'.st = plan.st
  BY <1>4, ItemsSound DEF PlanType
<1>6. \A n \in Name : Sound(snap'[n]) /\ (snap'[n].ts = "ok" => snap[n].ts = "ok")
  BY <1>1, ItemsSound
<1>7. CASE ~SnapshotPlan
  <2>1. disk' = disk
    BY <1>2, <1>7, OtherPlan, DiskNone
  <2> QED
    BY <1>1, <1>3, <1>5, <1>6, <1>7, <2>1, StampStep
<1>8. CASE SnapshotPlan /\ job # "running"
  <2>1. OnTarget /\ Success /\ PlanActive
    BY <1>1, <1>8, TargetIsName DEF DoneInv, BackupInv, Owned
  <2>2. Engaged /\ PlanActive' /\ plan'.st \in {"running", "stopping"}
    BY <1>5, <2>1 DEF Engaged, PlanActive
  <2>3. coord'.st # "idle" => coord.st # "idle" /\ coord'.action = coord.action
    BY <1>1, IdleCoordType
  <2>4. OnTarget'
    BY <1>1, <1>5, <2>1, <2>2, <2>3, OnTargetKept
  <2>5. Success'
    BY <2>2 DEF Success
  <2> QED
    BY <1>1, <1>2, <1>3, <1>5, <1>6, <1>8, <2>4, <2>5, StampStep
<1>9. CASE SnapshotPlan /\ job = "running"
  <2>1. PICK t : t = plan.target
    OBVIOUS
  <2>2. coord.st = "phases"
    BY <1>9 DEF DoneInv, BackupInv, Owned
  <2>3. /\ PlanActive /\ Engaged /\ t \in Name /\ ActiveNames(snap) = {t}
        /\ plan.done \in Nat /\ plan.done < Len(plan.phases) /\ Len(plan.phases) \in Nat
        /\ plan.done + 1 \in DOMAIN plan.phases
        /\ plan.kind = "create" => snap[t].st = "Initial"
        /\ plan.kind = "remove" => snap[t].st = "ForRemoval"
        /\ plan.kind # "restore" => snap[t].ts = "failed"
        /\ plan.kind = "restore" => snap[t].st = "Applied" /\ snap[t].ts = "ok"
        /\ coord.action = plan.kind /\ plan.kind \in {"create", "remove", "restore"}
        /\ WellBuilt(plan, Volume) /\ Progress(plan, disk)
    BY <1>9, <2>1, <2>2, AtWork
  <2>4. PICK v : v = plan.phases[plan.done + 1].vol
    OBVIOUS
  <2>5. disk \in [Name -> SUBSET Volume]
    BY StampedDisk
  <2>6. /\ disk' \in [Name -> SUBSET Volume]
        /\ \A m \in Name : m # t => disk'[m] = disk[m]
        /\ plan.kind = "restore" => disk' = disk
        /\ plan.kind = "create" => disk[t] \subseteq disk'[t]
        /\ plan.kind = "remove" => disk'[t] \subseteq disk[t]
    <3>1. PICK ok \in BOOLEAN : ok = FALSE
      OBVIOUS
    <3>2. PICK d \in DiskAfter(ok) : d = disk'
      BY <1>2, <1>9, <3>1
    <3>3. /\ d \in [Name -> SUBSET Volume]
          /\ \A m \in Name : m # t => d[m] = disk[m]
          /\ plan.kind = "restore" => d = disk
          /\ plan.kind = "create" => disk[t] \subseteq d[t]
          /\ plan.kind = "remove" => d[t] \subseteq disk[t]
      BY <1>9, <2>1, <2>3, <2>4, <2>5, DiskFacts
    <3> QED
      BY <3>2, <3>3
  <2>7. Progress(plan', disk')
    BY <1>5, <2>1, <2>3, <2>6, ProgressKept
  <2>8. \A n \in Name : snap'[n].ts = "ok" => disk'[n] = Volume
    BY <1>1, <2>3, <2>6, StampedDisk
  <2>9. \A n \in Name : snap'[n].active = snap[n].active
    BY <1>1
  <2>10. ItemAt(snap'[t], plan', job')
    <3>1. plan.done # Len(plan.phases)
      BY <2>3
    <3> QED
      BY <1>1, <1>5, <2>3, <3>1 DEF ItemAt
  <2>11. coord'.st # "idle" => coord'.action = plan.kind
    BY <1>1, <2>3, IdleCoordType
  <2> QED
    BY <1>1, <1>3, <1>5, <1>6, <1>9, <2>1, <2>3, <2>6, <2>7, <2>8, <2>9, <2>10, <2>11, WorkKept
<1> QED
  BY <1>7, <1>8, <1>9

(* The last phase of a removal is run by run_plan itself. *)
LEMMA NotTheLast ==
    ASSUME DoneInv, SnapshotPlan, coord.st = "phases", job \in {"none", "queued", "running"},
           plan.kind = "remove"
    PROVE  IF IsLast THEN plan.target \in NextPhase.clean ELSE NextPhase.clean = {}
<1>1. PICK t : t = plan.target
  OBVIOUS
<1>2. WellBuilt(plan, Volume) /\ plan.done + 1 \in DOMAIN plan.phases
  BY <1>1, AtWork
<1> QED
  BY <1>2 DEF WellBuilt, IsLast, NextPhase

(* The tasks of a phase are over: after the last one all volumes have the snapshot. *)
LEMMA FinishPhaseKept ==
    ASSUME Orderly, DoneInv, FinishPhase
    PROVE  StampInv'
<1>1. PICK ok \in BOOLEAN :
        /\ disk' \in DiskAfter(ok)
        /\ snap' = AtPhaseEnd(snap, ok)
        /\ job' \in {"ok", "error"}
        /\ plan' = [plan EXCEPT !.failed = plan.failed \/ ~ok,
                                !.done = IF ok THEN plan.done + 1 ELSE plan.done]
  BY DEF FinishPhase
<1>2. job = "running" /\ UNCHANGED <<shape, queue, coord, backups>>
  BY DEF FinishPhase
<1>3. coord.st = "phases" /\ plan.done \in Nat
  BY <1>2, ItemsSound DEF DoneInv, BackupInv, Owned, PlanType
<1>4. OneMessage'
  BY <1>2 DEF DoneInv, StampInv, OneMessage
<1>5. /\ plan'.kind = plan.kind /\ plan'.phases = plan.phases /\ plan'.st = plan.st
      /\ plan'.action = plan.action /\ plan'.target = plan.target
      /\ ok => plan'.done = plan.done + 1
      /\ ~ok => plan'.done = plan.done
  <2> DEFINE f == plan.failed \/ ~ok
             d == IF ok THEN plan.done + 1 ELSE plan.done
  <2>1. (ok => d = plan.done + 1) /\ (~ok => d = plan.done)
    OBVIOUS
  <2>2. plan' = [plan EXCEPT !.failed = f, !.done = d]
    BY <1>1
  <2> HIDE DEF f, d
  <2> QED
    BY <2>1, <2>2, ItemsSound DEF PlanType
<1>6. PICK d \in DiskAfter(ok) : d = disk'
  BY <1>1
<1>7. CASE ~SnapshotPlan
  <2>1. snap' = snap
    BY <1>1, <1>7 DEF AtPhaseEnd
  <2>2. disk' = disk
    BY <1>6, <1>7, OtherPlan, DiskNone
  <2>3. plan'.kind \notin {"create", "remove", "restore"} /\ plan'.action = "none"
    BY <1>5, <1>7, OtherPlan
  <2> QED
    BY <1>2, <1>4, <2>1, <2>2, <2>3, ItemsSound, GoneStep
<1>8. CASE SnapshotPlan
  <2>1. PICK t : t = plan.target
    OBVIOUS
  <2>2. /\ PlanActive /\ Engaged /\ t \in Name /\ ActiveNames(snap) = {t}
        /\ plan.done < Len(plan.phases) /\ Len(plan.phases) \in Nat
        /\ plan.done + 1 \in DOMAIN plan.phases
        /\ plan.kind = "create" => snap[t].st = "Initial"
        /\ plan.kind = "remove" => snap[t].st = "ForRemoval"
        /\ plan.kind # "restore" => snap[t].ts = "failed"
        /\ plan.kind = "restore" => snap[t].st = "Applied" /\ snap[t].ts = "ok"
        /\ coord.action = plan.kind /\ plan.kind \in {"create", "remove", "restore"}
        /\ WellBuilt(plan, Volume) /\ Progress(plan, disk)
    BY <1>2, <1>3, <1>8, <2>1, AtWork
  <2>3. PICK v : v = plan.phases[plan.done + 1].vol
    OBVIOUS
  <2>4. disk \in [Name -> SUBSET Volume] /\ \A n \in Name : snap[n].ts = "ok" => disk[n] = Volume
    BY StampedDisk
  <2>5. /\ disk' \in [Name -> SUBSET Volume]
        /\ \A m \in Name : m # t => disk'[m] = disk[m]
        /\ plan.kind = "restore" => disk' = disk
        /\ plan.kind = "create" => disk[t] \subseteq disk'[t] /\ (ok /\ v # 0 => v \in disk'[t])
        /\ plan.kind = "remove" => disk'[t] \subseteq disk[t] /\ (ok /\ v # 0 => v \notin disk'[t])
    <3>1. /\ d \in [Name -> SUBSET Volume]
          /\ \A m \in Name : m # t => d[m] = disk[m]
          /\ plan.kind = "restore" => d = disk
          /\ plan.kind = "create" => disk[t] \subseteq d[t] /\ (ok /\ v # 0 => v \in d[t])
          /\ plan.kind = "remove" => d[t] \subseteq disk[t] /\ (ok /\ v # 0 => v \notin d[t])
      BY <1>8, <2>1, <2>2, <2>3, <2>4, DiskFacts
    <3> QED
      BY <1>6, <3>1
  <2>6. Progress(plan', disk')
    <3>1. CASE ok
      BY <1>3, <1>5, <2>1, <2>2, <2>3, <2>5, <3>1, ProgressMore
    <3>2. CASE ~ok
      BY <1>5, <2>1, <2>2, <2>5, <3>2, ProgressKept
    <3> QED
      BY <3>1, <3>2
  <2>7. /\ \A m \in Name : m # t => snap'[m] = snap[m]
        /\ ~IsLast \/ (ok /\ snap[t].st \in {"Removed", "ForRemoval"}) => snap' = snap
        /\ IsLast /\ ~ok => IF plan.kind = "restore" THEN snap' = snap
                            ELSE snap'[t].st = snap[t].st /\ snap'[t].ts = "failed"
        /\ IsLast /\ ok /\ snap[t].st \notin {"Removed", "ForRemoval"} =>
             snap'[t].st = "Applied" /\ snap'[t].ts = "ok"
    BY <1>1, <1>8, <2>2, ItemsSound, EndExact
  <2>8. \A m \in Name : snap'[m].active = snap[m].active
    BY <1>1, ItemsSound, EndFacts
  <2>9. plan.kind = "remove" => ~IsLast
    <3>1. NextPhase.clean = {}
      BY <1>2, <1>3 DEF DoneInv, BackupInv, Unfinished
    <3> QED
      BY <1>2, <1>3, <1>8, <3>1, NotTheLast
  <2>10. /\ ok /\ IsLast <=> plan'.done = Len(plan'.phases)
         /\ plan'.done >= plan.done
    BY <1>3, <1>5, <2>2 DEF IsLast
  <2>11. CASE plan.kind = "create"
    <3>1. ok /\ IsLast => snap'[t].st = "Applied" /\ snap'[t].ts = "ok"
      BY <2>2, <2>7, <2>11
    <3>2. ~(ok /\ IsLast) => snap'[t].st = "Initial" /\ snap'[t].ts = "failed"
      BY <2>2, <2>7, <2>11
    <3>3. Sound(snap'[t])
      BY <3>1, <3>2 DEF Sound
    <3>4. \A n \in Name : Sound(snap'[n])
      BY <2>7, <3>3, ItemsSound
    <3>5. ASSUME ok, IsLast PROVE disk'[t] = Volume
      <4>1. PICK q : q = plan'
        OBVIOUS
      <4>2. WellBuilt(q, Volume)
        BY <1>5, <2>2, <4>1, WellBuiltKept
      <4>3. PICK e : e = disk'
        OBVIOUS
      <4>4. Progress(q, e) /\ q.done = Len(q.phases) /\ q.target = t /\ e[t] \subseteq Volume
        BY <1>5, <2>1, <2>2, <2>5, <2>6, <2>10, <3>5, <4>1, <4>3
      <4>5. q \in PlanType
        <5>1. BackupInv'
          BY FinishPhaseStep DEF DoneInv
        <5> QED
          BY <4>1, <5>1 DEF BackupInv, TypeOK
      <4>6. 0 \notin Volume
        BY VolumeFacts
      <4>7. q.kind = "create"
        BY <1>5, <2>11, <4>1
      <4> QED
        BY <4>2, <4>3, <4>4, <4>5, <4>6, <4>7, AllDone
    <3>6. \A n \in Name : snap'[n].ts = "ok" => disk'[n] = Volume
      BY <2>4, <2>5, <2>7, <3>2, <3>5
    <3>7. ItemAt(snap'[t], plan', job')
      BY <1>5, <2>10, <2>11, <3>1, <3>2 DEF ItemAt
    <3> QED
      BY <1>2, <1>4, <1>5, <1>8, <2>1, <2>2, <2>5, <2>6, <2>8, <3>4, <3>6, <3>7, WorkKept
  <2>12. CASE plan.kind \in {"remove", "restore"}
    <3>1. /\ plan.kind = "remove" => snap' = snap
          /\ snap'[t] = snap[t] \/ (snap'[t].st = "Applied" /\ snap'[t].ts = "ok")
      BY <2>2, <2>7, <2>9, <2>12
    <3>2. \A n \in Name : Sound(snap'[n])
      <4>1. snap'[t].st = "Applied" => Sound(snap'[t])
        BY DEF Sound
      <4> QED
        BY <2>7, <3>1, <4>1, ItemsSound
    <3>3. \A n \in Name : snap'[n].ts = "ok" => disk'[n] = Volume
      BY <2>2, <2>4, <2>5, <2>7, <2>12, <3>1
    <3>4. ItemAt(snap'[t], plan', job')
      <4>1. CASE plan.kind = "remove"
        <5>1. plan'.done # Len(plan'.phases)
          BY <2>9, <2>10, <4>1
        <5> QED
          BY <1>5, <2>2, <3>1, <4>1, <5>1 DEF ItemAt
      <4>2. CASE plan.kind = "restore"
        BY <1>5, <2>2, <3>1, <4>2 DEF ItemAt
      <4> QED
        BY <2>12, <4>1, <4>2
    <3> QED
      BY <1>2, <1>4, <1>5, <1>8, <2>1, <2>2, <2>5, <2>6, <2>8, <3>2, <3>3, <3>4, WorkKept
  <2> QED
    BY <2>2, <2>11, <2>12
<1> QED
  BY <1>7, <1>8

(* run_plan runs the cleanup tasks: in a removal they are the last, and the item goes. *)
LEMMA RunCleanupPhaseKept ==
    ASSUME Orderly, DoneInv, RunCleanupPhase
    PROVE  StampInv'
<1> DEFINE refused == NextPhase.vol # 0 \/ plan.st = "stopping"
           removed == [n \in Name |->
                          IF n \in NextPhase.clean /\ snap[n].st = "ForRemoval"
                          THEN SetState(snap[n], "Removed") ELSE snap[n]]
           started == AtPhaseStart(removed)
           to == IF EndRaises(started) THEN "failing" ELSE "ending"
<1>1. /\ coord.st = "phases" /\ job = "none" /\ NextPhase.clean # {}
      /\ UNCHANGED <<shape, queue, job, backups, disk>>
  BY DEF RunCleanupPhase
<1>2. queue = 0 /\ OneMessage'
  BY <1>1 DEF DoneInv, StampInv, OneMessage
<1>3. coord \in CoordType
  BY DEF DoneInv, BackupInv, TypeOK
<1>4. CASE refused
  <2>1. coord' = [coord EXCEPT !.st = "failing"] /\ UNCHANGED <<snap, plan>>
    BY <1>4 DEF RunCleanupPhase
  <2>2. coord'.action = coord.action
    BY <1>3, <2>1 DEF CoordType
  <2>3. \A n \in Name : Sound(snap'[n]) /\ (snap'[n].ts = "ok" => snap[n].ts = "ok")
    BY <2>1, ItemsSound
  <2>4. ASSUME SnapshotPlan PROVE OnTarget' /\ Success'
    <3>1. OnTarget /\ Success
      BY <2>4, TargetIsName
    <3>2. (Engaged' => Engaged) /\ (PlanActive' => PlanActive)
      BY <1>1, <2>1 DEF Engaged, PlanActive, ActiveNames
    <3>3. OnTarget'
      BY <1>1, <2>1, <2>2, <3>1, <3>2, OnTargetKept
    <3>4. Success'
      BY <1>1, <2>1, <3>1 DEF Success
    <3> QED
      BY <3>3, <3>4
  <2> QED
    BY <1>1, <1>2, <2>1, <2>3, <2>4, StampStep
<1>5. CASE ~refused
  <2>1. /\ snap' = AtPhaseEnd(started, TRUE)
        /\ plan' = [plan EXCEPT !.done = plan.done + 1]
        /\ coord' = [coord EXCEPT !.st = to]
    BY <1>5 DEF RunCleanupPhase
  <2>2. NextPhase.vol = 0
    BY <1>5
  <2>3. ASSUME NEW n \in Name
        PROVE  /\ removed[n] \in ItemType
               /\ removed[n].active = snap[n].active /\ removed[n].ts = snap[n].ts
               /\ Sound(removed[n])
               /\ removed[n].st = IF n \in NextPhase.clean /\ snap[n].st = "ForRemoval"
                                  THEN "Removed" ELSE snap[n].st
    <3>1. snap[n] \in ItemType /\ Sound(snap[n])
      BY ItemsSound DEF SnapType
    <3>2. /\ SetState(snap[n], "Removed") \in ItemType
          /\ SetState(snap[n], "Removed").st = "Removed"
          /\ SetState(snap[n], "Removed").ts = snap[n].ts
          /\ SetState(snap[n], "Removed").active = snap[n].active
          /\ Sound(SetState(snap[n], "Removed"))
      BY <3>1, SetStateFields, SoundState DEF ItemState
    <3> QED
      BY <3>1, <3>2
  <2>4. removed \in SnapType
    BY <2>3 DEF SnapType
  <2> HIDE DEF removed, to, refused
  <2>5. /\ plan'.kind = plan.kind /\ plan'.st = plan.st /\ plan'.phases = plan.phases
        /\ plan'.action = plan.action /\ plan'.target = plan.target
        /\ plan'.done = plan.done + 1
    BY <2>1, ItemsSound DEF PlanType
  <2>6. coord'.action = coord.action
    BY <1>3, <2>1 DEF CoordType
  <2>7. CASE ~SnapshotPlan
    <3>1. started = removed
      BY <2>7 DEF AtPhaseStart
    <3>2. AtPhaseEnd(started, TRUE) = started
      BY <2>7 DEF AtPhaseEnd
    <3>3. \A n \in Name : Sound(snap'[n]) /\ (snap'[n].ts = "ok" => snap[n].ts = "ok")
      BY <2>1, <2>3, <3>1, <3>2
    <3>4. plan'.kind \notin {"create", "remove", "restore"} /\ plan'.action = "none"
      BY <2>5, <2>7, OtherPlan
    <3> QED
      BY <1>1, <1>2, <3>3, <3>4, GoneStep
  <2>8. CASE SnapshotPlan
    <3>1. PICK t : t = plan.target
      OBVIOUS
    <3>2. /\ PlanActive /\ Engaged /\ t \in Name /\ ActiveNames(snap) = {t}
          /\ plan.done \in Nat /\ plan.done < Len(plan.phases) /\ Len(plan.phases) \in Nat
          /\ plan.kind = "create" => snap[t].st = "Initial"
          /\ plan.kind = "remove" => snap[t].st = "ForRemoval"
          /\ plan.kind # "restore" => (plan.done > 0 => snap[t].ts = "failed")
          /\ plan.kind = "restore" => snap[t].st = "Applied" /\ snap[t].ts = "ok"
          /\ coord.action = plan.kind /\ plan.kind \in {"create", "remove", "restore"}
          /\ WellBuilt(plan, Volume) /\ Progress(plan, disk)
      BY <1>1, <2>8, <3>1, AtWork
    <3>3. ActiveNames(removed) = {t}
      BY <2>3, <3>2 DEF ActiveNames
    <3>4. /\ started \in SnapType
          /\ \A m \in Name : started[m].active = removed[m].active
      BY <2>4, StartFacts
    <3>5. /\ \A m \in Name : m # t => started[m] = removed[m]
          /\ started[t].st = removed[t].st /\ started[t].prev = removed[t].prev
          /\ plan.kind = "restore" \/ plan.done # 0 => started = removed
          /\ plan.kind # "restore" /\ plan.done = 0 => started[t].ts = "failed"
      BY <2>4, <2>8, <3>3, StartExact
    <3> HIDE DEF started
    <3>6. ActiveNames(started) = {t}
      BY <3>3, <3>4 DEF ActiveNames
    <3>7. /\ \A m \in Name : m # t => snap'[m] = started[m]
          /\ ~IsLast \/ started[t].st \in {"Removed", "ForRemoval"} => snap' = started
          /\ IsLast /\ started[t].st \notin {"Removed", "ForRemoval"} =>
               snap'[t].st = "Applied" /\ snap'[t].ts = "ok"
      <4>1. PICK ok \in BOOLEAN : ok = TRUE
        OBVIOUS
      <4>2. PICK r : r = AtPhaseEnd(started, ok)
        OBVIOUS
      <4>3. /\ \A m \in Name : m # t => r[m] = started[m]
            /\ ~IsLast \/ (ok /\ started[t].st \in {"Removed", "ForRemoval"}) => r = started
            /\ IsLast /\ ok /\ started[t].st \notin {"Removed", "ForRemoval"} =>
                 r[t].st = "Applied" /\ r[t].ts = "ok"
        BY <2>8, <3>4, <3>6, <4>2, EndExact
      <4>4. r = snap'
        BY <2>1, <4>1, <4>2
      <4> QED
        BY <4>1, <4>3, <4>4
    <3>8. \A m \in Name : snap'[m].active = snap[m].active
      <4>1. TRUE \in BOOLEAN
        OBVIOUS
      <4>2. \A m \in Name : snap'[m].active = started[m].active
        BY <2>1, <3>4, <4>1, EndFacts
      <4> QED
        BY <2>3, <3>4, <4>2
    <3>9. \A m \in Name : m # t => Sound(snap'[m]) /\ snap'[m].ts = snap[m].ts
      BY <2>3, <3>5, <3>7
    <3>10. plan.kind = "remove" => IsLast /\ t \in NextPhase.clean
      BY <1>1, <2>8, <3>1, NotTheLast
    <3>11. IsLast <=> plan'.done = Len(plan'.phases)
      BY <2>5, <3>2 DEF IsLast
    <3>12. Progress(plan', disk')
      <4>1. PICK v : v = plan.phases[plan.done + 1].vol
        OBVIOUS
      <4>2. v = 0
        BY <2>2, <4>1 DEF NextPhase
      <4> QED
        BY <1>1, <2>5, <3>2, <4>1, <4>2, ProgressMore
    <3>13. disk' \in [Name -> SUBSET Volume]
      BY <1>1, StampedDisk
    <3>14. coord'.st # "idle" => coord'.action = plan.kind
      BY <2>6, <3>2
    <3>15. ASSUME plan.kind = "create", IsLast PROVE disk'[t] = Volume
      <4>1. PICK q : q = plan'
        OBVIOUS
      <4>2. WellBuilt(q, Volume)
        BY <2>5, <3>2, <4>1, WellBuiltKept
      <4>3. PICK e : e = disk'
        OBVIOUS
      <4>4. Progress(q, e) /\ q.done = Len(q.phases) /\ q.target = t /\ e[t] \subseteq Volume
        BY <2>5, <3>1, <3>2, <3>11, <3>12, <3>13, <3>15, <4>1, <4>3
      <4>5. q \in PlanType
        <5>1. BackupInv'
          BY RunCleanupPhaseStep DEF DoneInv
        <5> QED
          BY <4>1, <5>1 DEF BackupInv, TypeOK
      <4>6. 0 \notin Volume /\ q.kind = "create"
        BY <2>5, <3>15, <4>1, VolumeFacts
      <4> QED
        BY <4>2, <4>3, <4>4, <4>5, <4>6, AllDone
    <3>16. /\ Sound(snap'[t])
           /\ snap'[t].ts = "ok" => disk'[t] = Volume
           /\ ItemAt(snap'[t], plan', job')
      <4>1. CASE plan.kind = "create"
        <5>1. removed[t].st = "Initial" /\ started[t].st = "Initial"
              /\ started[t].ts = "failed"
          BY <2>3, <3>2, <3>5, <4>1
        <5>2. IF IsLast THEN snap'[t].st = "Applied" /\ snap'[t].ts = "ok"
              ELSE snap'[t].st = "Initial" /\ snap'[t].ts = "failed"
          BY <3>7, <5>1
        <5>3. Sound(snap'[t])
          BY <5>2 DEF Sound
        <5>4. ItemAt(snap'[t], plan', job')
          BY <2>5, <3>11, <4>1, <5>2 DEF ItemAt
        <5> QED
          BY <3>15, <4>1, <5>2, <5>3, <5>4
      <4>2. CASE plan.kind = "remove"
        <5>1. removed[t].st = "Removed" /\ removed[t].ts = snap[t].ts
          BY <2>3, <3>2, <3>10, <4>2
        <5>2. started[t].st = "Removed" /\ started[t].ts = "failed"
          BY <3>2, <3>5, <4>2, <5>1
        <5>3. snap'[t].st = "Removed" /\ snap'[t].ts = "failed"
          BY <3>7, <5>2
        <5>4. ItemAt(snap'[t], plan', job')
          BY <2>5, <3>10, <3>11, <4>2, <5>3 DEF ItemAt
        <5> QED
          BY <5>3, <5>4 DEF Sound
      <4>3. CASE plan.kind = "restore"
        <5>1. started[t].st = "Applied" /\ started[t].ts = "ok"
          BY <2>3, <3>2, <3>5, <4>3
        <5>2. snap'[t].st = "Applied" /\ snap'[t].ts = "ok"
          BY <3>7, <5>1
        <5>3. ItemAt(snap'[t], plan', job') /\ Sound(snap'[t])
          BY <2>5, <4>3, <5>2 DEF ItemAt, Sound
        <5>4. disk'[t] = Volume
          BY <1>1, <3>2, <4>3, StampedDisk
        <5> QED
          BY <5>3, <5>4
      <4> QED
        BY <3>2, <4>1, <4>2, <4>3
    <3>17. \A n \in Name : /\ Sound(snap'[n]) /\ snap'[n].active = snap[n].active
                           /\ snap'[n].ts = "ok" => disk'[n] = Volume
      BY <1>1, <3>8, <3>9, <3>16, StampedDisk
    <3> QED
      BY <1>1, <1>2, <2>5, <2>8, <3>1, <3>2, <3>12, <3>13, <3>14, <3>16, <3>17, WorkKept
  <2> QED
    BY <2>7, <2>8
<1> QED
  BY <1>4, <1>5

-----------------------------------------------------------------------------

LEMMA InitDone == Init => DoneInv
<1> SUFFICES ASSUME Init PROVE DoneInv
  OBVIOUS
<1>1. BackupInv
  BY InitBackup
<1>2. Absent.ts = "none"
  BY DEF Absent
<1>3. \A n \in Name : snap[n].ts = "none" /\ disk[n] = {}
  BY <1>2 DEF Init
<1>4. OneMessage
  BY IdleCoordType DEF Init, OneMessage
<1>5. StampApplied
  BY <1>3 DEF StampApplied, Sound
<1>6. StampComplete
  BY <1>3 DEF Init, StampComplete
<1>7. plan.kind = "none" /\ plan.action = "none"
  BY DEF Init, NoPlan
<1>8. PlanInv
  BY <1>7 DEF PlanInv, SnapshotPlan
<1> QED
  BY <1>1, <1>4, <1>5, <1>6, <1>8 DEF DoneInv, StampInv

LEMMA NextDone == Orderly /\ DoneInv /\ [Next]_vars => DoneInv'
<1> SUFFICES ASSUME Orderly, DoneInv, [Next]_vars PROVE DoneInv'
  OBVIOUS
<1>1. BackupInv'
  BY NextBackup DEF DoneInv
<1>2. CASE \E n \in Name : CreateSnapshot(n) \/ DeleteSnapshot(n)
  BY <1>1, <1>2, CreateSnapshotKept, DeleteSnapshotKept DEF DoneInv
<1>3. CASE RestoreSnapshot
  BY <1>1, <1>3, RestoreSnapshotKept DEF DoneInv
<1>4. CASE CreateDeploymentPlan
  BY <1>1, <1>4, CreateDeploymentPlanKept DEF DoneInv
<1>5. CASE RunPlanRequest \/ DeletePlan \/ ModelChanged \/ StopPlan
  BY <1>1, <1>5, PlanRequestKept DEF DoneInv
<1>6. CASE RunPlan
  BY <1>1, <1>6, RunPlanKept DEF DoneInv
<1>7. CASE EnqueuePhase \/ CollectPhase
  BY <1>1, <1>7, HandOverKept DEF DoneInv
<1>8. CASE RunCleanupPhase
  BY <1>1, <1>8, RunCleanupPhaseKept DEF DoneInv
<1>9. CASE StartPhase
  BY <1>1, <1>9, StartPhaseKept DEF DoneInv
<1>10. CASE FinishPhase
  BY <1>1, <1>10, FinishPhaseKept DEF DoneInv
<1>11. CASE WorkerDies \/ Crash
  BY <1>1, <1>11, DiesKept DEF DoneInv
<1>12. CASE CompletePlan
  BY <1>1, <1>12, CompletePlanKept DEF DoneInv
<1>13. CASE FixPlan
  BY <1>1, <1>13, FixPlanKept DEF DoneInv
<1>14. CASE UNCHANGED vars
  <2>1. UNCHANGED <<shape, snap, plan, queue, coord, job, backups, disk>>
    BY <1>14 DEF vars
  <2>2. OneMessage'
    BY <2>1 DEF DoneInv, StampInv, OneMessage
  <2>3. ASSUME SnapshotPlan PROVE OnTarget' /\ Success'
    <3>1. OnTarget /\ Success
      BY <2>3, TargetIsName
    <3>2. (Engaged' => Engaged) /\ (PlanActive' => PlanActive)
      BY <2>1 DEF Engaged, PlanActive, ActiveNames
    <3>3. OnTarget'
      BY <2>1, <3>1, <3>2, OnTargetKept
    <3>4. Success'
      BY <2>1, <3>1 DEF Success
    <3> QED
      BY <3>3, <3>4
  <2>4. StampInv'
    BY <2>1, <2>2, <2>3, ItemsSound, StampStep
  <2> QED
    BY <1>1, <2>4 DEF DoneInv
<1> QED
  BY <1>2, <1>3, <1>4, <1>5, <1>6, <1>7, <1>8, <1>9, <1>10, <1>11, <1>12, <1>13, <1>14
     DEF Next

(* The timestamp of a snapshot: for any snapshots and plugins, when run_plan messages come
   one at a time and a plan is not asked for while one is stopping, an Applied snapshot
   with a timestamp is on every volume, whatever phases failed, were stopped or died. *)
THEOREM TimestampIsComplete ==
    ASSUME Orderly
    PROVE  Spec => []TimestampMeansComplete
<1>1. DoneInv => TimestampMeansComplete
  BY DEF DoneInv, StampInv, StampComplete, TimestampMeansComplete
<1>2. DoneInv /\ [Next]_vars => DoneInv'
  BY NextDone
<1> QED
  BY <1>1, <1>2, InitDone, PTL DEF Spec

(* A successful snapshot plan, under the same conditions: a create has left the timestamp,
   the model backup and every volume, a remove neither volume nor item. *)
THEOREM SuccessIsDone ==
    ASSUME Orderly
    PROVE  Spec => []SuccessMeansDone
<1>1. ASSUME DoneInv, plan.st = "successful"
      PROVE  /\ plan.kind = "create" =>
                  /\ snap[plan.target].ts = "ok" /\ plan.target \in backups
                  /\ disk[plan.target] = Volume
             /\ plan.kind = "remove" =>
                  snap[plan.target].st \in {"absent", "Removed"} /\ disk[plan.target] = {}
  <2>1. CASE SnapshotPlan
    <3>1. /\ WellBuilt(plan, Volume) /\ Progress(plan, disk) /\ Success
          /\ plan.target \in Name /\ plan \in PlanType
      BY <1>1, <2>1, TargetIsName, ItemsSound DEF DoneInv, StampInv, PlanInv
    <3>2. disk[plan.target] \subseteq Volume /\ plan.done = Len(plan.phases)
      BY <1>1, <3>1, StampedDisk DEF Success
    <3>3. /\ plan.kind = "create" => disk[plan.target] = Volume
          /\ plan.kind = "remove" => disk[plan.target] = {}
      BY <3>1, <3>2, VolumeFacts, AllDone
    <3> QED
      BY <1>1, <3>1, <3>3 DEF Success
  <2>2. CASE ~SnapshotPlan
    BY <2>2 DEF SnapshotPlan
  <2> QED
    BY <2>1, <2>2
<1>2. DoneInv => SuccessMeansDone
  BY <1>1 DEF SuccessMeansDone
<1>3. DoneInv /\ [Next]_vars => DoneInv'
  BY NextDone
<1> QED
  BY <1>2, <1>3, InitDone, PTL DEF Spec
=============================================================================
