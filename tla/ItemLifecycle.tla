---------------------------- MODULE ItemLifecycle ----------------------------
(***************************************************************************)
(* The life of model items: what requests (core/model_manager.py,          *)
(* core/model_item.py) and plans (core/execution_manager.py) do to their   *)
(* states.  Items form a tree; an item may inherit from a source, whose    *)
(* children it copies.  An item has one property, whose value an           *)
(* inherited item takes from its source unless it has overwritten it.      *)
(***************************************************************************)
EXTENDS FiniteSets, FiniteSetsExt, SequencesExt

CONSTANTS
    Item,          \* paths at which an item may exist
    Parent,        \* item -> its parent; Root for the items at the top
    Source,        \* item -> the item it inherits from, or None
    Collection,    \* the items that are collections
    Value,         \* values of the property
    DeleteOrder,   \* all items, sorted by parent_vpath in reverse
    PathOrder,     \* all items, sorted by vpath
    Documents,     \* XML documents: see below
    Branch,        \* item -> the items whose path begins with its path
    Excluded,      \* what prepare_restore leaves alone for "/" and for a node
    Restores,      \* which restores are asked for: see RestoreModel
    GrowSources,   \* may a child be created while an heir of its parent is ForRemoval?
    Overwrites,    \* may an inherited item overwrite the property?
    BadRecovery,   \* may a request re-create a ForRemoval item with bad properties?
    PlanFailures   \* ways in which a running plan ends early

Root == "root"
None == "none"     \* no value, no source, no previous state
Broken == "broken" \* left between two values by tasks that did not all succeed
Left == "left"     \* left by an item that has been deleted

ASSUME TreeAssumption ==
    /\ Parent \in [Item -> Item \cup {Root}]
    /\ Source \in [Item -> Item \cup {None}]
    /\ Collection \subseteq Item
    /\ ToSet(DeleteOrder) = Item /\ ToSet(PathOrder) = Item
    /\ Documents \subseteq [items : SUBSET Item, top : Item \cup {Root}, twice : BOOLEAN,
                            unsourced : BOOLEAN, resourced : BOOLEAN, retyped : SUBSET Item]
    /\ Branch \in [Item \cup {Root} -> SUBSET Item]
    /\ Excluded \in [{"root", "node"} -> SUBSET Item]
    /\ Restores \subseteq {"model", "planned", "root", "node", "prepared"}
    /\ {None, Broken, Left} \cap Value = {}
    /\ GrowSources \in BOOLEAN /\ Overwrites \in BOOLEAN /\ BadRecovery \in BOOLEAN
    /\ PlanFailures \subseteq {"failed", "stopped", "died"}

VARIABLES
    model,      \* item -> its row, or Absent
    plan,       \* state of the plan; "none" if there is none that can still be run
    task,       \* item -> states of the tasks of that plan that act on it
    target,     \* item -> what these tasks deploy: a value, or None to remove it
    deployed,   \* item -> what is on the nodes
    saved       \* the model after the last successful plan, or NoBackup

vars == <<model, plan, task, target, deployed, saved>>

State == {"Initial", "Applied", "Updated", "ForRemoval", "Removed"}
Row == [state : State, prev : State \cup {None}, val : Value \cup {None},
        app : Value \cup {None}, apd : BOOLEAN]

\* No item at this path.
Absent == [state |-> "Absent", prev |-> None, val |-> None, app |-> None, apd |-> TRUE]

\* The backup of the model has been deleted.
NoBackup == [i \in Item |-> [Absent EXCEPT !.state = "none"]]

TypeOK ==
    /\ model \in [Item -> Row \cup {Absent}]
    /\ plan \in {"none", "initial", "running", "failed"}
    /\ task \in [Item -> {"none", "initial", "failed", "partial", "success"}]
    /\ target \in [Item -> Value \cup {None}]
    /\ deployed \in [Item -> Value \cup {None, Broken, Left}]
    /\ saved \in [Item -> Row \cup {Absent}] \cup {NoBackup}

-----------------------------------------------------------------------------
(* The tree.  m is a model: item -> row or Absent. *)

Exists(m, i) == m[i] # Absent
In(m, i, states) == m[i].state \in states
ForRemoval(m, i) == In(m, i, {"ForRemoval"})
Children(m, i) == {c \in Item : Parent[c] = i /\ Exists(m, c)}

Ancestors[i \in Item] ==
    IF Parent[i] = Root THEN {} ELSE {Parent[i]} \cup Ancestors[Parent[i]]
Descendants(m, i) == {d \in Item : i \in Ancestors[d] /\ Exists(m, d)}

Sources[i \in Item] ==
    IF Source[i] = None THEN {} ELSE {Source[i]} \cup Sources[Source[i]]
\* _iterate_inherited_items_recursive
Heirs(m, i) == {h \in Item : i \in Sources[h] /\ Exists(m, h)}

\* get_merged_properties
Merged(m, i) ==
    LET value[j \in Item] ==
            IF ~Exists(m, j) THEN None
            ELSE IF m[j].val # None \/ Source[j] = None THEN m[j].val
            ELSE value[Source[j]]
    IN value[i]

\* ModelItem._set_state
SetState(m, i, s) ==
    [m EXCEPT ![i] =
        [@ EXCEPT
            !.apd = @ \/ s = "Applied",
            !.prev = IF m[i].state \in {s, "ForRemoval"} THEN @ ELSE m[i].state,
            !.state = s,
            !.app = IF s = "Applied" /\ m[i].state # s THEN Merged(m, i) ELSE @]]

SetStateOf(m, S, s) == FoldSet(LAMBDA i, a : SetState(a, i, s), m, S)

\* ModelItem.set_previous_state
SetPreviousState(m, i) ==
    SetState(m, i, IF ~m[i].apd /\ m[i].state = "ForRemoval" /\ m[i].prev = "Applied" THEN "Updated"
                   ELSE IF m[i].prev = None THEN "Initial" ELSE m[i].prev)

-----------------------------------------------------------------------------
(* Updates *)

\* set_property, which deletes it when there is no value
SetProperty(m, i, v) == [m EXCEPT ![i].val = v]

\* ModelItem.update_properties, with {"p": v}
UpdateProperties(m, i, v) ==
    LET n == SetProperty(m, i, v)
        same == n[i].app = Merged(n, i)
        state == CASE n[i].state \in {"Applied", "ForRemoval"} /\ ~same -> "Updated"
                   [] n[i].state = "Updated" /\ n[i].apd /\ same
                      /\ n[i].prev \in {"Applied", "Updated"} -> "Applied"
                   [] OTHER -> n[i].state
    IN  IF state = n[i].state THEN n ELSE SetState(n, i, state)

\* _update_inherited_item_state; set_state_child_collection is its last step
UpdateInheritedItemState(m, h) ==
    LET same == m[h].app = Merged(m, h)
        s == m[h].state
        t == CASE same /\ s \in {"Updated", "ForRemoval"} /\ m[h].apd -> "Applied"
               [] same /\ s \in {"Applied", "ForRemoval"} /\ ~m[h].apd -> "Updated"
               [] ~same /\ s = "ForRemoval" /\ m[h].prev = "Initial" /\ ~m[h].apd -> "Initial"
               [] ~same /\ s \in {"Applied", "ForRemoval"}
                  /\ ~(s = "ForRemoval" /\ m[h].prev = "Initial" /\ ~m[h].apd) -> "Updated"
               [] OTHER -> s
        a == IF t = s THEN m ELSE SetState(m, h, t)
        b == IF Parent[h] # Root /\ ForRemoval(a, Parent[h]) THEN SetState(a, h, "ForRemoval") ELSE a
    IN  SetStateOf(b, Children(b, h) \cap Collection, b[h].state)

AllPropertiesOverwritten(m, h, props) == props # {} /\ m[h].val # None

(* Mutant: the items that inherit the property are not told. *)
UpdateItemOnly(m, i, props) ==
    IF props = {} THEN m ELSE UpdateProperties(m, i, CHOOSE v \in props : TRUE)

(* _update_item: props is the set of values given for the property, one or none.
   The heirs that have overwritten all the properties given are left alone. *)
UpdateItem(m, i, props) ==
    LET n == IF props = {} THEN m ELSE UpdateProperties(m, i, CHOOSE v \in props : TRUE)
    IN  FoldSet(LAMBDA h, a : UpdateInheritedItemState(a, h), n,
                {h \in Heirs(n, i) : ~AllPropertiesOverwritten(n, h, props)})

(* Mutant: the parent may be about to be removed. *)
CanRecoverAnywhere(m, i) == ForRemoval(m, i) /\ m[i].prev # "Removed"

\* _validate_recover_item
CanRecover(m, i) ==
    /\ ForRemoval(m, i) /\ m[i].prev # "Removed"
    /\ Parent[i] # Root => Exists(m, Parent[i]) /\ ~ForRemoval(m, Parent[i])
    /\ \A d \in {i} \cup Descendants(m, i) : Source[d] # None => ~ForRemoval(m, Source[d])

RECURSIVE RecoverDown(_, _)
\* _recover_item_for_removal_down
RecoverDown(m, i) ==
    LET own == SetPreviousState(m, i)
        kids == FoldSet(LAMBDA c, a : RecoverDown(a, c), own, Children(own, i))
    IN  FoldSet(LAMBDA h, a : SetPreviousState(a, h), kids,
                {h \in Heirs(kids, i) : kids[h].val = None})

-----------------------------------------------------------------------------
(* Creation *)

NewRow(v) == [state |-> "Initial", prev |-> None, val |-> v, app |-> None, apd |-> TRUE]

\* A new item has its collections; they inherit nothing unless it does.
Defaults(i) == {c \in Collection : Parent[c] = i /\ Source[i] = None}

(* _create_children_from_source_item: the paths below i that copy the existing
   descendants of its source, except what is, or is under, a ForRemoval item. *)
Copies(m, i) ==
    {d \in Item :
        /\ i \in Ancestors[d]
        /\ \A e \in {d} \cup (Ancestors[d] \ ({i} \cup Ancestors[i])) :
              Source[e] # None /\ Exists(m, Source[e]) /\ ~ForRemoval(m, Source[e])}

\* _validate_create, _check_allowed_child
MayCreate(m, i) ==
    /\ i \notin Collection /\ ~Exists(m, i)
    /\ Parent[i] # Root =>
          /\ Exists(m, Parent[i]) /\ ~ForRemoval(m, Parent[i])
          /\ Source[i] = None =>
                /\ Source[Parent[i]] = None
                /\ GrowSources \/ \A h \in Heirs(m, Parent[i]) : ~ForRemoval(m, h)

\* _validate_inherited
SourceReady(m, i) ==
    Source[i] # None =>
        /\ Exists(m, Source[i]) /\ ~ForRemoval(m, Source[i])
        /\ Parent[i] # Root /\ Source[Parent[i]] # None => Source[Parent[i]] = Parent[Source[i]]

\* Rows for all items of S that do not exist.
CreateRows(m, S) == [i \in Item |-> IF i \in S /\ ~Exists(m, i) THEN NewRow(None) ELSE m[i]]

(* _create_item and _create_inherited: the item, what comes with it, and a copy of
   it under every item that inherits from its parent. *)
CreateTree(m, i, v) ==
    LET own == CreateRows([m EXCEPT ![i] = NewRow(v)], Defaults(i) \cup Copies(m, i))
        copies == {c \in Item : Source[c] = i /\ Parent[c] \in Heirs(m, Parent[i])}
    IN  IF Parent[i] = Root THEN own
        ELSE FoldSet(LAMBDA c, a : CreateRows(a, {c} \cup Copies(CreateRows(a, {c}), c)), own, copies)

-----------------------------------------------------------------------------
(* Removal.  r is a model and whether a ModelManagerException has been raised: the
   request goes no further, and what it has done until then is committed. *)

\* The siblings of an item and all that is below them.
Siblings(m, i) ==
    IF Parent[i] = Root THEN {}
    ELSE Descendants(m, Parent[i]) \ ({i} \cup Descendants(m, i))

(* Mutant: an item that tasks have been run for is taken for one never deployed. *)
CanUndeterminedBeDeleted(m, i) ==
    \A j \in {i} \cup Heirs(m, i) :
        \A k \in {j} \cup Children(m, j) : In(m, k, {"Initial", "Removed"})

\* _can_item_be_deleted
CanItemBeDeleted(m, i) ==
    \A j \in {i} \cup Heirs(m, i) :
        /\ \A k \in {j} \cup Ancestors[j] \cup Siblings(m, j) : m[k].apd
        /\ \A k \in {j} \cup Children(m, j) : In(m, k, {"Initial", "Removed"})

(* Mutant: the items that inherit from the item are not looked at. *)
DeletableWithHeirs(m, i) == \A j \in Children(m, i) : In(m, j, {"Removed"})

\* _delete_removed_item: TRUE if it does not raise
Deletable(m, i) == \A j \in Heirs(m, i) \cup Children(m, i) : In(m, j, {"Removed"})

DeleteRemovedItem(r, i) ==
    IF r.err \/ ~Deletable(r.m, i) THEN [r EXCEPT !.err = TRUE]
    ELSE [r EXCEPT !.m[i] = Absent]

RECURSIVE RemoveItem(_, _)
RECURSIVE RemoveItemRecursive(_, _)

\* The end of _remove_item_recursive: what is to be done with the children that were
\* removed, and with the item itself.
FinishRemoval(r, i) ==
    LET gone == {c \in Children(r.m, i) : In(r.m, c, {"Removed"})}
        now == CanItemBeDeleted(r.m, i)
        rest == FoldSet(LAMBDA c, a : DeleteRemovedItem(a, c), r,
                        IF now THEN gone ELSE gone \ Collection)
        keep == IF now THEN {} ELSE gone \cap Collection
    IN  IF rest.err THEN rest
        ELSE [rest EXCEPT !.m = SetState(SetStateOf(@, keep, "ForRemoval"), i,
                                         IF now THEN "Removed" ELSE "ForRemoval")]

\* _remove_item_recursive
RemoveItemRecursive(r, i) ==
    LET heirs == FoldSet(LAMBDA h, a : RemoveItem(a, h), r, Heirs(r.m, i))
        kids == FoldSet(LAMBDA c, a : RemoveItemRecursive(a, c), heirs, Children(heirs.m, i))
    IN  IF r.err \/ ~Exists(r.m, i) THEN r ELSE FinishRemoval(kids, i)

DeleteIfRemoved(r, i) ==
    IF ~r.err /\ In(r.m, i, {"Removed"}) THEN DeleteRemovedItem(r, i) ELSE r

\* _remove_item
RemoveItem(r, i) == DeleteIfRemoved(RemoveItemRecursive(r, i), i)

-----------------------------------------------------------------------------
(* The end of a plan *)

\* delete_removed_items_after_plan
DeleteRemovedItemsAfterPlan(m) ==
    LET removed == SelectSeq(DeleteOrder, LAMBDA i : In(m, i, {"Removed"}))
        delete(a, i) ==
            IF Deletable(a, i) THEN [a EXCEPT ![i] = Absent]
            ELSE SetStateOf(a, {i} \cup {c \in Children(a, i) : In(a, c, {"Removed"})}, "ForRemoval")
        n == FoldLeft(delete, m, removed)
        restore == {c \in ToSet(removed) \cap Collection : Exists(n, Parent[c])}
    IN  [i \in Item |-> IF i \in restore THEN SetState(m, i, "ForRemoval")[i] ELSE n[i]]

\* set_all_applied
SetAllApplied(m) == SetStateOf(m, {i \in Item : Exists(m, i)}, "Applied")

\* _set_applied_properties_determinable, for the items of tasks that have run
SetDeterminable(m) ==
    [i \in Item |->
        IF ~Exists(m, i) \/ task[i] \in {"none", "initial"} THEN m[i]
        ELSE [m[i] EXCEPT !.apd =
                /\ task[i] = "success"
                /\ ~(m[i].state = "ForRemoval" /\ m[i].prev = "Removed")]]

-----------------------------------------------------------------------------
(* Requests of clients; refused while the plan runs. *)

NoTasks == [i \in Item |-> "none"]
NoTargets == [i \in Item |-> None]

Init ==
    /\ model = [i \in Item |-> Absent]
    /\ plan = "none" /\ task = NoTasks /\ target = NoTargets
    /\ deployed = [i \in Item |-> None]
    /\ saved = NoBackup

\* No plan is left that can be run: there is none, or it is successful, stopped or invalid.
NoPlan == plan' = "none" /\ task' = NoTasks /\ target' = NoTargets

\* model_changed: the plan, created or failed, becomes invalid
ModelChanged == NoPlan

\* What is on the nodes at a path without an item belongs to no item, and has had no task of
\* one that is created there.
LeftBehind ==
    [i \in Item |-> IF deployed[i] = None \/ Exists(model, i) THEN deployed[i] ELSE Left]

Request == plan # "running" /\ deployed' = LeftBehind /\ UNCHANGED saved

\* What a request may give for the property of an item.
Given(i) == IF Source[i] = None THEN Value ELSE IF Overwrites THEN Value \cup {None} ELSE {}

CreateItem(i) ==
    /\ Request
    /\ Source[i] = None /\ MayCreate(model, i)
    /\ \E v \in Given(i) : model' = CreateTree(model, i, v)
    /\ ModelChanged

CreateInherited(i) ==
    /\ Request
    /\ Source[i] # None /\ MayCreate(model, i) /\ SourceReady(model, i)
    /\ \E v \in Given(i) \cup {None} : model' = CreateTree(model, i, v)
    /\ ModelChanged

\* _recover_item_for_removal
Recover(i, props) == CanRecover(model, i) /\ model' = UpdateItem(RecoverDown(model, i), i, props)

\* create_item and create_inherited find an item that is ForRemoval
RecreateItem(i) ==
    /\ Request
    /\ i \notin Collection
    /\ \E props \in {{}} \cup {{v} : v \in Given(i)} : Recover(i, props)
    /\ ModelChanged

\* The same with properties that _update_item refuses: the recovery stays.
RecreateItemFails(i) ==
    /\ BadRecovery
    /\ Request
    /\ i \notin Collection
    /\ CanRecover(model, i)
    /\ model' = RecoverDown(model, i)
    /\ UNCHANGED <<plan, task, target>>

UpdateItemRequest(i) ==
    /\ Request
    /\ Exists(model, i) /\ i \notin Collection
    /\ \E v \in Given(i) :
          IF ForRemoval(model, i) THEN Recover(i, {v}) ELSE model' = UpdateItem(model, i, {v})
    /\ ModelChanged

\* The model after a removal, and the plan unless an exception has kept model_changed from
\* being called.
AfterRemoval(r) == /\ model' = r.m
                   /\ IF r.err THEN UNCHANGED <<plan, task, target>> ELSE ModelChanged

\* remove_item
MayRemove(m, i) == Exists(m, i) /\ i \notin Collection

RemoveItemRequest(i) ==
    /\ Request
    /\ MayRemove(model, i)
    /\ AfterRemoval(RemoveItem([m |-> model, err |-> FALSE], i))

-----------------------------------------------------------------------------
(* Loading of an XML document, which holds items, the top one of which is to be loaded (Root
   if it is the whole model).  It may hold an id twice, an item without the source it
   inherits from, an item with another source than it has in the model (resourced), and
   items of another type than those at the same paths (retyped).  The modes are "load",
   "merge" and "replace". *)

\* _validate_existing: without merge or replace the top item is to be new
TopExists(m, doc, mode) ==
    mode = "load" /\ (doc.top = Root \/ (Exists(m, doc.top) /\ doc.top \notin doc.retyped))

\* _validate_can_merge: an item keeps its type
OtherType(m, doc, mode) == mode = "merge" /\ \E i \in doc.retyped : Exists(m, i)

\* The validations of XmlLoader.load.  (The XSD schema is external.)
DocumentErrors(m, doc, mode) ==
    {e \in {"exists", "not_unique", "no_source_path", "source_path", "type"} :
        \/ e = "exists" /\ TopExists(m, doc, mode)
        \/ e = "not_unique" /\ doc.twice
        \/ e = "no_source_path" /\ doc.unsourced
        \/ e = "source_path" /\ doc.resourced
        \/ e = "type" /\ OtherType(m, doc, mode)}

\* The properties that the document gives: none for an item that inherits
DocumentValue(i, v) == IF Source[i] = None THEN v ELSE None

\* replace_item resets what the document does not give, merge_item and update_item do not
ItemProperties(m, i, v, mode) ==
    IF Source[i] = None THEN {v}
    ELSE IF mode = "replace" /\ m[i].val # None THEN {None} ELSE {}

\* _cascade_delete_path: an item of another type goes at once, with all that is below it
CascadeDelete(m, i) == [j \in Item |-> IF j = i \/ i \in Ancestors[j] THEN Absent ELSE m[j]]

\* create_item and create_inherited.  r is a model and whether there has been an error.
LoadNewItem(r, i, v) ==
    IF MayCreate(r.m, i) /\ SourceReady(r.m, i)
    THEN [r EXCEPT !.m = CreateTree(r.m, i, v)] ELSE [r EXCEPT !.err = TRUE]

\* _update_or_replace_item
LoadExistingItem(r, i, props) ==
    IF ~ForRemoval(r.m, i) THEN [r EXCEPT !.m = UpdateItem(r.m, i, props)]
    ELSE IF CanRecover(r.m, i) THEN [r EXCEPT !.m = UpdateItem(RecoverDown(r.m, i), i, props)]
    ELSE [r EXCEPT !.err = TRUE]

\* _create_item_from_element and _create_inherit_from_element
LoadItem(r, i, v, retyped, mode) ==
    IF r.err \/ i \in Collection THEN r
    ELSE IF ~Exists(r.m, i) THEN LoadNewItem(r, i, v)
    ELSE IF i \in retyped THEN LoadNewItem([r EXCEPT !.m = CascadeDelete(@, i)], i, v)
    ELSE LoadExistingItem(r, i, ItemProperties(r.m, i, v, mode))

\* _load_model: the items of doc, those that inherit last, with value v for the others
LoadModel(m, doc, v, mode) ==
    LET given == SelectSeq(PathOrder, LAMBDA i : i \in doc.items /\ Source[i] = None)
        inherits == SelectSeq(PathOrder, LAMBDA i : i \in doc.items /\ Source[i] # None)
        load(r, i) == LoadItem(r, i, DocumentValue(i, v), doc.retyped, mode)
    IN  FoldLeft(load, [m |-> m, err |-> FALSE], given \o inherits)

\* _removable_vpaths
Removable(m) == {i \in Item \ Collection : Exists(m, i)}

\* _determine_removals: what the document does not hold, children first.  (The paths that
\* begin with the path of top may be those of its siblings.)
Removals(m, doc) ==
    SelectSeq(Reverse(PathOrder), LAMBDA i :
        i \in Removable(m) /\ i \in Branch[doc.top] /\ i \notin doc.items)

\* _remove_missing: an item may have gone with another one
RemoveMissing(m, removals) ==
    FoldLeft(LAMBDA r, i : IF Exists(r.m, i) THEN RemoveItem(r, i) ELSE r,
             [m |-> m, err |-> FALSE], removals)

\* _recheck_inherits
InheritsOk(m, doc) == \A i \in doc.items : Source[i] \notin ToSet(Removals(m, doc))

(* import_xml_item: errors of the load roll everything back; an exception of a removal
   leaves what was done until then. *)
Loaded(r, doc, mode) ==
    /\ ~r.err
    /\ IF mode = "replace"
       THEN InheritsOk(r.m, doc) /\ AfterRemoval(RemoveMissing(r.m, Removals(r.m, doc)))
       ELSE model' = r.m /\ ModelChanged

ImportXml(doc, mode) ==
    /\ Request
    /\ DocumentErrors(model, doc, mode) = {}
    /\ \E v \in Value : Loaded(LoadModel(model, doc, v, mode), doc, mode)

-----------------------------------------------------------------------------
(* Restores *)

(* restore_model: the model of the last successful plan.  The plan is not marked invalid:
   "planned" allows that one has been created; "prepared", a restore from the same
   backup after prepare_restore. *)
RestoreModel ==
    /\ "model" \in Restores
    /\ Request
    /\ saved # NoBackup
    /\ plan = "initial" => "planned" \in Restores
    /\ model' = saved
    /\ UNCHANGED <<plan, task, target>>

\* _set_item_initial
SetItemsInitial(m, S) ==
    [i \in Item |-> IF i \in S /\ Exists(m, i)
                    THEN [SetState(m, i, "Initial")[i] EXCEPT !.app = None, !.apd = TRUE]
                    ELSE m[i]]

\* set_items_to_initial_from
InitialFrom(m, path) == SetItemsInitial(m, Item \ Excluded[path])

(* prepare_restore for "/" (from the backup) or for a node, before they are installed anew
   (external): items become Initial, except those excluded, and the plan goes. *)
PrepareRestore ==
    /\ plan # "running"
    /\ \E path \in {"root", "node"} \cap Restores :
          /\ path = "root" => saved # NoBackup
          /\ model' = InitialFrom(IF path = "root" THEN saved ELSE model, path)
          /\ deployed' = [i \in Item |-> IF i \in Excluded[path] THEN deployed[i] ELSE None]
    /\ NoPlan
    /\ saved' = IF "prepared" \in Restores THEN saved ELSE NoBackup

-----------------------------------------------------------------------------
(* Plans *)

\* Plugins have tasks for the items that are not Applied, the core for those ForRemoval.
HasTasks(i) ==
    \/ ForRemoval(model, i)
    \/ In(model, i, {"Initial", "Updated"}) /\ i \notin Collection

\* A plan without tasks is not created; the old one is gone.
CreatePlan ==
    /\ plan # "running"
    /\ task' = [i \in Item |-> IF HasTasks(i) THEN "initial" ELSE "none"]
    /\ target' = [i \in Item |-> IF HasTasks(i) /\ ~ForRemoval(model, i)
                                 THEN Merged(model, i) ELSE None]
    /\ plan' = IF \E i \in Item : HasTasks(i) THEN "initial" ELSE "none"
    /\ UNCHANGED <<model, deployed, saved>>

\* run_plan: invalidate_restore_model
RunPlan ==
    /\ plan = "initial"
    /\ plan' = "running" /\ saved' = NoBackup
    /\ UNCHANGED <<model, task, target, deployed>>

\* fix_removed_items_on_resume
ResumePlan ==
    /\ plan = "failed"
    /\ plan' = "running" /\ saved' = NoBackup
    /\ model' = SetStateOf(model, {i \in Item : /\ task[i] \in {"partial", "success"}
                                               /\ Exists(model, i)
                                               /\ model[i].prev = "Removed"}, "Removed")
    /\ UNCHANGED <<task, target, deployed>>

\* Tasks on i end; with the last success _update_item_states changes the item.
RunTasks(i) ==
    /\ plan = "running"
    /\ task[i] \in {"initial", "failed", "partial"}
    /\ \E s \in {"failed", "partial", "success"} :
          /\ task[i] = "partial" => s # "failed"
          /\ task' = [task EXCEPT ![i] = s]
          /\ deployed' = [deployed EXCEPT ![i] = IF s = "success" THEN target[i] ELSE Broken]
          /\ model' = CASE s = "success" /\ ForRemoval(model, i) -> SetState(model, i, "Removed")
                        [] s = "success" /\ In(model, i, {"Initial", "Updated"}) ->
                             SetState(model, i, "Applied")
                        [] OTHER -> model
    /\ UNCHANGED <<plan, target, saved>>

AllDone == \A i \in Item : task[i] \in {"none", "success"}

\* run_plan: _clear_plan(True)
PlanSucceeds ==
    /\ plan = "running" /\ AllDone
    /\ model' = SetDeterminable(SetAllApplied(DeleteRemovedItemsAfterPlan(model)))
    /\ NoPlan
    /\ saved' = model'         \* _backup_model_for_restore
    /\ UNCHANGED deployed

\* run_plan: _clear_plan(False), after a failure or a stop
PlanFails ==
    /\ plan = "running" /\ ~AllDone
    /\ \/ "failed" \in PlanFailures /\ \E i \in Item : task[i] \in {"failed", "partial"}
          /\ plan' = "failed" /\ UNCHANGED <<task, target>>
       \/ "stopped" \in PlanFailures /\ NoPlan
    /\ model' = SetDeterminable(DeleteRemovedItemsAfterPlan(model))
    /\ UNCHANGED <<deployed, saved>>

\* The coordinator dies and _fix_plan ends the plan.
PlanDies ==
    /\ "died" \in PlanFailures
    /\ plan = "running"
    /\ IF AllDone THEN NoPlan ELSE plan' = "failed" /\ UNCHANGED <<task, target>>
    /\ model' = SetDeterminable(model)
    /\ UNCHANGED <<deployed, saved>>

Next ==
    \/ \E i \in Item : \/ CreateItem(i) \/ CreateInherited(i) \/ RecreateItem(i)
                       \/ RecreateItemFails(i) \/ UpdateItemRequest(i)
                       \/ RemoveItemRequest(i) \/ RunTasks(i)
    \/ \E doc \in Documents, mode \in {"load", "merge", "replace"} : ImportXml(doc, mode)
    \/ RestoreModel \/ PrepareRestore
    \/ CreatePlan \/ RunPlan \/ ResumePlan \/ PlanSucceeds \/ PlanFails \/ PlanDies

Spec == Init /\ [][Next]_vars

-----------------------------------------------------------------------------
(* Properties *)

\* ModelManager keeps the model consistent: an item exists only while its parent
\* and the item it inherits from exist, whatever fails in requests and plans.
ModelIntact ==
    \A i \in Item : Exists(model, i) =>
        /\ Parent[i] # Root => Exists(model, Parent[i])
        /\ Source[i] # None => Exists(model, Source[i])

\* Applied means that the nodes have the properties of the item, its own and those
\* it inherits, and that applied_properties says so.
AppliedIsDeployed ==
    \A i \in Item \ Collection : In(model, i, {"Applied"}) =>
        deployed[i] = Merged(model, i) /\ model[i].app = deployed[i]

\* _can_item_be_deleted: a request takes an item out of the model at once only if nothing
\* of it is on the nodes, whatever plans that failed, were stopped or died have begun to
\* deploy.  An item that is Removed has had its tasks.
RequestsKeepDeployed ==
    [][plan # "running" =>
          \A i \in Item : Exists(model, i) /\ ~Exists(model', i) /\ ~In(model, i, {"Removed"}) =>
              deployed[i] \in {None, Left}]_vars

\* What is below an item that is to be removed is to be removed too.
RemovalCoversSubtree ==
    \A i \in Item : Exists(model, i) /\ Parent[i] # Root =>
        (ForRemoval(model, Parent[i]) => In(model, i, {"ForRemoval", "Removed"}))
=============================================================================
