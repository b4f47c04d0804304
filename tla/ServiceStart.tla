---------------------------- MODULE ServiceStart ----------------------------
(***************************************************************************)
(* How litpd starts: litpd.sh brings the database schema and the default   *)
(* model up to date, then run_service registers the item types of the      *)
(* installed extensions, repairs the plan, migrates the model to the       *)
(* installed versions and records those versions.  Two of these steps      *)
(* commit, and the process can die or exit at any of them.  restore_model  *)
(* migrates a second time: the model of the last successful plan, from the *)
(* versions recorded with it.                                              *)
(***************************************************************************)
EXTENDS Extensions, Sequences, FiniteSets, SequencesExt

CONSTANTS
    MaxInstalls,  \* bound on the package changes of a behaviour
    MaxChanged,   \* bound on the items that have another value than at first
    Faults        \* the events left out of the runs: see Install and RestoreModel

Absent == [type |-> "absent"]
Raised == << >>
NotInstalled == 0

ASSUME VersionsAssumption == \A e \in Extension : Versions[e] \subseteq Nat \ {0}
\* Sorting migrations of two extensions with the same version could give either order.
ASSUME OrderAssumption ==
    \A e, f \in Extension : \A m \in Migrations[e], n \in Migrations[f] :
        m.version = n.version => m = n

VARIABLES
    installed,  \* the extension packages on disk
    pc,         \* where litpd.sh and run_service are
    loaded,     \* the extensions whose types the process has registered
    db,         \* what is committed
    sess,       \* the live model and the plan as the starting service has changed them
    wanted,     \* what users last asked each item's property to be
    backedUp,   \* wanted, when the last successful plan was backed up
    installs    \* package changes so far

vars == <<installed, pc, loaded, db, sess, wanted, backedUp, installs>>

-----------------------------------------------------------------------------
(* Item types *)

Unregistered == [e \in Extension |-> NotInstalled]
Registering(e, inst) == IF inst[e] = NotInstalled THEN {} ELSE TypesOf(e, inst[e])
ItemTypes(inst) == UNION {Registering(e, inst) : e \in Extension}

\* ensure_unique_item_types, and the base type of every type registered before it.
CanRegister(inst) ==
    /\ \A e, f \in Extension : e # f => Registering(e, inst) \cap Registering(f, inst) = {}
    /\ {Extends[t] : t \in ItemTypes(inst)} \subseteq ItemTypes(inst) \cup {None}

AllSupertypes[t \in DOMAIN Extends] ==
    IF Extends[t] = None THEN {} ELSE {Extends[t]} \cup AllSupertypes[Extends[t]]

\* The structure of a registered type: its own and what its base types have.
Structure(t, inst) ==
    LET of(s) == LET e == CHOOSE f \in Extension : s \in Registering(f, inst)
                 IN  Definition(e, inst[e], s)
        all == {t} \cup AllSupertypes[t]
    IN  [props |-> [p \in UNION {DOMAIN of(s).props : s \in all} |->
                          of(CHOOSE s \in all : p \in DOMAIN of(s).props).props[p]],
             colls |-> [c \in UNION {DOMAIN of(s).colls : s \in all} |->
                          of(CHOOSE s \in all : c \in DOMAIN of(s).colls).colls[c]]]

-----------------------------------------------------------------------------
(* The model *)

NoItems == [i \in Item |-> Absent]
Present(items) == {i \in Item : items[i] # Absent}
NoPlan == [exts |-> Unregistered]
NoModel == [items |-> NoItems, exts |-> Unregistered]
ModelExists(m) == m.items # NoItems

AllVersions == {inst \in [Extension -> UNION {Versions[e] \cup {NotInstalled} : e \in Extension}] :
                  \A e \in Extension : inst[e] \in Versions[e] \cup {NotInstalled}}

(* An item as extensions of these versions create it: the type its extension gives it,
   the defaults of the type's properties, its collections, and the value its user wants,
   under the name and in the form the version has for it. *)
NewItem(k, v, structure, w) ==
    LET default == [p \in {q \in DOMAIN structure.props : structure.props[q] # None} |->
                       structure.props[p]]
    IN  [type  |-> k.types[v],
         props |-> IF k.names[v] = None THEN default
                   ELSE k.names[v] :> k.written[v][w] @@ default,
         colls |-> structure.colls]

\* The union with the empty function makes TLC compute the table once.
Started == {inst \in AllVersions : CanRegister(inst)}
Fresh ==
    [x \in {y \in Started \X Item \X Value : y[1][Kind[y[2]].ext] # NotInstalled} |->
        LET k == Kind[x[2]]
            v == x[1][k.ext]
        IN  NewItem(k, v, Structure(k.types[v], x[1]), x[3])] @@ << >>

\* check_item_exists and the checks of the item type: the collection an item goes to is
\* there, and of a type the item's type is or extends.
MayCreate(items, i, inst) ==
    /\ items[i] = Absent
    /\ inst[Kind[i].ext] # NotInstalled
    /\ Where[i] # << >> =>
           LET parent == items[Where[i][1]]
               type == Kind[i].types[inst[Kind[i].ext]]
           IN  /\ parent # Absent
               /\ Where[i][2] \in DOMAIN parent.colls
               /\ parent.colls[Where[i][2]] \in {type} \cup AllSupertypes[type]

\* The items after those of a sequence have been created; what may not be created is
\* left out.
Create(items, s, inst, w) ==
    LET after[n \in 0..Len(s)] ==
            IF n = 0 THEN items
            ELSE LET before == after[n - 1]
                 IN  IF MayCreate(before, s[n], inst)
                     THEN [before EXCEPT ![s[n]] = Fresh[inst, s[n], w[s[n]]]]
                     ELSE before
    IN  after[Len(s)]

\* The model is what users want, as the given versions write it.
IsFresh(items, inst, w) ==
    \A i \in Present(items) : inst[Kind[i].ext] # NotInstalled /\ items[i] = Fresh[inst, i, w[i]]

-----------------------------------------------------------------------------
(* Migration operations *)

FindModelItems(items, t) ==
    {i \in Present(items) : t \in {items[i].type} \cup AllSupertypes[items[i].type]}

\* f without an argument.
Without(f, x) == [y \in DOMAIN f \ {x} |-> f[y]]

SetProperty(items, t, p, v) ==
    [i \in Item |-> IF i \in FindModelItems(items, t)
                    THEN [items[i] EXCEPT !.props = IF v = None THEN Without(@, p) ELSE p :> v @@ @]
                    ELSE items[i]]

RenameProperty(items, t, old, new) ==
    [i \in Item |-> IF i \in FindModelItems(items, t) /\ old \in DOMAIN items[i].props
                    THEN [items[i] EXCEPT !.props = new :> @[old] @@ Without(@, old)]
                    ELSE items[i]]

RenameItemType(items, old, new) ==
    [i \in Item |-> IF i \in FindModelItems(items, old)
                    THEN [items[i] EXCEPT !.type = new] ELSE items[i]]

AddCollection(items, t, c, of) ==
    [i \in Item |-> IF i \in FindModelItems(items, t)
                    THEN [items[i] EXCEPT !.colls = c :> of @@ @] ELSE items[i]]

\* A collection that holds items only goes to a type its old type extends.
UpdateCollectionType(items, o, to) ==
    LET Empty(i) == \A j \in Present(items) : Where[j] # <<i, o.name>>
    IN  [i \in Item |-> IF /\ i \in FindModelItems(items, o.type)
                           /\ o.name \in DOMAIN items[i].colls
                           /\ Empty(i) \/ o.new \in AllSupertypes[o.old]
                        THEN [items[i] EXCEPT !.colls[o.name] = to] ELSE items[i]]

\* Networks without a prefix get the one of their class.
NetworkPrefix(items, o) ==
    [i \in Item |-> IF i \in FindModelItems(items, o.type) /\ o.name \in DOMAIN items[i].props
                    THEN [items[i] EXCEPT !.props[o.name] = o.prefixed[@]] ELSE items[i]]

MutateForward(items, o) ==
    CASE o.op = "AddProperty"          -> SetProperty(items, o.type, o.name, o.value)
      [] o.op = "RemoveProperty"       -> SetProperty(items, o.type, o.name, None)
      [] o.op = "RenameProperty"       -> RenameProperty(items, o.type, o.old, o.new)
      [] o.op = "RenameItemType"       -> RenameItemType(items, o.old, o.new)
      [] o.op = "AddCollection"        -> AddCollection(items, o.type, o.name, o.of)
      [] o.op = "UpdateCollectionType" -> UpdateCollectionType(items, o, o.new)
      [] o.op = "NetworkPrefix"        -> NetworkPrefix(items, o)

MutateBackward(items, o) ==
    CASE o.op = "AddProperty"          -> SetProperty(items, o.type, o.name, None)
      [] o.op = "RemoveProperty"       -> SetProperty(items, o.type, o.name, o.value)
      [] o.op = "RenameProperty"       -> RenameProperty(items, o.type, o.new, o.old)
      [] o.op = "RenameItemType"       -> RenameItemType(items, o.new, o.old)
      [] o.op = "UpdateCollectionType" -> UpdateCollectionType(items, o, o.old)
      [] OTHER                         -> items

\* What makes an operation raise: a type or a property that is not registered.
Raises(items, o, inst, direction) ==
    LET from == IF direction = "forwards" THEN "old" ELSE "new"
    IN  CASE o.op = "RenameProperty" -> \E i \in FindModelItems(items, o.type) :
                                            o[from] \notin DOMAIN Structure(items[i].type, inst).props
          [] o.op \in {"AddProperty", "RemoveProperty"} ->
                 /\ (direction = "backwards") = (o.op = "AddProperty")
                 /\ o.type \notin ItemTypes(inst)
          [] o.op = "RenameItemType" ->
                 \/ o.new \notin ItemTypes(inst)
                 \/ direction = "backwards" /\ o.old \notin ItemTypes(inst)
                    /\ FindModelItems(items, o.new) # {}
          [] o.op = "AddCollection" -> direction = "forwards" /\ o.of \notin ItemTypes(inst)
          [] o.op = "UpdateCollectionType" ->
                 /\ \E i \in FindModelItems(items, o.type) : o.name \in DOMAIN items[i].colls
                 /\ ~({o.old, o.new} \subseteq ItemTypes(inst))
          [] OTHER -> FALSE

-----------------------------------------------------------------------------
(* Migrator *)

\* get_persisted_extensions: nothing persisted yet counts as nothing to migrate.
CurrentExtensions(m, disk) == IF m.exts = Unregistered THEN disk ELSE m.exts

Direction(from, to, v) == IF from = NotInstalled \/ to = NotInstalled THEN None
                          ELSE IF from < v /\ v <= to THEN "forwards"
                          ELSE IF to < v /\ v <= from THEN "backwards" ELSE None

\* The migrations on disk that apply when the extensions go from some versions to those
\* on disk.
MigrationRequired(from, disk, direction) ==
    UNION {{m \in Migrations[e] : /\ disk[e] # NotInstalled
                                  /\ m.version \in Shipped[e][disk[e]]
                                  /\ Direction(from[e], disk[e], m.version) = direction}
              : e \in Extension}

Sorted(ms, Before(_, _)) ==
    [k \in 1..Cardinality(ms) |->
        CHOOSE m \in ms : Cardinality({n \in ms : Before(n, m)}) = k - 1]

\* Forwards they are sorted; backwards they come in the reverse of the order of the
\* directory, whatever that is.
\* Mutant: forwards, too, in the reverse of an order.
ForwardMigrationsUnsorted(from, disk) ==
    Sorted(MigrationRequired(from, disk, "forwards"), LAMBDA m, n : m.version > n.version)
ForwardMigrations(from, disk) ==
    Sorted(MigrationRequired(from, disk, "forwards"), LAMBDA m, n : m.version < n.version)
BackwardMigrations(from, disk) == SetToSeqs(MigrationRequired(from, disk, "backwards"))

\* The operations of migrations, in the order they run in: each migration runs its own
\* in the order they are written in, backwards too.
Operations(ms, direction) ==
    LET ops[n \in 0..Len(ms)] ==
            IF n = 0 THEN << >>
            ELSE ops[n - 1] \o [k \in 1..Len(ms[n].operations) |->
                                  [direction |-> direction, o |-> ms[n].operations[k]]]
    IN  ops[Len(ms)]

\* The items after some operations, or Raised once one of them raised.
Mutated(items, ops, inst) ==
    LET after[n \in 0..Len(ops)] ==
            IF n = 0 THEN items
            ELSE LET is == after[n - 1]
                     s == ops[n]
                 IN  IF is = Raised \/ Raises(is, s.o, inst, s.direction) THEN Raised
                     ELSE IF s.direction = "forwards" THEN MutateForward(is, s.o)
                     ELSE MutateBackward(is, s.o)
    IN  after[Len(ops)]

\* What _apply_migrations can make of the items; inst is what the process registered.
Migrated(items, from, disk, inst) ==
    LET f == Operations(ForwardMigrations(from, disk), "forwards")
        B == {Operations(ms, "backwards") : ms \in BackwardMigrations(from, disk)}
        orders == {f \o b : b \in B} \cup {b \o f : b \in B}
    IN  {Mutated(items, ops, inst) : ops \in orders}

-----------------------------------------------------------------------------
(* Packages *)

(* Packages are installed by yum, whether litpd runs or not.  Left out, as faults: a
   change while litpd starts, which registers types from one version and migrates to
   another; a newer package between the creation of the default model and the first
   start; any but a newer version once a start that failed has migrated the model. *)
MayChangePackages == /\ installs < MaxInstalls
                     /\ pc \in {"down", "up"} \/ "while_starting" \in Faults

Install(e, v) ==
    /\ MayChangePackages
    /\ v \in Versions[e] /\ v # installed[e]
    /\ \/ v > installed[e] /\ v > db.live.exts[e]
       \/ v = db.live.exts[e]
       \/ <<e, installed[e], v>> \in Downgrades
    /\ \/ ~ModelExists(db.live) \/ db.live.exts # Unregistered
       \/ "before_first_start" \in Faults
    /\ v < installed[e] \/ v <= db.live.exts[e] =>
           IsFresh(db.live.items, db.live.exts, wanted) \/ "put_back" \in Faults
    /\ installed' = [installed EXCEPT ![e] = v]
    /\ installs' = installs + 1
    /\ UNCHANGED <<pc, loaded, db, sess, wanted, backedUp>>

Uninstall(e) ==
    /\ MayChangePackages
    /\ installed[e] # NotInstalled
    /\ ModelExists(db.live) => db.live.exts # Unregistered
    /\ installed' = [installed EXCEPT ![e] = NotInstalled]
    /\ installs' = installs + 1
    /\ UNCHANGED <<pc, loaded, db, sess, wanted, backedUp>>

-----------------------------------------------------------------------------
(* litpd.sh *)

NoSession == << >>
Committed(session) == [db EXCEPT !.live = session.live, !.plan = session.plan]

At(here, there) == pc = here /\ pc' = there

\* The process is gone, and what its session had not committed.
Exit == /\ pc' = "down"
        /\ sess' = NoSession
        /\ loaded' = Unregistered
        /\ UNCHANGED <<installed, db, wanted, backedUp, installs>>

\* __acquire_startup_lock: nothing is running.
Start == /\ At("down", "schema")
         /\ UNCHANGED <<installed, loaded, db, sess, wanted, backedUp, installs>>

\* __autoupgrade: an empty database gets the tables, an old one is upgraded.
AutoUpgrade == /\ At("schema", "model")
               /\ db' = [db EXCEPT !.schema = "head"]
               /\ UNCHANGED <<installed, loaded, sess, wanted, backedUp, installs>>

\* __automodel: dbop registers the types, and creates the default model if there is none.
CanCreateModel == /\ CanRegister(installed)
                  /\ ModelExists(db.live) \/ MayCreate(NoItems, Head(RootItems), installed)

AutoModel == /\ At("model", "types")
             /\ CanCreateModel
             /\ db' = IF ModelExists(db.live) THEN db
                      ELSE [db EXCEPT !.live.items = Create(NoItems, RootItems, installed, wanted)]
             /\ UNCHANGED <<installed, loaded, sess, wanted, backedUp, installs>>

-----------------------------------------------------------------------------
(* run_service *)

RegisterTypes == /\ At("types", "plan")
                 /\ CanRegister(installed)
                 /\ loaded' = installed
                 /\ sess' = [live |-> db.live, plan |-> db.plan]
                 /\ UNCHANGED <<installed, db, wanted, backedUp, installs>>

CannotRegister == /\ pc \in {"model", "types"}
                  /\ ~(IF pc = "model" THEN CanCreateModel ELSE CanRegister(installed))
                  /\ Exit

(* A plan that has not run yet is invalid once the extensions are others than the ones
   recorded. *)
PlanInvalid(exts) == exts # loaded

FixPlan == /\ At("plan", "check")
           /\ sess' = IF PlanInvalid(sess.live.exts) THEN [sess EXCEPT !.plan = NoPlan] ELSE sess
           /\ UNCHANGED <<installed, loaded, db, wanted, backedUp, installs>>

\* Every type in the model and in its backups is registered, and there is a model.
ItemTypesKnown == /\ \A m \in {sess.live, db.lsp} : \A i \in Present(m.items) :
                         m.items[i].type \in ItemTypes(loaded)
                  /\ ModelExists(sess.live)

CheckModelItemTypes == /\ At("check", "items")
                       /\ ItemTypesKnown
                       /\ UNCHANGED <<installed, loaded, db, sess, wanted, backedUp, installs>>

UnknownItemType == /\ pc = "check"
                   /\ ~ItemTypesKnown
                   /\ Exit

\* The items of /litp; initialize_maintenance then needs one of them.
WithLitpItems == Create(sess.live.items, LitpItems, loaded, wanted)
HasLitpItems(items) == Range(LitpItems) \subseteq Present(items)

CreateLitpItems == /\ At("items", "migrate")
                   /\ HasLitpItems(WithLitpItems)
                   /\ sess' = [sess EXCEPT !.live.items = WithLitpItems]
                   /\ UNCHANGED <<installed, loaded, db, wanted, backedUp, installs>>

CannotCreateLitpItems == /\ pc = "items"
                         /\ ~HasLitpItems(WithLitpItems)
                         /\ Exit

\* What the migrations make of the session's model: they are between what is recorded
\* and what is on disk.
Upgraded == Migrated(sess.live.items, CurrentExtensions(sess.live, installed), installed, loaded)

\* The migrated model is committed; it still has the old versions recorded.
ApplyMigrations == /\ At("migrate", "update")
                   /\ \E items \in Upgraded \ {Raised} :
                          sess' = [sess EXCEPT !.live.items = items]
                   /\ db' = Committed(sess')
                   /\ UNCHANGED <<installed, loaded, wanted, backedUp, installs>>

\* Mutant: an operation that raises is not rolled back.
MigrationsRaiseKept == /\ pc = "migrate"
                       /\ Raised \in Upgraded
                       /\ pc' = "down"
                       /\ \E m \in MigrationRequired(CurrentExtensions(sess.live, installed),
                                                     installed, "forwards") :
                              db' = [db EXCEPT !.live.items =
                                        MutateForward(sess.live.items, m.operations[1])]
                       /\ sess' = NoSession
                       /\ loaded' = Unregistered
                       /\ UNCHANGED <<installed, wanted, backedUp, installs>>
\* An operation that raises rolls the session back and ends the start.
MigrationsRaise == /\ pc = "migrate"
                   /\ Raised \in Upgraded
                   /\ Exit

UpdatePlugins == /\ At("update", "commit")
                 /\ sess' = [sess EXCEPT !.live.exts = loaded]
                 /\ UNCHANGED <<installed, loaded, db, wanted, backedUp, installs>>

\* What is left can only fail: the XML schema is read and the log files are opened.
Commit == /\ At("commit", "up")
          /\ db' = Committed(sess)
          /\ sess' = NoSession
          /\ UNCHANGED <<installed, loaded, wanted, backedUp, installs>>

\* litpd is stopped, dies, or exits because one of its steps fails.
Stop == pc # "down" /\ Exit

-----------------------------------------------------------------------------
(* The running service *)

\* A request commits when it ends.
Serve(d, w, b) == /\ db' = d
                  /\ wanted' = w
                  /\ backedUp' = b
                  /\ UNCHANGED <<installed, pc, loaded, sess, installs>>

CreateItems(s) ==
    /\ Range(s) \cap Present(db.live.items) = {}
    /\ Serve([db EXCEPT !.live.items = Create(@, s, loaded, wanted), !.plan = NoPlan],
             wanted, backedUp)

FirstValue == CHOOSE v \in Value : TRUE

UpdateItem(i, v) ==
    LET k == Kind[i]
        at == loaded[k.ext]
    IN  /\ i \in Present(db.live.items)
        /\ v # wanted[i]
        /\ k.names[at] # None
        /\ Cardinality({j \in Item \ {i} : wanted[j] # FirstValue}) < MaxChanged
        /\ Serve([db EXCEPT !.live.items[i].props[k.names[at]] = k.written[at][v],
                            !.plan = NoPlan],
                 [wanted EXCEPT ![i] = v], backedUp)

CreatePlan == Serve([db EXCEPT !.plan = [exts |-> loaded]], wanted, backedUp)

\* The model and the versions recorded are backed up after a plan.
SuccessfulPlan == /\ db.plan # NoPlan
                  /\ Serve([db EXCEPT !.lsp = db.live, !.plan = NoPlan], wanted, wanted)

\* get_restore_model_extension_version
RestoredExtensions == [e \in Extension |-> IF db.lsp.exts[e] # NotInstalled
                                           THEN db.lsp.exts[e] ELSE db.live.exts[e]]

\* The backup replaces the live model but for the log level.
Restored == [db.lsp.items EXCEPT ![Logging].props =
                [@ EXCEPT ![Kind[Logging].names[loaded[Kind[Logging].ext]]] =
                    db.live.items[Logging].props[Kind[Logging].names[loaded[Kind[Logging].ext]]]]]

(* restore_model reads the versions and the migrations from the disk again: with packages
   that the service has not been restarted for, a fault here, the model is migrated to
   types the service does not have. *)
RestoreModel ==
    /\ ModelExists(db.lsp)
    /\ installed = loaded \/ "restore_before_restart" \in Faults
    /\ \E items \in Migrated(Restored, RestoredExtensions, installed, loaded) \ {Raised} :
           Serve([db EXCEPT !.live.items = items],
                 [backedUp EXCEPT ![Logging] = wanted[Logging]], backedUp)

-----------------------------------------------------------------------------
Init == /\ installed \in AllVersions
        /\ pc = "down"
        /\ loaded = Unregistered
        /\ \E schema \in {"none", "old"} :
               db = [schema |-> schema, live |-> NoModel, lsp |-> NoModel, plan |-> NoPlan]
        /\ sess = NoSession
        /\ wanted = [i \in Item |-> FirstValue]
        /\ backedUp = wanted
        /\ installs = 0

Package == \E e \in Extension : Uninstall(e) \/ \E v \in Versions[e] : Install(e, v)

Starting == \/ Start \/ AutoUpgrade \/ AutoModel \/ RegisterTypes \/ CannotRegister
            \/ FixPlan \/ CheckModelItemTypes \/ UnknownItemType
            \/ CreateLitpItems \/ CannotCreateLitpItems
            \/ ApplyMigrations \/ MigrationsRaise \/ UpdatePlugins \/ Commit

Request == /\ pc = "up"
           /\ \/ \E s \in UserItems : CreateItems(s)
              \/ \E i \in Item, v \in Value : UpdateItem(i, v)
              \/ CreatePlan \/ SuccessfulPlan \/ RestoreModel

Next == Package \/ Starting \/ Stop \/ Request

Spec == Init /\ [][Next]_vars

-----------------------------------------------------------------------------
(* Properties *)

(* Whatever upgrades, failed starts and restores went before: once litpd answers, the
   versions recorded are those whose types it has registered, the items of /litp are
   there, and every item is exactly what creating it with these versions and the value
   its user last asked for would give. *)
StartedModelCurrent ==
    pc = "up" => /\ db.live.exts = loaded
                 /\ HasLitpItems(db.live.items)
                 /\ IsFresh(db.live.items, loaded, wanted)

(* A start that fails or dies never leaves a model that is migrated in part: what litpd
   finds committed when it is next started is, as a whole, the model of one set of
   versions, and the backup is the model of the versions recorded with it. *)
CommittedModelWhole ==
    pc = "down" =>
        /\ \E inst \in Started : IsFresh(db.live.items, inst, wanted)
        /\ ModelExists(db.lsp) => IsFresh(db.lsp.items, db.lsp.exts, backedUp)
=============================================================================
