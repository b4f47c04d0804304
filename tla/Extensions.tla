----------------------------- MODULE Extensions -----------------------------
(***************************************************************************)
(* The extensions and the items of ServiceStart: the core extension as it  *)
(* is, and an extension "app" whose migrations use the operations that the *)
(* core's do not.  Version 102 no longer has the property that its         *)
(* migration renames; 103 puts this right and renames the item type; 104   *)
(* adds a property and can be taken back.                                  *)
(***************************************************************************)
EXTENDS CoreExtension

CONSTANT Core  \* the versions of the core extension that there are packages of

None == "None"

\* The extensions, and the versions there are packages of.
Extension == {"core", "app"}
Versions == [core |-> Core, app |-> 101..104]

AppType(t, v) ==
    CASE v = 101                -> Type("a" :> None, << >>)
      [] v = 102                -> Type("b" :> None @@ "c" :> "d", << >>)
      [] v >= 103 /\ t = "app"  -> Type("a" :> None @@ "b" :> None @@ "c" :> "d", << >>)
      [] v = 103 /\ t = "app2"  -> Type("b" :> None @@ "c" :> "d", << >>)
      [] v = 104 /\ t = "app2"  -> Type("b" :> None @@ "c" :> "d" @@ "e" :> "f", << >>)
\* The item types that an extension defines, and the structure it gives one of them.
TypesOf(e, v) == IF e = "core" THEN CoreTypes ELSE IF v >= 103 THEN {"app", "app2"} ELSE {"app"}
Definition(e, v, t) == IF e = "core" THEN CoreType(t, v) ELSE AppType(t, v)
\* The type that a type extends, or None.
Extends == CoreExtends @@ "app" :> "software-item" @@ "app2" :> "software-item"

Prefixed == "x" :> "x/8" @@ "y" :> "y/8" @@ "x/8" :> "x/8" @@ "y/8" :> "y/8"
Migrations ==
    [core |-> CoreMigrations(Prefixed),
     app  |-> {Migration(102, <<AddProperty("app", "c", "d"),
                                [op |-> "RenameProperty", type |-> "app", old |-> "a", new |-> "b"]>>),
               Migration(103, <<[op |-> "RenameItemType", old |-> "app", new |-> "app2"]>>),
               Migration(104, <<AddProperty("app2", "e", "f")>>)}]
\* The versions of the migrations on disk with e at v.
Shipped == [core |-> [v \in CoreVersions |-> 1..v],
            app  |-> [v \in 101..104 |-> IF v >= 103 THEN 101..104 ELSE 101..v]]
\* <<e, from, to>>: packages that may be put back on purpose.
Downgrades == {<<"app", 104, 103>>}

\* What users set properties to, and how a version writes it.
Value == {"x", "y"}
Same == [v \in Value |-> v]
\* An item of the core that users do not change.
CoreItem(t) == [ext |-> "core", types |-> [v \in CoreVersions |-> t],
                names |-> [v \in CoreVersions |-> None], written |-> [v \in CoreVersions |-> Same]]
\* The extension of an item, and at each version its type, the property its user sets
\* (or None) and how that is written.
Kind ==
    [i \in {"root", "software", "ms", "infrastructure", "networking", "storage", "restore",
            "prepare-restore", "import-iso", "sshd-config", "maintenance", "deployment", "cluster",
            "node", "disk", "clustered-service", "ha-service-config"} |-> CoreItem(i)]
    @@ "logging" :> [CoreItem("logging") EXCEPT !.names = [v \in CoreVersions |-> "force_debug"]]
    @@ "network" :> [CoreItem("network") EXCEPT
                        !.names = [v \in CoreVersions |-> "subnet"],
                        !.written = [v \in CoreVersions |->
                            IF v >= 4 THEN [w \in Value |-> Prefixed[w]] ELSE Same]]
    @@ "app" :> [ext |-> "app", types |-> [v \in 101..104 |-> IF v >= 103 THEN "app2" ELSE "app"],
                 names |-> [v \in 101..104 |-> IF v = 101 THEN "a" ELSE "b"],
                 written |-> [v \in 101..104 |-> Same]]
Item == DOMAIN Kind
\* The item and the collection an item goes to; << >> for the children of the root item,
\* and where the place of an item makes no difference.
Where ==
    [i \in {"logging", "restore", "prepare-restore", "import-iso", "maintenance"} |-> <<"root", "litp">>]
    @@ "sshd-config" :> <<"ms", "configs">> @@ "network" :> <<"networking", "networks">>
    @@ "deployment" :> <<"root", "deployments">> @@ "cluster" :> <<"deployment", "clusters">>
    @@ "node" :> <<"cluster", "nodes">> @@ "clustered-service" :> <<"cluster", "services">>
    @@ "app" :> <<"software", "items">> @@ [i \in Item |-> << >>]
\* The items of the default model and those of /litp, in the order they are created; the
\* one whose value a restore keeps; the items that users create together.
RootItems == <<"root", "ms", "software", "infrastructure", "networking", "storage">>
LitpItems == <<"logging", "restore", "prepare-restore", "import-iso", "sshd-config", "maintenance">>
Logging == "logging"
UserItems == {<<"app">>, <<"network", "deployment", "cluster", "node", "disk",
                           "clustered-service", "ha-service-config">>}
=============================================================================
