---------------------------- MODULE MCIsoImport ----------------------------
(***************************************************************************)
(* ISO images for model checking IsoImport: two that can be imported, one  *)
(* with images and packages and one with packages only, and those that are *)
(* refused.                                                                *)
(***************************************************************************)
EXTENDS IsoImport, TLC

Picture(dir, image, md5) == [dir |-> dir, image |-> image, md5 |-> md5]
Rpms(f) == f @@ [s \in Source |-> [kind |-> "absent", empty |-> FALSE]]
Full == [kind |-> "directory", empty |-> FALSE]

Application == [path |-> "directory", images |-> "directory",
                picture |-> [i1 |-> Picture("sub", "file", "file"), i2 |-> Picture("deep", "file", "absent")],
                repos |-> "absent", rpms |-> Rpms("plugins" :> Full)]
Product == [path |-> "directory", images |-> "absent", picture |-> << >>, repos |-> "directory",
            rpms |-> Rpms("repos/child" :> Full @@ "repos/child/grandchild" :> Full)]

Refused ==
    {[Application EXCEPT !.picture = [i1 |-> p]] :
        p \in {Picture("images", "file", "file"), Picture("sub", "absent", "file"),
               Picture("sub", "directory", "file"), Picture("sub", "file", "empty")}} \cup
    {[Product EXCEPT !.rpms = Rpms("3pp" :> Full)],
     [Product EXCEPT !.rpms = Rpms("plugins" :> [Full EXCEPT !.kind = "file"])],
     [Product EXCEPT !.rpms = Rpms("repos/child" :> [Full EXCEPT !.empty = TRUE])],
     [Product EXCEPT !.rpms = Rpms("plugins" :> Full @@ "plugins/child" :> Full)],
     [Product EXCEPT !.rpms = Rpms(<< >>)], [Product EXCEPT !.repos = "file"],
     [Application EXCEPT !.images = "file"], [Application EXCEPT !.path = "relative"]}

SomeIsos == {Application, Product} \cup Refused

=============================================================================
