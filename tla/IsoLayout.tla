----------------------------- MODULE IsoLayout -----------------------------
(***************************************************************************)
(* What is on an ISO image, as IsoParser understands it: the errors that   *)
(* refuse an import and the actions that the importer carries out; and     *)
(* how the answers of MCollective agents to a command become errors.       *)
(*                                                                         *)
(* An ISO is a record of                                                   *)
(*   path    what its path is: "directory", "file", "absent", "relative"   *)
(*   images  what <path>/images is                                         *)
(*   picture the image files in it: image -> [dir, image, md5], where the  *)
(*           image and its .md5 are "absent", "file", "empty" or, for the  *)
(*           image, "directory", and dir is how deep it is under images    *)
(*   repos   what <path>/repos is                                          *)
(*   rpms    source -> [kind, empty], for the directories of packages; in  *)
(*           an empty one an .rpm or the comps.xml has no content          *)
(***************************************************************************)
EXTENDS Integers, Sequences, FiniteSets, SequencesExt

-----------------------------------------------------------------------------
(* Repositories *)

\* The directories that may hold packages: those of LITP, of third parties, of plugins,
\* and of applications.
Source == {"plugins", "3pp", "plugins/child", "repos/child", "repos/child/grandchild"}

\* The repository that the packages of a directory are for.
Repository(s) ==
    CASE s = "plugins" -> "litp"
      [] s = "3pp" -> "3pp_rhel"
      [] s = "plugins/child" -> "litp_plugins"
      [] s = "repos/child" -> "child_rhel"
      [] s = "repos/child/grandchild" -> "child_grandchild_rhel"

\* _validate_yum_repos: directories only, further down.
Found(iso) ==
    {s \in Source :
        /\ iso.rpms[s].kind \in (IF s \in {"plugins", "3pp"} THEN {"file", "directory"}
                                 ELSE {"directory"})
        /\ s = "plugins/child" => iso.rpms["plugins"].kind = "directory"
        /\ s \in {"repos/child", "repos/child/grandchild"} => iso.repos = "directory"
        /\ s = "repos/child/grandchild" => iso.rpms["repos/child"].kind = "directory"}

\* _check_repo: profiles are the repositories of os-profiles (RepoPathChecker), files
\* the destinations that exist and are not directories.
RepoErrors(iso, s, profiles, files) ==
    {e \in {"source", "empty", "destination", "profile"} :
        \/ e = "source" /\ iso.rpms[s].kind = "file"
        \/ e = "empty" /\ iso.rpms[s].kind = "directory" /\ iso.rpms[s].empty
        \/ e = "destination" /\ Repository(s) \in files
        \/ e = "profile" /\ Repository(s) \in profiles}

Action(verb, on) == [verb |-> verb, on |-> on]
RepoActions(iso, s) ==
    IF s \in Found(iso)
    THEN << Action("RSYNC_RPMS", Repository(s)), Action("CREATE_REPO", Repository(s)) >> ELSE <<>>
CleanYumCache(iso) == IF Found(iso) = {} THEN <<>> ELSE << Action("CLEAN_YUM_CACHE", "all") >>

\* The directories are looked at in this order.
YumActions(iso) ==
    RepoActions(iso, "plugins") \o RepoActions(iso, "3pp") \o RepoActions(iso, "plugins/child")
    \o RepoActions(iso, "repos/child") \o RepoActions(iso, "repos/child/grandchild")
    \o CleanYumCache(iso)

-----------------------------------------------------------------------------
(* Images *)

Pictures(iso) == IF iso.images = "directory" THEN DOMAIN iso.picture ELSE {}
WithMd5(iso) ==
    {i \in Pictures(iso) : iso.picture[i].md5 # "absent" /\ iso.picture[i].image \in {"file", "empty"}}
WithoutMd5(iso) ==
    {i \in Pictures(iso) : iso.picture[i].md5 = "absent" /\ iso.picture[i].image \in {"file", "empty"}}

\* _check_images, and the files directly under images, which may hold directories only
PictureErrors(p) ==
    {e \in {"loose", "empty", "no_image", "not_a_file"} :
        \/ e = "loose" /\ p.dir = "images"
        \/ e = "empty" /\ (p.md5 = "empty" \/ p.image = "empty")
        \/ e = "no_image" /\ p.md5 # "absent" /\ p.image = "absent"
        \/ e = "not_a_file" /\ p.md5 # "absent" /\ p.image = "directory"}

Verb(verb, S) == [k \in 1 .. Cardinality(S) |-> Action(verb, SetToSeq(S)[k])]
RsyncImages(iso) ==
    IF iso.images = "absent" THEN <<>> ELSE << Action("RSYNC_IMAGES", "all") >>

\* _validate_images: every image is checked before and after it is copied, against a
\* checksum of the original when there is none on the ISO.
ImageActions(iso) ==
    Verb("VERIFY_SOURCE", WithMd5(iso)) \o RsyncImages(iso)
    \o Verb("GENERATE_CHECKSUM", WithoutMd5(iso))
    \o Verb("VERIFY_CHECKSUM", WithMd5(iso)) \o Verb("VERIFY_CHECKSUM", WithoutMd5(iso))

-----------------------------------------------------------------------------
(* IsoParser.validate *)

ContentErrors(iso, profiles, files) ==
    (UNION {PictureErrors(iso.picture[i]) : i \in Pictures(iso)})
    \cup (UNION {RepoErrors(iso, s, profiles, files) : s \in Found(iso)})
    \cup (IF iso.images = "file" \/ iso.repos = "file" THEN {"not_a_directory"} ELSE {})

IsoErrors(iso, profiles, files) ==
    IF iso.path # "directory" THEN {"path"}
    ELSE IF ContentErrors(iso, profiles, files) = {} /\ ImageActions(iso) \o YumActions(iso) = <<>>
         THEN {"not_compliant"}
         ELSE ContentErrors(iso, profiles, files)

\* Mutant: Puppet is disabled when the packages are there already.
IsoActionsLate(iso) ==
    ImageActions(iso) \o YumActions(iso)
    \o << Action("DISABLE_PUPPET", "all"), Action("INSTALL_RPMS", "all"), Action("ENABLE_PUPPET", "all") >>

IsoActions(iso) ==
    ImageActions(iso) \o << Action("DISABLE_PUPPET", "all") >> \o YumActions(iso)
    \o << Action("INSTALL_RPMS", "all"), Action("ENABLE_PUPPET", "all") >>

-----------------------------------------------------------------------------
(* Commands to MCollective agents.  An agent says that it is done, with or without a   *)
(* message on standard error, or that the command failed, or nothing at all: then it   *)
(* may have done it.                                                                   *)

Answer == {"ok", "stderr", "failed", "silent"}

\* run_rpc_command asks nodes that were silent again: only their last answer counts.
LastAnswer(tries) ==
    LET given == {i \in DOMAIN tries : tries[i] # "silent"}
    IN  IF given = {} THEN "silent" ELSE tries[CHOOSE i \in given : \A j \in given : i <= j]
LastAnswers(retries) == {LastAnswer(t) : t \in [1 .. retries + 1 -> Answer]}

\* _find_errors and _errors_in_agent; strict is NoStandardErrorRpcCommandProcessor.
NodesInError(strict, answers) ==
    {n \in DOMAIN answers : answers[n] \in {"failed", "silent"} \cup (IF strict THEN {"stderr"} ELSE {})}

\* execute_rpc_and_process_result: the nodes that have done it, and whether it went well.
RpcOutcomes(nodes, retries, strict) ==
    UNION {{[done |-> {n \in nodes : a[n] \in {"ok", "stderr"}} \cup d, well |-> NodesInError(strict, a) = {}] :
               d \in SUBSET {n \in nodes : a[n] \in {"failed", "silent"}}} :
           a \in [nodes -> LastAnswers(retries)]}

-----------------------------------------------------------------------------
(* YumImport.import_packages *)

YumStep == {"lock", "list", "resolve", "build", "process"}

\* What a step that failed, if any, has left done on the server: only a transaction that
\* was being processed may have installed something.
Installed(ms, failed) ==
    CASE failed \in {"lock", "list", "resolve", "build"} -> {{}}
      [] failed = "process" -> {{}, {ms}}
      [] failed = "none" -> {{ms}}

\* The lock is given back in any case, and it is an error too when that fails.
InstallOutcomes(ms) ==
    UNION {{[done |-> d, well |-> failed = "none" /\ unlocked] : d \in Installed(ms, failed)} :
           failed \in YumStep \cup {"none"}, unlocked \in BOOLEAN}

=============================================================================
