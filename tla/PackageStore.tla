---------------------------- MODULE PackageStore ----------------------------
(***************************************************************************)
(* The directory in which platformio_rs keeps packages, for the packages   *)
(* of one name: commands install and uninstall them, file by file and      *)
(* without a lock.  One package has the plain name, the others have names  *)
(* of their own.  A command may be killed, or fail, at any file.           *)
(***************************************************************************)
EXTENDS Naturals, Sequences, SequencesExt, FiniteSets

CONSTANTS
  Owners,          \* who publish a package of that name in the registry
  Published,       \* the versions each of them publishes
  Uris,            \* other places to install it from
  UriVersion,      \* the version found in each
  Requests,        \* what commands ask for: [owner, versions, uri]
  Terminals,       \* where commands are run, one after another
  MaxCommands,     \* in all of them
  Mirrors,         \* of the registry
  MaxIoFailures, MaxKills,
  Plain, NoDir, Nothing, Torn   \* Nothing: also no owner, and no uri

ASSUME PackageAssumption ==
  /\ Published \in [Owners -> SUBSET Nat] /\ UriVersion \in [Uris -> Nat]
  /\ Mirrors \in Nat \ {0}
  /\ Requests \subseteq
       [owner : Owners \cup {Nothing}, versions : SUBSET Nat, uri : Uris \cup {Nothing}]

VARIABLES
  shelf,       \* each directory: its .piopm, the packages its other files are
               \* of, and whether all of them are there in full
  cmd,         \* the command of each terminal
  commands, ioFailures, kills,
  owed,        \* packages installed with success and not uninstalled since
  crowded,     \* two commands ran at the same time
  cut,         \* a command ended with work to do; "resumed" once another
               \* package was placed after that
  unfit,       \* an installation answered with a package that was not whole
  placed, removed   \* the packages that were placed, and uninstalled

bounds == <<commands, ioFailures, kills>>
past   == <<owed, crowded, cut, unfit, placed, removed>>
packageVars == <<shelf, cmd, bounds, past>>

RegistryPackages == UNION {{[from |-> o, version |-> v] : v \in Published[o]} : o \in Owners}
Packages == RegistryPackages \cup {[from |-> u, version |-> UriVersion[u]] : u \in Uris}
External(g) == g.from \in Uris

(* <name>, and <name>@<version> or <name>@src-<hash of the uri>.           *)
Detached(g) == IF External(g) THEN g.from ELSE g.version
Dirs == {Plain} \cup {Detached(g) : g \in Packages}

(* There are finitely many packages; the three kinds of names differ, and  *)
(* what is not a package is none.                                          *)
ASSUME NamesAssumption ==
  /\ IsFiniteSet(Packages)
  /\ Owners \cap Uris = {} /\ Uris \cap Nat = {} /\ Plain \notin Uris /\ Plain \notin Nat
  /\ Nothing \notin Owners \cup Uris \cup {Plain} /\ Nothing \notin Nat
  /\ {Nothing, Torn} \cap Packages = {} /\ Torn # Nothing

Empty == [meta |-> Nothing, of |-> {}, whole |-> FALSE]
Complete(g) == [meta |-> g, of |-> {g}, whole |-> TRUE]
MetaOf(d) == IF shelf[d] = NoDir THEN Nothing ELSE shelf[d].meta
Parts == {"meta", "files"}
Contents == [meta : Packages \cup {Nothing, Torn}, of : SUBSET Packages, whole : BOOLEAN]
ASSUME PartsAssumption == NoDir \notin Contents /\ Nothing \notin Parts
Unpacked == Nothing   \* the source of a copy from the unpacked archive

Resting == [at |-> "idle", op |-> "install", want |-> Nothing, mirror |-> 0, pkg |-> Nothing,
            dst |-> Nothing, todo |-> << >>, left |-> {}, open |-> Nothing]

Closed == [Resting EXCEPT !.at = "closed"]   \* no command is run there

PackageInit ==
  /\ shelf = [d \in Dirs |-> NoDir] /\ cmd \in [Terminals -> {Resting, Closed}]
  /\ commands \in 0..MaxCommands /\ ioFailures \in 0..MaxIoFailures /\ kills \in 0..MaxKills
  /\ owed = {} /\ crowded = FALSE /\ cut = "no" /\ unfit = FALSE /\ placed = {} /\ removed = {}

----------------------------------------------------------------------------
(* What is installed.                                                      *)

(* A .piopm cut short makes every listing of the packages fail.            *)
Listable == \A d \in Dirs : MetaOf(d) # Torn

(* Without a .piopm a package is what its manifest says, in the            *)
(* directories `legible' whose manifest is there.                          *)
Legacy(d) == [from |-> Nothing, version |-> (CHOOSE g \in shelf[d].of : TRUE).version]
Installed(legible) ==
  {<<d, shelf[d].meta>> : d \in {e \in Dirs : MetaOf(e) # Nothing}} \cup {<<d, Legacy(d)>> : d \in legible}
MaybeLegible == {d \in Dirs : shelf[d] # NoDir /\ shelf[d].meta = Nothing /\ shelf[d].of # {}}
Legibles == {L \in SUBSET MaybeLegible : \A d \in MaybeLegible : shelf[d].whole => d \in L}

Fits(g, r) ==
  IF r.uri # Nothing THEN g.from = r.uri
  ELSE g.version \in r.versions /\ (r.owner # Nothing => g.from = r.owner)

(* The newest that fits, the plain one before another that is as new.      *)
Best(installed, r) ==
  LET fitting == {x \in installed : Fits(x[2], r)}
      newest  == {x \in fitting : \A y \in fitting : y[2].version <= x[2].version}
  IN  {x \in newest : (\E y \in newest : y[1] = Plain) => x[1] = Plain}

AnyOfTheName == [owner |-> Nothing, versions |-> Nat, uri |-> Nothing]

----------------------------------------------------------------------------
Become(t, c) == cmd' = [cmd EXCEPT ![t] = c]
HasWork(t) == cmd[t].todo # << >>

(* Commands begin, in several terminals at a time.                         *)
Run(t) ==
  /\ cmd[t] = Resting /\ commands < MaxCommands
  /\ \E o \in {"install", "uninstall"}, r \in Requests :
       Become(t, [Resting EXCEPT !.at = "look", !.op = o, !.want = r])
  /\ commands' = commands + 1
  /\ crowded' = (crowded \/ \E other \in Terminals \ {t} : cmd[other] \notin {Resting, Closed})
  /\ UNCHANGED <<shelf, ioFailures, kills, owed, cut, unfit, placed, removed>>

Whole(d) == shelf[d] \in {Complete(g) : g \in Packages}

Answer(t, d) == Become(t, Resting) /\ unfit' = (unfit \/ ~Whole(d))

(* install_impl: a package that fits is the answer, else one is fetched.   *)
LookToInstall(t) ==
  /\ cmd[t].at = "look" /\ cmd[t].op = "install" /\ Listable
  /\ \E L \in Legibles :
       LET best == Best(Installed(L), cmd[t].want) IN
       \/ \E x \in best : Answer(t, x[1])
       \/ best = {} /\ Become(t, [cmd[t] EXCEPT !.at = "fetch", !.mirror = 1]) /\ UNCHANGED unfit
  /\ UNCHANGED <<shelf, bounds, owed, crowded, cut, placed, removed>>

ListingFails(t) ==
  /\ cmd[t].at \in {"look", "fix"} /\ ~Listable
  /\ Become(t, Resting)
  /\ UNCHANGED <<shelf, bounds, past>>

(* The best version that an owner publishes of those asked for.            *)
Offered(r) ==
  IF r.uri # Nothing THEN {[from |-> r.uri, version |-> UriVersion[r.uri]]}
  ELSE {g \in RegistryPackages :
          Fits(g, r) /\ \A h \in RegistryPackages : Fits(h, r) /\ h.from = g.from => h.version <= g.version}

Fetch(t) ==
  /\ cmd[t].at = "fetch"
  /\ \E g \in Offered(cmd[t].want) : Become(t, [cmd[t] EXCEPT !.at = "place", !.pkg = g])
  /\ UNCHANGED <<shelf, bounds, past>>

(* The next mirror is tried whatever failed.                               *)
Retry(c) ==
  IF c.op = "install" /\ c.want.uri = Nothing /\ c.mirror < Mirrors
  THEN [Resting EXCEPT !.at = "fetch", !.want = c.want, !.mirror = c.mirror + 1]
  ELSE Resting

FetchFails(t) ==
  /\ cmd[t].at = "fetch"
  /\ Become(t, Retry(cmd[t]))
  /\ UNCHANGED <<shelf, bounds, past>>

----------------------------------------------------------------------------
(* install_tmp_pkg: which of the old and the new package has the plain     *)
(* name, and what is to be removed and copied for that.                    *)

Deletion(d) == [act |-> "remove", from |-> Unpacked, to |-> d]
Copying(s, d) == [act |-> "copy", from |-> s, to |-> d]

(* Mutant: the uri of the old package is not looked at.                   *)
OverlooksUri(g, old) == ~External(old) /\ g.version > old.version

Outranks(g, old) ==
  \/ External(old) /\ old.from # g.from
  \/ ~External(old) /\ g.version > old.version
YieldsTo(g, old) == ~External(old) /\ g # old /\ ~Outranks(g, old)

Placement(g, old) ==
  CASE old \notin Packages  -> <<Deletion(Plain), Copying(Unpacked, Plain)>>
    [] old \in Packages /\ Outranks(g, old) ->
         <<Deletion(Detached(old)), Copying(Plain, Detached(old)), Deletion(Plain), Copying(Unpacked, Plain)>>
    [] old \in Packages /\ YieldsTo(g, old) -> <<Deletion(Detached(g)), Copying(Unpacked, Detached(g))>>
    [] OTHER -> <<Deletion(Plain), Copying(Unpacked, Plain)>>

Place(t) ==
  /\ cmd[t].at = "place"
  /\ LET work == Placement(cmd[t].pkg, MetaOf(Plain)) IN
     Become(t, [cmd[t] EXCEPT !.at = "work", !.todo = work, !.dst = Last(work).to])
  /\ cut' = IF cut = "no" THEN "no" ELSE "resumed"
  /\ placed' = placed \cup {cmd[t].pkg}
  /\ UNCHANGED <<shelf, bounds, owed, crowded, unfit, removed>>

----------------------------------------------------------------------------
(* remove_dir_if_exists and copy_dir, in the order of the directory.       *)

Task(t) == Head(cmd[t].todo)
TaskDone(t) ==
  Become(t, [cmd[t] EXCEPT !.todo = Tail(@), !.left = {}])
SetDir(d, c) == shelf' = [shelf EXCEPT ![d] = c]

RemoveFile(t) ==
  /\ HasWork(t) /\ Task(t).act = "remove"
  /\ LET d == Task(t).to IN
     /\ shelf[d] # NoDir
     /\ \/ shelf[d].meta # Nothing /\ SetDir(d, [shelf[d] EXCEPT !.meta = Nothing])
        \/ shelf[d].whole /\ SetDir(d, [shelf[d] EXCEPT !.whole = FALSE])
        \/ ~shelf[d].whole /\ shelf[d].of # {} /\ SetDir(d, [shelf[d] EXCEPT !.of = {}])
  /\ UNCHANGED <<cmd, bounds, past>>

RemoveDir(t) ==
  /\ HasWork(t) /\ Task(t).act = "remove" /\ shelf[Task(t).to] \in {NoDir, Empty}
  /\ SetDir(Task(t).to, NoDir) /\ TaskDone(t)
  /\ UNCHANGED <<bounds, past>>

Source(t) == IF Task(t).from = Unpacked THEN Complete(cmd[t].pkg) ELSE shelf[Task(t).from]
SourceParts(t) == {p \in Parts : IF p = "meta" THEN Source(t).meta # Nothing ELSE Source(t).of # {}}

MakeDir(t) ==
  /\ HasWork(t) /\ Task(t).act = "copy" /\ cmd[t].left = {} /\ cmd[t].open = Nothing
  /\ Source(t) \notin {NoDir, Empty}
  /\ Become(t, [cmd[t] EXCEPT !.left = SourceParts(t)])
  /\ SetDir(Task(t).to, IF shelf[Task(t).to] = NoDir THEN Empty ELSE shelf[Task(t).to])
  /\ UNCHANGED <<bounds, past>>

CopyOpens(t) ==
  /\ HasWork(t) /\ cmd[t].open = Nothing
  /\ Source(t) # NoDir /\ shelf[Task(t).to] # NoDir
  /\ \E p \in cmd[t].left :
       /\ Become(t, [cmd[t] EXCEPT !.open = p, !.left = @ \ {p}])
       /\ SetDir(Task(t).to,
            IF p = "meta" THEN [shelf[Task(t).to] EXCEPT !.meta = Torn]
            ELSE [shelf[Task(t).to] EXCEPT !.of = @ \cup Source(t).of, !.whole = FALSE])
  /\ UNCHANGED <<bounds, past>>

CopyCloses(t) ==
  /\ HasWork(t) /\ cmd[t].open # Nothing
  /\ Source(t) # NoDir /\ shelf[Task(t).to] # NoDir
  /\ SetDir(Task(t).to,
       IF cmd[t].open = "meta" THEN [shelf[Task(t).to] EXCEPT !.meta = Source(t).meta]
       ELSE [shelf[Task(t).to] EXCEPT !.whole = Source(t).whole])
  /\ IF cmd[t].left = {}
     THEN Become(t, [cmd[t] EXCEPT !.open = Nothing, !.todo = Tail(@)])
     ELSE Become(t, [cmd[t] EXCEPT !.open = Nothing])
  /\ UNCHANGED <<bounds, past>>

(* A disk fails.                                                           *)
IoFails(t) ==
  /\ HasWork(t) /\ ioFailures < MaxIoFailures
  /\ ioFailures' = ioFailures + 1 /\ Become(t, Retry(cmd[t]))
  /\ cut' = IF cut = "resumed" THEN cut ELSE "yes"
  /\ UNCHANGED <<shelf, commands, kills, owed, crowded, unfit, placed, removed>>

(* Another command removed the directory under a copy, or its source.      *)
Disturbed(t) ==
  /\ HasWork(t) /\ Task(t).act = "copy"
  /\ \/ Source(t) \in {NoDir, Empty}
     \/ shelf[Task(t).to] = NoDir /\ (cmd[t].left # {} \/ cmd[t].open # Nothing)
  /\ Become(t, Retry(cmd[t]))
  /\ UNCHANGED <<shelf, bounds, past>>

(* PackageItem::new, of the directory that the package is in now.          *)
Placed(t) ==
  /\ cmd[t].at = "work" /\ cmd[t].op = "install" /\ ~HasWork(t)
  /\ \/ MetaOf(cmd[t].dst) # Torn /\ Answer(t, cmd[t].dst) /\ owed' = owed \cup {cmd[t].pkg}
     \/ MetaOf(cmd[t].dst) = Torn /\ Become(t, Retry(cmd[t])) /\ UNCHANGED <<unfit, owed>>
  /\ UNCHANGED <<shelf, bounds, crowded, cut, placed, removed>>

----------------------------------------------------------------------------
(* uninstall: the package that fits best goes, and the best of the others  *)
(* takes the plain name if that is free.                                   *)

LookToUninstall(t) ==
  /\ cmd[t].at = "look" /\ cmd[t].op = "uninstall" /\ Listable
  /\ \E L \in Legibles :
       LET best == Best(Installed(L), cmd[t].want) IN
       \/ best = {} /\ Become(t, Resting) /\ UNCHANGED <<owed, removed>>
       \/ \E x \in best :
            /\ Become(t, [cmd[t] EXCEPT !.at = "work", !.todo = <<Deletion(x[1])>>])
            /\ owed' = owed \ {x[2]} /\ removed' = removed \cup {x[2]}
  /\ UNCHANGED <<shelf, bounds, crowded, cut, unfit, placed>>

Removed(t) ==
  /\ cmd[t].at = "work" /\ cmd[t].op = "uninstall" /\ ~HasWork(t)
  /\ Become(t, [cmd[t] EXCEPT !.at = "fix"])
  /\ UNCHANGED <<shelf, bounds, past>>

TakesPlainName(d) == <<Copying(d, Plain), Deletion(d)>>

Fix(t) ==
  /\ cmd[t].at = "fix" /\ Listable
  /\ \E L \in Legibles :
       LET best == {x \in Best(Installed(L), AnyOfTheName) : shelf[Plain] = NoDir} IN
       \/ best = {} /\ Become(t, Resting)
       \/ \E x \in best : Become(t, [cmd[t] EXCEPT !.at = "tidy", !.todo = TakesPlainName(x[1])])
  /\ UNCHANGED <<shelf, bounds, past>>

Tidied(t) ==
  /\ cmd[t].at = "tidy" /\ ~HasWork(t)
  /\ Become(t, Resting)
  /\ UNCHANGED <<shelf, bounds, past>>

Removing(t) == cmd[t].op = "uninstall" /\ cmd[t].at \in {"work", "fix"}

Killed(t) ==
  /\ cmd[t] \notin {Resting, Closed} /\ kills < MaxKills
  /\ kills' = kills + 1
  /\ Become(t, Resting)
  /\ cut' = IF cut = "no" /\ (HasWork(t) \/ Removing(t)) THEN "yes" ELSE cut
  /\ UNCHANGED <<shelf, commands, ioFailures, owed, crowded, unfit, placed, removed>>

PackageNext ==
  \E t \in Terminals :
    \/ Run(t) \/ LookToInstall(t) \/ LookToUninstall(t) \/ ListingFails(t)
    \/ Fetch(t) \/ FetchFails(t) \/ Place(t)
    \/ RemoveFile(t) \/ RemoveDir(t) \/ MakeDir(t) \/ CopyOpens(t) \/ CopyCloses(t)
    \/ IoFails(t) \/ Disturbed(t) \/ Placed(t)
    \/ Removed(t) \/ Fix(t) \/ Tidied(t) \/ Killed(t)

PackageSpec == PackageInit /\ [][PackageNext]_packageVars

----------------------------------------------------------------------------
StoreTypeOK ==
  /\ shelf \in [Dirs -> {NoDir} \cup Contents]
  /\ owed \subseteq Packages /\ cut \in {"no", "yes", "resumed"}
  /\ \A t \in Terminals : cmd[t].left \subseteq Parts /\ cmd[t].open \in Parts \cup {Nothing}

Shelved(g) == \E d \in Dirs : shelf[d] = Complete(g)
Rivals(g) == {h \in Packages \ {g} : Detached(h) = Detached(g)}

AllRest == \A t \in Terminals : cmd[t] \in {Resting, Closed}

(* A package stays in full until it is uninstalled, while others are moved *)
(* out of its way and whatever file a command stops at.  Two exceptions: a *)
(* command that works on what another left unfinished may lose it, and so  *)
(* may one of another owner that has the same version (manager.rs:632-659).*)
Kept == ~crowded /\ cut # "resumed" => \A g \in owed : Shelved(g) \/ Rivals(g) # {}

(* Commands that install one package at the same time disturb each other,  *)
(* and leave it whole.                                                     *)
TwinsAgree ==
  (AllRest /\ cut = "no" /\ removed = {} /\ Cardinality(placed) = 1) => \A g \in owed : Shelved(g)

(* What an installation answers with is all there, unless some command     *)
(* stopped halfway or ran beside another (manager.rs:498-518).             *)
AnswersWhole == unfit => crowded \/ cut # "no"

(* Commands that end leave whole packages only, one of them under the      *)
(* plain name: the newest, as long as none came from outside of the        *)
(* registry (manager.rs:618-634, 849-861).                                 *)
InOrder ==
  AllRest /\ ~crowded /\ cut = "no" => \A d \in Dirs : shelf[d] # NoDir =>
    /\ Whole(d) /\ Whole(Plain)
    /\ (\E g \in placed : External(g)) \/ shelf[d].meta.version <= shelf[Plain].meta.version

StoreSound == StoreTypeOK /\ Kept /\ TwinsAgree /\ AnswersWhole /\ InOrder

=============================================================================
