-------------------------- MODULE ProjectLifecycle --------------------------
(***************************************************************************)
(* How packs come into being: Create and Import of                         *)
(* service/internal/projects/manager.go and importProject of               *)
(* service/internal/api/imports.go, next to the mutations of ProjectStore. *)
(* An import inserts the row of the pack first and lists its files as      *)
(* items in a second transaction; in between everybody sees the pack and   *)
(* may change it.  None of this takes the mutex of the project.            *)
(*                                                                         *)
(* The id of a pack is fresh, so it is named by the request that makes it. *)
(* What its archive brings is {}: the files of a tree are the changes made *)
(* to it since.                                                            *)
(***************************************************************************)
EXTENDS ProjectStore

CONSTANTS
  Makers,   \* requests that create or import a pack, each sent once
  Leavers,  \* those whose client may go away
  Slugs     \* the names they may ask for

ASSUME MakersAssumption ==
  Makers = Projects /\ Makers \subseteq Holders /\ Makers \cap Editors = {}
ASSUME LeaversAssumption == Leavers \subseteq Makers

VARIABLES
  mpc,      \* the step each maker takes next
  making,   \* "create" or "import"
  slug,     \* the slug it asks for
  left,     \* its HTTP context is done
  mresult,  \* the answer it gives
  listed,   \* the packs with a committed row in the table projects
  synced,   \* the imported packs whose own files are committed as items
  seen      \* the changes the walk of syncImportedItems has met

makerVars == << making, slug, left >>
packVars == << mpc, makerVars, mresult, listed, synced, seen >>
lifeVars == << storeVars, packVars >>

MakerSteps ==
  { "idle", "make", "ready", "insert", "sync", "walk", "finish", "drop", "discard", "done" }

LifeInit ==
  /\ pc = [r \in Editors |-> "idle"]
  /\ proj \in [Editors -> Projects]
  /\ op \in [Editors -> {"edit", "replace"}]
  /\ cancelled = [r \in Editors |-> FALSE]
  /\ result = [r \in Editors |-> "none"]
  /\ writer = NoOne
  /\ mutex = [p \in Projects |-> NoOne]
  /\ rows = [p \in Projects |-> {}]
  /\ tree = [p \in Projects |-> NoTree]
  /\ backup = [r \in Editors |-> NoTree]
  /\ failed = [p \in Projects |-> NoTree]
  /\ mpc = [m \in Makers |-> "idle"]
  /\ making \in [Makers -> {"create", "import"}]
  /\ slug \in [Makers -> Slugs]
  /\ left = [m \in Makers |-> FALSE]
  /\ mresult = [m \in Makers |-> "none"]
  /\ listed = {}
  /\ synced = {}
  /\ seen = [m \in Makers |-> {}]

-----------------------------------------------------------------------------
(* Steps of a maker.                                                       *)

Step(m, from, to) == mpc[m] = from /\ mpc' = [mpc EXCEPT ![m] = to]
Refuse(m) == mresult' = [mresult EXCEPT ![m] = "error"]

(* What a maker leaves alone, apart from the write lock, rows and trees.   *)
othersVars == << pc, requestVars, result, mutex, backup, failed >>

MBegin(m) ==
  /\ Step(m, "idle", "make")
  /\ UNCHANGED << storeVars, makerVars, mresult, listed, synced, seen >>

(* Mutant: a directory is made, but no pack in it.                         *)
MakeTreeEmpty(m) ==
  /\ Step(m, "make", "ready")
  /\ tree' = [tree EXCEPT ![m] = [files |-> {}]]
  /\ UNCHANGED << othersVars, writer, rows, makerVars, mresult, listed, synced, seen >>

(* MkdirAll of the new directory, or the copy of the archive.              *)
MakeTree(m) ==
  /\ Step(m, "make", "ready")
  /\ tree' = [tree EXCEPT ![m] = Intact({})]
  /\ UNCHANGED << othersVars, writer, rows, makerVars, mresult, listed, synced, seen >>

(* An archive that was copied in part stays: Import returns before it      *)
(* defers the removal.                                                     *)
MakeTreeFails(m) ==
  /\ Step(m, "make", "done")
  /\ "copy" \in Faults
  /\ \/ UNCHANGED tree
     \/ making[m] = "import" /\ tree' = [tree EXCEPT ![m] = Intact({})]
  /\ Refuse(m)
  /\ UNCHANGED << othersVars, writer, rows, makerVars, listed, synced, seen >>

(* packwiz init of a new pack, packwiz refresh of an archive.              *)
RunPackwiz(m) ==
  /\ Step(m, "ready", "insert")
  /\ ~left[m]
  /\ UNCHANGED << storeVars, makerVars, mresult, listed, synced, seen >>

RunPackwizFails(m) ==
  /\ Step(m, "ready", "discard")
  /\ left[m] \/ "fail" \in Faults
  /\ Refuse(m)
  /\ UNCHANGED << storeVars, makerVars, listed, synced, seen >>

SlugTaken(m) == \E p \in listed : slug[p] = slug[m]

(* The INSERT is a transaction of its own.  A created pack is done.        *)
InsertRow(m) ==
  /\ Step(m, "insert", IF making[m] = "create" THEN "done" ELSE "sync")
  /\ ~left[m] /\ writer = NoOne /\ ~SlugTaken(m)
  /\ listed' = listed \cup {m}
  /\ mresult' = [mresult EXCEPT ![m] = IF making[m] = "create" THEN "ok" ELSE @]
  /\ UNCHANGED << storeVars, makerVars, synced, seen >>

(* Mutant: the directory is not removed after a failed INSERT.             *)
InsertRowFailsOnly(m) ==
  /\ Step(m, "insert", "done")
  /\ left[m] \/ writer # NoOne \/ SlugTaken(m)
  /\ Refuse(m)
  /\ UNCHANGED << storeVars, makerVars, listed, synced, seen >>

(* The context is done, the database stayed busy, or the slug is taken.    *)
InsertRowFails(m) ==
  /\ Step(m, "insert", "discard")
  /\ left[m] \/ writer # NoOne \/ SlugTaken(m)
  /\ Refuse(m)
  /\ UNCHANGED << storeVars, makerVars, listed, synced, seen >>

(* importProject begins its transaction; DELETE FROM items takes the lock. *)
SyncItems(m) ==
  /\ Step(m, "sync", "walk")
  /\ ~left[m] /\ writer = NoOne
  /\ writer' = m
  /\ UNCHANGED << othersVars, rows, tree, makerVars, mresult, listed, synced, seen >>

SyncItemsFails(m) ==
  /\ Step(m, "sync", "drop")
  /\ left[m] \/ writer # NoOne
  /\ Refuse(m)
  /\ UNCHANGED << storeVars, makerVars, listed, synced, seen >>

(* Mutant: the archive is walked, not the working directory.               *)
WalkArchive(m) ==
  /\ Step(m, "walk", "finish")
  /\ ~left[m] /\ tree[m] # NoTree
  /\ seen' = [seen EXCEPT ![m] = {}]
  /\ UNCHANGED << storeVars, makerVars, mresult, listed, synced >>

(* The working directory is walked and an item inserted for each file.     *)
Walk(m) ==
  /\ Step(m, "walk", "finish")
  /\ ~left[m] /\ tree[m] # NoTree
  /\ seen' = [seen EXCEPT ![m] = tree[m].files]
  /\ UNCHANGED << storeVars, makerVars, mresult, listed, synced >>

(* A file cannot be read, the directory is missing for the moment, or the  *)
(* context is done; the transaction is rolled back.                        *)
WalkFails(m) ==
  /\ Step(m, "walk", "drop")
  /\ left[m] \/ tree[m] = NoTree \/ "fail" \in Faults
  /\ writer' = IF writer = m THEN NoOne ELSE writer
  /\ Refuse(m)
  /\ UNCHANGED << othersVars, rows, tree, makerVars, listed, synced, seen >>

Finish(m) ==
  /\ Step(m, "finish", "done")
  /\ ~left[m] /\ writer = m
  /\ writer' = NoOne
  /\ rows' = [rows EXCEPT ![m] = seen[m]]
  /\ synced' = synced \cup {m}
  /\ mresult' = [mresult EXCEPT ![m] = "ok"]
  /\ UNCHANGED << othersVars, tree, makerVars, listed, seen >>

FinishFails(m) ==
  /\ Step(m, "finish", "drop")
  /\ left[m]
  /\ Refuse(m)
  /\ UNCHANGED << storeVars, makerVars, listed, synced, seen >>

(* The clean-up of importProject: DELETE FROM projects, which takes the    *)
(* items with it, in the context of the request.                           *)
DropRow(m) ==
  /\ Step(m, "drop", "discard")
  /\ ~left[m] /\ writer = NoOne
  /\ listed' = listed \ {m}
  /\ rows' = [rows EXCEPT ![m] = {}]
  /\ UNCHANGED << othersVars, writer, tree, makerVars, mresult, synced, seen >>

(* Its error is not looked at.                                             *)
DropRowFails(m) ==
  /\ Step(m, "drop", "discard")
  /\ left[m] \/ writer # NoOne
  /\ UNCHANGED << storeVars, makerVars, mresult, listed, synced, seen >>

(* RemoveAll of the working directory.                                     *)
Discard(m) ==
  /\ Step(m, "discard", "done")
  /\ tree' = [tree EXCEPT ![m] = NoTree]
  /\ UNCHANGED << othersVars, writer, rows, makerVars, mresult, listed, synced, seen >>

Leave(m) ==
  /\ m \in Leavers /\ ~left[m] /\ mpc[m] \notin {"idle", "done"}
  /\ left' = [left EXCEPT ![m] = TRUE]
  /\ UNCHANGED << storeVars, mpc, making, slug, mresult, listed, synced, seen >>

LeftRollback(m) ==
  /\ left[m] /\ writer = m
  /\ writer' = NoOne
  /\ UNCHANGED << othersVars, rows, tree, packVars >>

-----------------------------------------------------------------------------
(* Steps of a mutation, where ProjectStore takes the pack for granted.     *)

(* Clients learn ids from listProjects.                                    *)
Visit(r) == proj[r] \in listed /\ Begin(r)

(* No row in projects: a foreign key fails, or Get finds nothing.          *)
VisitLost(r) ==
  /\ Jump(r, "stage", "end")
  /\ proj[r] \notin listed
  /\ Err(r)
  /\ UNCHANGED << requestVars, writer, mutex, rows, diskVars >>

Applying(r) == pc[r] \in {"apply", "refresh"}

(* The directory was removed under the callback: packwiz fails, after a    *)
(* handler may have made the directory anew for its own file.              *)
TreeVanished(r) ==
  /\ Applying(r) /\ tree[proj[r]] = NoTree
  /\ Jump(r, pc[r], "aside")
  /\ \/ UNCHANGED tree
     \/ pc[r] = "apply" /\ op[r] = "edit"
        /\ tree' = [tree EXCEPT ![proj[r]] = [files |-> {r}, index |-> {}]]
  /\ Err(r)
  /\ UNCHANGED << requestVars, writer, mutex, rows, backup, failed >>

VisitHandle(r) ==
  \/ VisitLost(r)
  \/ proj[r] \notin listed /\ Unread(r)
  \/ TreeVanished(r)
  \/ tree[proj[r]] = NoTree /\ WipeTree(r)
  \/ /\ pc[r] = "stage" => proj[r] \in listed
     /\ Applying(r) => tree[proj[r]] # NoTree
     /\ pc[r] = "end" /\ ReadsBack(r) => proj[r] \in listed
     /\ Handle(r)

-----------------------------------------------------------------------------
Make(m) ==
  \/ MakeTree(m) \/ MakeTreeFails(m) \/ RunPackwiz(m) \/ RunPackwizFails(m)
  \/ InsertRow(m) \/ InsertRowFails(m) \/ SyncItems(m) \/ SyncItemsFails(m)
  \/ Walk(m) \/ WalkFails(m) \/ Finish(m) \/ FinishFails(m)
  \/ DropRow(m) \/ DropRowFails(m) \/ Discard(m)

(* Everybody is answered; who wanted to change a pack that never was       *)
(* listed, or no longer is, has nothing to send.                           *)
LifeAnswered ==
  /\ \A m \in Makers : mpc[m] = "done"
  /\ \A r \in Editors : pc[r] = "done" \/ (pc[r] = "idle" /\ proj[r] \notin listed)
  /\ UNCHANGED lifeVars

LifeNext ==
  \/ \E m \in Makers : MBegin(m) \/ Make(m) \/ Leave(m) \/ LeftRollback(m)
  \/ \E r \in Editors :
       (Visit(r) \/ VisitHandle(r) \/ Cancel(r) \/ AutoRollback(r)) /\ UNCHANGED packVars
  \/ LifeAnswered

LifeSpec == LifeInit /\ [][LifeNext]_lifeVars

-----------------------------------------------------------------------------
(* Properties.                                                             *)

(* Every variable keeps to its range; a directory is missing or a tree.    *)
LifeTypeOK ==
  /\ TypeOK
  /\ mpc \in [Makers -> MakerSteps]
  /\ making \in [Makers -> {"create", "import"}]
  /\ slug \in [Makers -> Slugs]
  /\ left \in [Makers -> BOOLEAN]
  /\ mresult \in [Makers -> {"none", "ok", "error"}]
  /\ listed \subseteq Makers /\ synced \subseteq Makers
  /\ seen \in [Makers -> SUBSET Editors]

(* A pack whose creation or import was answered with success is listed,    *)
(* has all its files as items, and, whenever its mutex is free, a valid    *)
(* tree that holds what its rows say: changes others made before its items *)
(* were synchronised are neither lost nor listed without being there.      *)
AnsweredPackIsWhole ==
  \A m \in Makers : mresult[m] = "ok" =>
    /\ m \in listed
    /\ making[m] = "import" => m \in synced
    /\ mutex[m] = NoOne => tree[m] = Intact(rows[m])

(* A creation that is refused, whatever the reason, a taken slug among     *)
(* them, leaves neither a row nor a directory behind.                      *)
RefusedCreationLeavesNothing ==
  \A m \in Makers :
    making[m] = "create" /\ mpc[m] = "done" /\ mresult[m] = "error"
      => m \notin listed /\ tree[m] = NoTree

(* Who was told that a change to a listed pack succeeded keeps it, and who *)
(* was told that it failed has no row, even if the items of the pack were  *)
(* made anew from its files afterwards.  The exception is a replacement    *)
(* whose pack could not be read after the commit: it is stored.            *)
VisitorsAreToldTheTruth ==
  \A r \in Editors : proj[r] \in listed =>
    /\ Stored(r) =>
         \/ r \in rows[proj[r]]
         \/ \E s \in rows[proj[r]] : op[s] = "replace"
    /\ Told(r) = "error" /\ r \in rows[proj[r]] => op[r] = "replace" /\ Stored(r)

(* Every mutation leaves the working tree valid or rolls back: a pack that *)
(* is listed, and that nobody is changing, has a working directory.        *)
ListedPackHasTree ==
  \A p \in listed : mutex[p] = NoOne => tree[p] # NoTree
=============================================================================
