# Packwiz Manager: specifications, model checking and proofs

These modules describe how Packwiz Manager keeps a Minecraft mod pack
consistent while several users change it, publish it and roll it back, and
while clients disconnect, files cannot be written and the process dies. They
are translated from the code under `src/`: the Go service in `src/service`, the
panel's PHP controller of the server integration, and the dashboard, whose
views show a pack that they, their users and slow answers change. Paths below are
relative to `src/service/internal` unless they begin with `src/`; those of the
dashboard are relative to `src/extension/dashboard` and end in `.tsx`.

## 1. Inventory

### Parts, their state and their operations

| Part | Code | State | Operations |
|---|---|---|---|
| Two-store mutation | `projects/manager.go` `Lock`, `MutateAndCommit`; the transaction every handler of `api/` opens around it | a mutex per project, the working tree, a backup container and a `.failed` directory, one SQLite transaction | stage rows, lock, copy the tree to a backup, change the tree, `packwiz refresh`, commit; on an error move the tree aside and the backup back |
| Publishing | `publishing/publisher.go` | `releases/<n>` directories, staging directories, the symbolic link `current`, the tables `revisions` and `projects.current_revision_id` | `Publish`, `Rollback`, `atomicCurrent`, `restoreCurrent` |
| Pack inventory | `api/items.go`, `item_handlers.go`, `imports.go`, `import_inventory.go`, `client_files.go`, `bulk_file_delete.go`, `folder_delete.go`, `api.go` | the table `items` and the files it describes | upload a JAR, add a provider mod, import a URL, upload a file or a client file, remove items, files or a folder, change a side, replace the pack by an archive |
| Project lifecycle | `projects/manager.go` `Create`, `Import`; `api/imports.go` `importProject`; `api/item_handlers.go` `updateProject` | the table `projects`, new working directories | create, import (row first, items later), edit the settings |
| Public delivery | `api/public.go` | none of its own; reads through `current` | serve pack files, releases and blobs |
| Revisions | `revisions/` | `revision.json` in each release | compare two manifests |
| Server integration | `api/integration.go`, `src/extension/app/PackwizIntegrationController.php` | the server's startup command, files on the daemon, a saved startup command in the panel, the table `server_links` | preview, install, revert |
| Rate limit, authentication | `api/api.go` `rateMutations`, `permission`; `auth/` | a window and a counter per actor | admit or refuse a request |
| File browser | `api/file_tree.go`, `file_content.go` | none | list, read, download |
| Blob store, archives, remote files | `files/` | content-addressed files | put a blob, extract a ZIP, fetch a URL |
| Packwiz | `packwiz/runner.go`, an external program | the index of a tree | init, add, refresh |
| Provider clients | `providers/` | none | search, list versions, retry |
| Database | `db/` | the SQLite file, its one write lock | open, migrate; busy timeout of 5 s |
| Process | `src/service/cmd/packwiz-manager/main.go`, `config/` | two HTTP listeners | start, shut down within 15 s |
| Dashboard, frame | `PackwizRouteV2.tsx`, `components/ProjectSettingsV2.tsx`, `ImportProject.tsx` | the listed packs, the open section, the history of releases, the switcher of packs, a cookie that names the selected pack | create, switch sections, publish, roll back, save, import or replace, choose a pack |
| Dashboard, files | `components/FileManagerV2.tsx` | the directory shown, its rows, ticked rows, the editor, the number of the last load | enter, refresh, upload, import a URL, remove, edit |
| Dashboard, mods | `components/ItemsPanel.tsx`, `ModVersionAdder.tsx`, the search in `PackwizRouteV2.tsx` | a page of a filtered list; hits of a search; versions fetched and chosen | filter, turn pages, change a side, remove; search, fetch versions, add |
| Panel extension, installer | `src/extension`, `src/installer` | the panel's settings | forward requests; install, configure a tunnel |

### How they interact

A handler is a goroutine. It opens a transaction, stages its rows, and that
takes SQLite's only write lock. `MutateAndCommit` then takes the mutex of the
project, so a mutation holds the locks in the order *write lock, mutex*.
`Publish` and `Rollback` take the mutex first and write rows at the end: *mutex,
write lock*. What breaks the circular wait is the busy timeout alone. When a
client disconnects, `net/http` cancels the context of its request, and
`database/sql` rolls the transaction back on a goroutine of its own, whatever
the handler is doing at that moment. The public listener never takes a lock: it
resolves `current` for every file it serves. Nothing is done at start-up about
what a dead process left behind.

### What is hard, and what must hold

* **Two stores, one change.** Rows and files change together or not at all,
  whichever step fails (`TreeMatchesRows`, `ImplementsAtomicPack`). The caller is
  told which (`AnswersMatchRows`), with one exception: an archive that has
  replaced the pack is answered with an error when the pack cannot be read back.
  The rollback must not destroy the only good copy (`CommittedCopyOnDisk`), and
  must leave no debris (`NoDebris`).
* **Opposite lock orders.** Nobody waits for ever (`EveryRequestAnswered`,
  `EveryPublisherAnswered`).
* **A publication is seen at once by everybody.** What was live stays live when
  a publication fails (`PreviousStaysLive`); the link and the recorded
  revisions always name directories that exist (`NothingLiveIsMissing`);
  releases never change (`ReleasesImmutable`); only committed packs are
  released (`PromotesCommittedPack`); a failed publication does not stand in
  the way of the next (`NextNumberIsFree`).
* **The inventory is a second description of the files.** Each row has its file
  (`EveryRowHasItsFile`) and has it alone (`OneRowPerFile`), with the same side
  (`SidesAgree`); a file stored for clients only stays so while it is there
  (`ClientFilesStayClient`), through uploads, removals, imports of copies of the
  pack and changes of sides, unless an archive made elsewhere brings that very
  file with another side.
* **A pack that is being made is already visible.** A successful answer means a
  whole pack (`AnsweredPackIsWhole`), a refused creation leaves nothing
  (`RefusedCreationLeavesNothing`), what others do to an import before its items
  are synchronised is neither lost nor invented (`VisitorsAreToldTheTruth`), and
  a listed pack has its tree (`ListedPackHasTree`).
* **Four stores without a transaction.** While the panel installs or reverts the
  server integration, the server must find what its startup command names
  (`StartFindsScript`, `InstalledFilesStay`), and the way back must stay open
  (`OldCommandKept`), whichever call fails, before or after it took effect. The
  code keeps this with one exception, and only for one request at a time.
* **Views are copies that age.** A handler of the dashboard goes on after an
  answer with what it knew when the user clicked, while the user has gone on to
  another directory, page, section or pack, and answers come in any order. What
  is listed under a name must belong to it (`EntriesBelongToPath`); when
  everything is answered each view must show what the service has
  (`AtRestShowsDisk`, `AtRestShowsPack`, `AtRestShowsService`); what is added is
  what was offered (`AddsWhatIsOffered`); the pack selected last stays selected
  across renamings and reloads (`SelectedPackIsShown`); spinners and disabled
  buttons are released, and loads do not feed each other (`ComesToRest`,
  `ModsComeToRest`, `RouteComesToRest`).
* **Delivery**: see the plan.

`PROJECT.json` lists each hazard at its line with the properties that cover it.

## 2. Modules

| Module | What it is |
|---|---|
| `AtomicPack` | what a mutation promises: rows and files edited or replaced in one step or not at all; an edit is answered truthfully, a replacement that happened may be answered with an error |
| `ProjectStore` | the detailed mutation, one action per step that another goroutine, a cancelled client or a crash can observe |
| `Publishing` | extends `ProjectStore` with publishers; composes both over the shared mutexes, write lock and trees |
| `Inventory` | one pack's items and files; a handler is one step, because `ProjectStore` is shown to be atomic, except for the two handlers that read before they lock |
| `ProjectLifecycle` | extends `ProjectStore` with requests that create or import packs; composes both over the write lock, the rows and the trees |
| `ServerIntegration` | install and revert for one server: the panel, the daemon and the service, one action per call |
| `FileView` | the Files section of the dashboard in one browser tab, one action per click, effect and answer |
| `ItemsView` | the list of a pack's items, a page of a filtered listing that the service cuts out |
| `ModsView` | extends `ItemsView` with the search and the version controls above it; composes them over the pack, the added mods and the timer of the list |
| `RouteView` | the frame of the dashboard with Releases and Settings: packs, history, switcher, cookie, page reloads |
| `MCProjectStore`, `MCPublishing`, `MCInventory`, `MCProjectLifecycle`, `MCServerIntegration`, `MCFileView`, `MCModsView`, `MCRouteView` | instances for TLC |
| `ProjectStoreProofs`, `PublishingProofs`, `InventoryProofs`, `ProjectLifecycleProofs`, `ServerIntegrationProofs`, `FileViewProofs`, `ModsViewProofs`, `RouteViewProofs` | theorems about the module in each name |

### ProjectStore

`pc[r]` is where the goroutine of request `r` stands in its handler and in
`MutateAndCommit`; each action is a statement (or a group of statements nobody
else can interrupt in a way that shows) and is commented with what it stands
for. `writer` is SQLite's write lock, `mutex` is `Manager.locks`. The content of a
pack is the set of requests whose change it holds; a tree is such a set together
with the set its index lists, so that "changed but not refreshed" and "half
restored" are different states. `op` tells ordinary handlers (`"edit"`: the
callback writes or removes files) from `replaceProjectFromArchive`
(`"replace"`: it removes the whole tree first). Requests name a project and an
operation chosen in `Init` and are sent once: the number of requests is the
bound.

After its commit a replacing import calls `Projects.Get` once more, with the
context of the request, and answers with what that returns (`imports.go:173`).
So `ReadsBack` requests go on after the commit, to `End` or, when the client has
gone or the database cannot be read, to `ReadBackFails` and the answer
`"error"`. `Stored` is what became of the request, `Told` what its caller learnt; for
a replacement they may differ in this one way, and `AnswersMatchRows` and
`AtomicPack` say so. Whoever retries such an import replaces the pack by the
same archive again.

`Faults` says what the environment may do in an instance: `"fail"` (a file
operation or packwiz fails in the callback, or the database when a pack is read
back), `"cancel"` (clients disconnect), `"copy"` (the copy to the backup fails),
`"wipe"` (the archive cannot be copied to the place of the removed tree),
`"rename"` (a rename of the rollback fails), `"crash"` (the process dies,
systemd restarts it). `StageFails` needs no fault: another transaction may hold
the write lock longer than the busy timeout.

What is taken from outside the code: a `COMMIT` by the live holder of the write
lock succeeds; packwiz writes `index.toml` in full or fails; renames within
the data directory are atomic; a transaction whose context is done cannot commit.

### Publishing

`ppc[q]` is where publisher `q` stands in `Publish` or `Rollback`. `link` is the
symbolic link `current` (the public handler follows it), `current` and
`revisions` are committed rows, `releases[p][n]` the directory `releases/<n>`.
`SwitchFails` and `RelinkFails` include the case in which `atomicCurrent` has
removed `current` and then failed. Revisions are numbered from 1 to the number
of publishers, which is no restriction: one publisher takes at most one number
(`PublishingTypeOK` would fail otherwise).

### Inventory

`rows[id]` is a committed row, `files[path]` the content of a path as far as the
properties can tell: absent, plain bytes, or Packwiz metadata with its side and
whether it names a provider. A path is a directory (`mods`, `config` for a root
that admits plain files, `resourcepacks` for one in which packwiz also puts
metadata, `root`), a base name and whether it ends in `.pw.toml`. A row carries
the path of the file it stands for, which for a custom JAR or a client file is
that of its metadata. The provider `modrinth` stands for CurseForge as well.
`pending[r]` is what `updateItemSide` or `removeItem` has read before it opens
its transaction. `MaxRows` bounds the ids handed out.

`ReplaceFromArchive` replaces the tree by an archive, either one of `OwnCopies`,
the files the pack has now or some of them, or one of `Archives`, made
elsewhere, which may hold metadata of any side, from a provider or not, at any
place, the root included; metadata without a side, or with an unknown one, is
read as for both. The rows are made anew by what `syncImportedItems` finds: all
metadata is a mod's, of the provider it names or local, and other files are local
ones unless metadata refers to them. Here metadata refers to the plain file of
its base name next to it. On an empty pack the action is the last step of
`importProject`.

`Usage` says what users do: store something where an item already is
(`"again"`), remove a folder that holds metadata (`"folder"`), act between the
read and the change of another request (`"stale"`). Without them the four
consistency properties hold; with each of them one of them fails, which is why
they are separate. `ClientFilesStayClient` needs less: it holds unless `"stale"`
is in `Usage`. With it a change of side that was begun for an imported item at the
root may come after that item was removed and a client file stored in its place;
the row it names is gone, the metadata at its path is rewritten, and the client
file is for servers (`Inventory_late.cfg`). What an archive from elsewhere says of a
file replaces what the pack said, as an import is meant to; the property excuses
that step only. Two further consequences can be seen in the model. With
`"folder"`, `removeFolder` deletes the metadata of a resource pack that
packwiz put below `resourcepacks/` and keeps its row, which is a mod's. And
after a copy of the pack is imported, a custom JAR's row has the provider `local`,
whose side `updateItemSide` refuses to change (`SideApplies`), although
`src/README.md:45` says that installed items can change side.

### ProjectLifecycle

`mpc[m]` is where the request `m` that makes a pack stands in `Create`, or in
`Import` and `importProject`. A pack's id is fresh, so the pack is named by its
maker. `listed` are the committed rows of `projects`, `synced` the imports whose
items are committed, `seen[m]` what the walk of `syncImportedItems` has met. A
maker never takes the mutex of its pack; its transaction competes for the same
`writer`. The clean-up of `importProject` is `DropRow` or `DropRowFails`, then
`Discard`: the error of the first is not looked at. Requests of `ProjectStore`
become visitors: they can name a pack once it is listed (`Visit`) and may find
its row (`VisitLost`) or its directory (`TreeVanished`) gone while they work.

Clients of makers may go away (`Leave`); in this instance those of visitors do
not. If they do, `AnsweredPackIsWhole` fails: a cancelled mutation loses the
write lock before it has moved its files back, and the walk, which takes no
mutex, may list a file that is then rolled back. `RefusedCreationLeavesNothing`
does not speak of imports, because a copy that fails half-way stays on the disk
(`MakeTreeFails`).

### ServerIntegration

`pc[r]` is the next call of an `install` or `revert`; `startup` and `saved` are
the panel's, `jar` and `script` the daemon's, `link` the service's. `old[r]` is
the command the request will save or restore: for `install` the one the route
binding loaded, for `revert` the saved one. A call fails before or after it took
effect, and the worker may die between two calls; the compensation in `install`
may itself fail. One of these cases is switched by a constant of its own.
`$applied` is set when the call that changes the startup command has returned
(`PackwizIntegrationController.php:116-117`). If that call takes effect and then
throws, the handler takes it for one that did nothing: it does not put the old
command back, deletes the script and the JAR, and forgets the saved command,
while the server starts with the wrapper. With `HalfApplied` the model has this
case, and `StartFindsScript`, `OldCommandKept` and `InstalledFilesStay` all fail
(`ServerIntegration_torn.cfg` for the second); without it `ApplyFails` leaves
the command alone, which is what the three properties hold under. `wanted` is a
history variable: the command the administrator set last. The mode of the script
is left out, since the startup command runs it with `bash`; `OneLine` is the
replacement of line breaks by spaces.

`Overlap` and `CarefulAdmin` say how the feature is used. Nothing in the code
prevents requests that overlap, and with them all three fail
(`ServerIntegration_overlap.cfg` for the second): `revert` may load the saved
command between `Save` and `Apply` of an installation and delete the files after
`Apply`. An administrator who edits the startup command of an integrated server
loses the edit on revert. The link is a report only, and is not kept true: when
the answer to `Report` is lost the panel undoes the installation and the link
still says `applied`; when `Confirm` fails, the revert cannot be repeated, as
nothing is saved any more.

### The views of the dashboard

A React handler is a sequence of steps with an `await` between them; what it
reads after an `await` is what its render had, not what is shown now. In the
three modules a call is a record with the values it captured and the step it has
reached (`at`), so that any number of handlers overlap: *posting* until the
service stores it, *stored* until the answer arrives, then *reload* or
*reloading* while the handler awaits the listing it asked for. A listing is
*sent*, then *read* by the service (`Serve`), then it arrives, later and in any
order. Each may fail instead, before or after the service acted. React's part is
reduced to what shows: setting a value to what it was renders nothing, effects
run before the next event, and a handler of a component that has gone changes
nothing that is seen. Every click is an action with the guard of its button
(`disabled=`, a condition of the markup, an early return); confirmations are
part of the click. One user, in one tab, is the only one to change the pack. A
call that has failed in the browser or the panel has no effect later, except
across `Boot`: one that times out and is carried out afterwards is not modelled,
and nothing is said of the views from then on. Nor do the properties at rest say
anything of a view that is excused, which the code may leave wrong: `failed`
(files), `blurred` (mods, frame) and `Misses` below.

`FileView`: `seq` is `requestSeq`, and `dirty` says that `path` was set and
its effect has not run. A mutation that is answered begins two loads, one by
the handler, for the directory it was begun in, and one by the effect on
`refreshKey`, for the directory shown now. The second has the greater number,
which is why the first can do no harm; `Answer` leaves it out of `loads` and only
counts its number, and `Release` is the handler's return from it. A failed upload
has perhaps stored some of its files and is followed by no load: `failed` excuses
the listing until the next one. An answered mutation also closes the editor,
unsaved text and all (`Cleared`), and the answer of `openEditor` opens its file
wherever the user is by then (`OpenAnswer`); that text is kept is therefore not
stated. Directories below a root are left out: they are entered and left as
roots are.

`ItemsView`: there is no number here, the rows are those of the answer that came
last. `loads` is a sequence, so that `Arrive` can tell that it overtakes an
earlier load; `blurred` excuses the view from then on, and after a failure or a
load of what is shown no more, until the next load of what is shown is begun.
`timer` is the timeout of the effect on the parameters. The service answers with
another page than the one asked for when that one does not exist any more
(`Clamped`), and the view follows. `ModsView` keeps a control for every hit
(`adders`) and the additions on their way (`posts`); a control whose hit has gone
from the results is no longer told (`mine`), but the list is.

`RouteView`: the first of the listed packs is the one shown, and the proxy of the
panel puts the pack of the cookie first (`Before`). A handler that awaits
listings is followed through them (`Follows`): a publication reloads the frame,
then the history of the pack it was begun for; an import the switcher, then the
frame, and after 350 ms the page. `Boot` is the page loaded again: handlers are
gone, and what was posted may still be done by the service (`lost`). `blurred`
holds the views to which something happened that the code cannot notice: a call
that failed, an answer that was overtaken, a publication answered for a history
that was opened anew while it was under way, and (`Misses`) a history that is the
last to be loaded and belongs to a pack that is not in front any more: it then
stands under the name of the pack that is, and a click on Rollback sends one of
its numbers for that pack. Without a cookie a renaming may
bring another pack to the front; the form of Settings, whose fields are
uncontrolled, then still shows what was typed for the first. Nothing is stated
about what it saves.

## 3. Runs

| Run | Instance | Shows |
|---|---|---|
| `store_faults` | 3 requests, 1 pack, `fail`, `cancel`, fair | `TypeOK`, `TreeMatchesRows`, `CommittedCopyOnDisk`, `NoDebris`; `ProjectStore` implements `AtomicPack`, with the exception of the read-back; every request is answered |
| `store_disaster` | 3 requests, 1 pack, every fault | what survives everything: `AnswersMatchRows`, `CommitsIndexedTree` |
| `store_diskfull` | 2 requests, `wipe` | `ValidOrRolledBack` fails: a replacing import that cannot create the new root loses the pack |
| `publish_faults` | 2 mutations, 2 publishers, 1 pack, `fail`, `cancel`, `copy` | `PublishingTypeOK`, `PreviousStaysLive`, `TreeMatchesRows`, `PromotesCommittedPack` |
| `publish_disaster` | 1 mutation, 2 publishers, `cancel`, `wipe`, `rename`, `crash`, fair | `NothingLiveIsMissing`, `ReleasesImmutable`, `EveryPublisherAnswered` |
| `publish_wedged` | 1 mutation, 2 publishers, no fault | `NextNumberIsFree` fails: after a busy database the number is taken on disk and free in the database, and no publication of this pack can succeed again |
| `inventory_careful` | 1 name, 1 reader, 3 rows, 3 archives from elsewhere, careful users | `InventoryTypeOK`, `EveryRowHasItsFile`, `SidesAgree`, `OneRowPerFile`, `ClientFilesStayClient` |
| `lifecycle_imports` | 2 makers whose clients may go away, 2 slugs, 2 visitors, `fail`, `copy` | `LifeTypeOK`, `AnsweredPackIsWhole`, `RefusedCreationLeavesNothing`, `VisitorsAreToldTheTruth` |
| `integration_careful` | 4 requests, 2 packs of which one is published, 2 commands of which one has a line break, one request at a time, any failure but a change to the wrapper that takes effect and throws | `IntegrationTypeOK`, `StartFindsScript`, `OldCommandKept`, `InstalledFilesStay` |
| `files_view` | 2 roots, 2 files, uploads of up to 2 files, 3 clicks, every order of answers and failures, fair | `FilesTypeOK`, `EntriesBelongToPath`, `AtRestShowsDisk`, `ComesToRest` |
| `mods_view` | 3 items on pages of 2, 2 sides, 2 providers with one id, 1 version, 3 clicks, the same | `ModsTypeOK`, `AtRestShowsPack`, `AddsWhatIsOffered`, `ModsComeToRest` |
| `route_view` | up to 2 packs that begin with one of 2 names, with 2 revisions each on pages of 1, 3 clicks, the same | `RouteTypeOK`, `AtRestShowsService`, `SelectedPackIsShown`, `RouteComesToRest` |

`ValidOrRolledBack` fails with `crash` in place of `wipe`, too, and
`PreviousStaysLive` fails with `crash`: the link is switched before the commit,
and nothing at start-up compares the two. `EveryRowHasItsFile` fails with
`Usage = {"again"}` (a JAR uploaded twice, one of its rows removed) and
`SidesAgree` with `{"stale"}` and two readers (a side change that read its item
before the item was replaced). With
`"again"` or `"folder"` `ClientFilesStayClient` holds. The two runs that show a
property to fail show it of one that the documents state; `PROJECT.json` quotes
them.

Three more instances are kept beside the runs. In each TLC ends with a
counterexample to a property that holds in a run only because the run leaves
something out:

| Instance | Adds | Counterexample |
|---|---|---|
| `Inventory_late.cfg` | `"stale"` | to `ClientFilesStayClient`: a late change of side makes a client file's metadata one for servers, against `src/README.md:47` |
| `ServerIntegration_torn.cfg` | `HalfApplied` | to `OldCommandKept`: the old command is forgotten while the wrapper is in use, against `src/README.md:64` |
| `ServerIntegration_overlap.cfg` | `Overlap` | to `OldCommandKept`: a revert forgets the command that an overlapping installation saved, against the same line |

`ListedPackHasTree` fails in the instance of `lifecycle_imports` without any
fault: an import that finds the database busy twice, because a mutation of
another pack holds the write lock, removes its directory and leaves its row.

### Bounds

Three requests are needed for the longest interplay of the mutation: one that
rolls back, one that gets the write lock in between (after an asynchronous
rollback) and one that waits for the mutex. Two publishers are enough for two
revisions and thus for a rollback, and for a publication after a failed one;
requests on different packs share only the write lock, which requests on the
same pack share as well. In the inventory two rows suffice to disagree about one
file, and the third is for what an import makes of them. The three archives of
`MCArchives` have metadata at the root for clients, servers and both, of a
provider and of none, and a jar with and without metadata that refers to it. Two
makers and two visitors give a taken slug, a visitor on each side of the item
synchronisation, and a mutation of another pack that keeps the database busy.
Four requests to the panel are an installation that fails, one that succeeds, a
refused one and a revert, in any order. Every request is sent once, so no
counter grows without bound; `AllAnswered`, `SystemAnswered`, `LifeAnswered`,
`Served` and `Resting` are the idle system, and deadlock is checked in every
run.

In the views `MaxClicks` bounds what the user does, and with it the calls and
loads on their way, of which it takes two or three to go wrong: a mutation, a
change of what is shown while it is under way, and one more click between their
answers. `Init` therefore begins in the middle: in any directory with any files,
with hits whose versions were fetched, in Releases or Settings of one or two
packs with a history. Three items on pages of two give a last page of one row,
which can be removed or filtered away; two providers that use one id for
different mods are what the label of a hit can get wrong; two packs that begin
with the same name are reordered by giving one of them the other of two.

### Fairness

`Fairness` is weak fairness of the steps of each handler: a goroutine that can
proceed is scheduled, `sync.Mutex` is handed to a waiter (in starvation mode
after 1 ms), a statement that waits for the write lock is answered after the
busy timeout at the latest, and packwiz is killed after its own timeout.
Sending a request, cancelling it, the asynchronous rollback and crashes are not
fair. In the views, effects and timers run, and calls are answered, or time
out in the browser or the panel; which of them is answered first, and whether by
an answer or an error, is left open. What users do is not fair.

## 4. Proofs

Every invariant that a run checks is proved for all values of the constants, and
so are the action properties and the refinement. The assumptions on the
constants say that model values are different things, that bounds are numbers,
and that certain sets are finite: publishers (`PublishersAssumption`), the names
of a tree's files (`NamesAssumption`) and the packs there may be at first
(`RostersAssumption`). `ArchivesAssumption` says that an archive's metadata is
metadata. Where a theorem needs an environment or users of a certain kind, its
statement says so (`Reliable`, `RollbackWorks`, `Current`, `Orderly`, `Careful`,
`Undisturbed`, `Modes`), and what fails without it is said below.

`ProjectStoreProofs` holds for any number of requests and packs.

* `LockInv` is inductive under every fault: types; the mutex of a pack is held
  by `r` exactly while `r` is at one of the `Locked` steps and names this pack,
  so two requests at locked steps work on two trees (`OneAtATime`); and the tree
  of a request that changes it is there. From it `TypeCorrect`.
* `AnswerInv` and `IndexInv` hold under every fault as well: a row belongs to
  a request that committed it, and a request between the change and the commit
  finds its change in its tree. From them `CommitsAreIndexed` and
  `AnswersAreTrue`: what was answered with success is in the rows, and what was
  answered with an error is not, unless it is a replacement that was committed
  and not read back.
* `DoubtInv` needs `Reliable`: none of `wipe`, `rename`, `crash`. It says that
  a pack no request is in doubt about has the tree its rows describe, that a
  request in doubt has a backup of that tree, and what it has made of the tree
  at each step. `TreeMatchesRows` alone is not inductive: while a request
  holds the mutex it says nothing, and the tree a rollback restores is good only
  because the backup was. From it `TreeFollowsRows`, `GoodCopyKept` and
  `Implements`, the refinement of `AtomicPack`: the commit is its `Edit` or `Replace`,
  the first error its `Reject`, the end of the handler its `Answer`, every other
  step a stutter. `Reliable` is needed: `store_diskfull` is a counterexample
  without it.
* `DebrisInv` needs `RollbackWorks`: neither `rename` nor `crash`. A backup
  belongs to a request in doubt or about to remove it, and a `.failed` directory
  to one that has yet to restore or purge. `NoDebris` speaks of the moment when
  nothing is under way only. From it `NothingLeftBehind`; TLC has a
  counterexample with either fault.

`PublishingProofs` holds for any number of mutations, publications, rollbacks
and packs. Publishers and editors share the tree, the mutex and the write lock,
so the first question is what of `ProjectStoreProofs` survives: `EditorsKeepOut`
and `PublishersKeepOut` say that neither touches a pack whose mutex the other
holds, and with them its lemmas on a mutation's steps are reused, not repeated.

* `HoldInv` (types, `LockHeld`, `TreeThere`, and the mutex of a pack is a
  publisher's exactly between its lock and unlock) and `Numbered` hold under
  every fault. `Numbered` is about where revision numbers come from: every
  number up to a recorded one was taken by a publication of its own, so a
  request without a number finds one no larger than the number of requests
  (`NextNumberFits`, by counting). `PublishingTypeCorrect` needs it, and
  `ReleasedIsImmutable` follows from `HoldInv` alone.
* `KeptInv` holds under every fault as well. `NothingLiveIsMissing` says nothing
  of a publication under way; `Founded` does: the tree to be copied is there
  (because the mutex is held), then the staged copy, then the release to be
  linked, then the release the link may go back to. From it `NothingGoesMissing`.
* `AgreeInv` and `StagedInv`, with `DoubtInv`, need `Reliable`. `AgreeInv`:
  link and database agree on a pack unless its publisher is between the switch
  and the commit or the putting back, and then what was read is what the
  database says. `StagedInv`: what is staged is what the rows say, because the
  tree a publisher finds under the mutex is (`PublisherFindsRows`). From them
  `PreviousRevisionStays`, `ReleasesAreCommitted` and
  `TreeFollowsRowsNextToPublishers`. Without `Reliable` a restart between switch
  and commit leaves link and database apart.

`InventoryProofs` holds for any names, readers, archives and number of rows, by
four invariants of which each rests on those before.

* `ShapeInv` holds whatever users do. It says which rows, files and remembered
  items there can be: a row at the root is a client file's or an imported one's,
  and a mod's row stands for metadata. From it `InventoryTypeCorrect`.
* `RootInv` needs requests that are `Current`: none acts on an item that changed
  since it was read. It says that a path at the root has one row, that the row
  of imported metadata there agrees with it on whether it names a provider, that
  at most one request is between its read and its change, and that what it read
  is still the row. `ClientFilesStayClient` rests on the second: metadata for
  clients that names no provider has a row whose side may not be changed, also
  when it came with an archive from elsewhere; and on the last, without which
  the item read is no evidence of what is at its path. From it
  `ClientMetadataForClients`, for users who store over items, remove folders with
  metadata and import whatever they like.
* `OneRow` needs `Orderly` users, who besides do not store over an item: one row
  per file. From it `OneRowForAFile`, also where folders go with their metadata.
* `AgreeInv` needs `Careful` users, who do not do that either: every row has its
  file, with the side of the row, and a client file's row is for clients. From
  it `RowsHaveFiles` and
  `RowsAndMetadataAgree`, whose longest case is the import: it numbers the files
  of a finite tree, and no two of them get one id.

With `"again"` or `"stale"` TLC finds two rows for one file, with any of the three
a row without its file or with another side.

`ProjectLifecycleProofs` holds for any number of makers and visitors. Here the
tree of a pack may go away under a mutation, because its maker gives up, so that
`TreeThere` of `ProjectStoreProofs` is false and nothing is inherited.

* `BirthInv` holds under every fault. It says how far each maker has come, and
  that nobody visits a pack before its row is committed. From it, with types and
  `LockHeld`, `LifeTypeCorrect` and `RefusedCreationsVanish`.
* `WriterInv` and `HealthInv` need `Undisturbed` visitors: none of `cancel`,
  `wipe`, `rename`. A visitor has the write lock from its first row to its
  commit, an importer while it synchronises, unless its client has left; a
  listed pack whose maker has not given up has the tree of its rows unless a
  visitor is in doubt about it, and what the walk has seen is what the rows say.
  That the walk meets no half-made change follows from the write lock, not from
  the mutex, which an import never takes. From them `AnsweredPacksAreWhole` and,
  with `AnswerInv`, `VisitorsKnow`. TLC has counterexamples to
  `AnsweredPackIsWhole` with each of the three faults.

`ServerIntegrationProofs` holds for any number of requests, packs and commands,
under `Modes`: one request at a time, a careful administrator, and a change of
the command to the wrapper that has not taken effect when it throws. `IInv` is
inductive: at most one request runs (`OneAtATime`); whoever runs, the startup
command is the administrator's or the wrapper, what is saved is the
administrator's, and the wrapper is only in use with something saved and its
files in place (`Sound`); and each call finds what the earlier calls of its
request established (`Progress`), for instance that the wrapper is out of the
startup command before files are deleted. `StartFindsScript` alone says nothing
of the moment before `Apply`. From `IInv` follow `StartsFindTheScript`,
`OldCommandIsKept`, `InstalledFilesDoStay` and `IntegrationTypeCorrect`. Each
part of `Modes` is needed: `ServerIntegration_overlap.cfg` and
`ServerIntegration_torn.cfg` have counterexamples without the first and the
last, and an edit of an integrated server's command is lost on revert.

`FileViewProofs` holds for any number of files, roots and clicks, from
`DirsAssumption` and `BoundsAssumption`, which say that roots and files are
different things and that the bounds are numbers. `EntriesBelongToPath` is not
inductive, since it says nothing of the answers on their way. `Current` does: no
load has a number beyond `seq`, a load with the number `seq` is for the
directory shown, and what it has read belongs there. With `FilesTypeOK` it is
the inductive `BelongInv`, from which `ListingBelongs`; the step that matters is
`Answer`, whose own load is disowned by the effect's, and `Enter`, which disowns
all. For `ListingIsDisk`, `Fresh` is added: while nothing failed, no effect is
due and no mutation is under way, the load numbered `seq` will list, or has read,
or the view shows, the directory as it is.

`ModsViewProofs` holds for any number of items, providers, hits, versions and
clicks. The action property `AddsWhatIsOffered` says what a new
request carries; why it is so is the state before the click. `OfferInv` says it:
the hits shown were listed by their provider, there is one control per hit, and
what a control has selected is on its list (`Chosen`). `Chosen` alone is not
inductive, since an answer with versions replaces the list: the list on its
way was asked for with the version now selected, because a control that loads
takes no choice. `ViewInv` gives types, of which those of the rows shown are the
hard ones: that they are a page of the items filtered for. `FreshInv` is why the
list is right when everything is answered. At every moment the view is excused, or
its timer will load, or a removal, change or addition is stored that will begin a
load, or the load begun last was begun for what is shown and has read, if it has,
what the pack is now, or nothing is on its way and the list is the pack's. From
them `ModsTypeCorrect` and `ListIsPack`.

`RouteViewProofs` holds for any number of packs, names, revisions and clicks.

* `BaseInv`: types, and that each handler that waits for a listing has exactly
  its one listing on its way, which is what lets `Arrive` continue it. From it
  `RouteTypeCorrect`.
* `FrameInv`: what will have the frame show the service's packs. As in
  `FreshInv`, something is always left to do, or done: a handler will reload the
  frame, a listing of packs on its way was or will be read from the service as
  it is, or the packs shown are those. The pack of the
  cookie is the first of any listing, whatever is renamed (`SelectedIsFirst`).
  From both `SelectedPackStaysShown`.
* `EmptyInv`: while the form for the first pack is shown nothing else is under
  way, so no pack appears behind a section that no handler was begun in.
* `SettingsInv` and `ReleasesInv`: the same as `FrameInv` for the switcher and
  for the history, whose handlers keep the pack of their render. From them and
  `FrameInv` `FrameAndSectionAgree`. A history that `Misses` has to be excused:
  without that TLC finds `AtRestShowsService` violated.

That the service can answer a listing at all, which is that finitely many packs
can be sorted, is an induction over data. It is proved by taking the fewest packs
that cannot be, through the well-foundedness of the natural numbers
(`SortedExists`).

What is checked by TLC alone: the liveness properties (`EveryRequestAnswered`,
`EveryPublisherAnswered`, `ComesToRest`, `ModsComeToRest`, `RouteComesToRest`),
since the prover treats neither fairness nor `ENABLED`, and the two properties
that runs refute (`ValidOrRolledBack`, `NextNumberIsFree`).

## 5. Not modelled, and the plan

In this order:

1. Proofs of further promises as refinements: `Publishing` as an atomic switch of
   what is live, `ServerIntegration` as an atomic change of the startup command.
2. `updateProject` in `ProjectLifecycle`: the settings it read before its
   transaction, and those an import takes from the form while `pack.toml` keeps
   the archive's.
3. `PublicFetch` (extends `Publishing`): a client that reads `pack.toml`, the
   index and the files through `current` across publications; what it can mix,
   and that the index hashes make it notice.
4. `RateLimit`, `RevisionDiff`, `Paths`, `BlobStore`: pure or nearly
   sequential code against reference definitions over bounded inputs.
5. `ProviderClient` (retries), `Shutdown` (15 s against a packwiz run of
   minutes), `Tunnel` (`src/installer/cloudflare.sh`).
6. Two tabs, or two users, over one pack: nothing tells a view of what the other
   did, so that only what holds under `EntriesBelongToPath` and
   `AddsWhatIsOffered` can be expected of it.

Left out for good: HTML and CSS of the dashboard, the messages it shows and the
comparison of two revisions; `PackwizRoute.tsx` and
`components/ProjectSettings.tsx`, older forms that nothing mounts
(`Components.yml` names `PackwizRouteV2`); `CustomUpload.tsx`, a form above an
`ItemsPanel` that tells it of an upload as `ModsView` tells it of a mod;
`ClientLauncher.tsx` and `Integration.tsx`, one button per request and the last
answer shown; the rest of the panel's proxy controllers, which keep no state;
configuration parsing; build and release scripts; the address table of
`security/ssrf.go`; provider JSON.
