------------------------------ MODULE Inventory ------------------------------
(***************************************************************************)
(* The inventory of one pack: the rows of the table items and the files of *)
(* the working tree they stand for, under the handlers of                  *)
(* service/internal/api that add, change, remove and import items.         *)
(*                                                                         *)
(* ProjectStore shows that a handler's rows and files change together or   *)
(* not at all, so here a handler is one step; a handler that fails is no   *)
(* step.  updateItemSide and removeItem are the exception: they read the   *)
(* item before they open their transaction and lock the project, and act   *)
(* on what they read.  They are two steps each.                            *)
(***************************************************************************)
EXTENDS Naturals, FiniteSets, SequencesExt

CONSTANTS
  Names,    \* base names of files
  Readers,  \* requests that read an item, then change or remove it
  MaxRows,  \* bound: item ids handed out in a behaviour
  Archives, \* contents of archives that were made elsewhere
  Usage     \* what users of this instance do, see below

(* "again": store something where an item already is.  "folder": remove a  *)
(* folder that holds Packwiz metadata.  "stale": act between the read and  *)
(* the change of another request.                                          *)
ASSUME UsageAssumption == Usage \subseteq {"again", "folder", "stale"}
ASSUME RowsAssumption == MaxRows \in Nat

(* A file system has finitely many names, and a tree finitely many files.  *)
ASSUME NamesAssumption == IsFiniteSet(Names)

VARIABLES
  rows,     \* rows[id]: the committed row of an item
  files,    \* files[path]: what the working tree has there
  last,     \* the last item id handed out
  pending   \* pending[r]: the item a request has read, and what it will do

vars == << rows, files, last, pending >>

Sides == {"client", "server", "both"}

(* A path is a directory and a base name; meta says that it ends in        *)
(* .pw.toml.  "root" is the top of the tree, where the metadata of a       *)
(* client file n is n.pw.toml; the metadata of a custom mods/n.jar is      *)
(* mods/n.pw.toml.                                                         *)
PathsIn(dir, metas) == [dir : {dir}, name : Names, meta : metas]
ManagedPaths == PathsIn("config", {FALSE}) \cup PathsIn("resourcepacks", BOOLEAN)
ModPaths == PathsIn("mods", {TRUE})
JarPaths == PathsIn("mods", {FALSE})
RootPaths == PathsIn("root", BOOLEAN)
Paths == ManagedPaths \cup ModPaths \cup JarPaths \cup RootPaths
MetaPath(dir, n) == [dir |-> dir, name |-> n, meta |-> TRUE]

(* Metadata has a side and may have an [update.<provider>] section.        *)
Absent == [form |-> "absent", side |-> "both", update |-> FALSE]
Metadata(side, update) == [form |-> "meta", side |-> side, update |-> update]

(* Bytes somebody uploads: metadata without a side line is for both sides. *)
Upload(p) ==
  [form |-> IF p.meta THEN "meta" ELSE "plain", side |-> "both", update |-> FALSE]

(* What an archive from elsewhere may have at a path: metadata of any kind *)
(* of origin, or some other file.  A side that is missing or unknown is    *)
(* read as "both".                                                         *)
FilesAt(p) ==
  {Absent} \cup IF p.meta THEN {Metadata(side, update) : side \in Sides, update \in BOOLEAN}
                ELSE {Upload(p)}

ASSUME ArchivesAssumption ==
  \A content \in Archives :
    /\ content = [p \in Paths |-> content[p]]
    /\ \A p \in Paths : content[p] \in FilesAt(p)

(* The path of a row is the file it stands for: removal target and the     *)
(* metadata whose side is rewritten.                                       *)
NoRow == [kind |-> "none", provider |-> "none", path |-> MetaPath("mods", "none"),
          side |-> "both"]
Row(kind, provider, path, side) ==
  [kind |-> kind, provider |-> provider, path |-> path, side |-> side]
Nothing == [op |-> "none", id |-> 0, row |-> NoRow, side |-> "both"]

Ids == 1 .. MaxRows
Live == {id \in Ids : rows[id] # NoRow}
Claims(p) == {id \in Live : rows[id].path = p}

Init ==
  /\ rows = [id \in Ids |-> NoRow]
  /\ files = [p \in Paths |-> Absent]
  /\ last = 0
  /\ pending = [r \in Readers |-> Nothing]

-----------------------------------------------------------------------------
(* Handlers of one step.                                                   *)

(* No request is between its read and its change, or users do not care.    *)
Alone == "stale" \in Usage \/ \A r \in Readers : pending[r] = Nothing
Unclaimed(p) == "again" \in Usage \/ Claims(p) = {}

Insert(row) ==
  /\ last < MaxRows
  /\ last' = last + 1
  /\ rows' = [rows EXCEPT ![last + 1] = row]
  /\ UNCHANGED pending

(* Mutant: the side is not validated.                                      *)
UploadJARAnySide(n) ==
  \E side \in Sides \cup {"none"} :
    LET p == MetaPath("mods", n) IN
    /\ Alone /\ Unclaimed(p)
    /\ Insert(Row("mod", "custom", p, side))
    /\ files' = [files EXCEPT ![p] = Metadata(side, FALSE)]

(* The metadata of a custom JAR is written whatever is at its place.       *)
UploadJAR(n) ==
  \E side \in Sides :
    LET p == MetaPath("mods", n) IN
    /\ Alone /\ Unclaimed(p)
    /\ Insert(Row("mod", "custom", p, side))
    /\ files' = [files EXCEPT ![p] = Metadata(side, FALSE)]

MetadataFiles == {p \in Paths : files[p].form = "meta"}

(* packwiz adds the metadata of a project, and maybe that of a dependency  *)
(* it has not got yet.                                                     *)
PackwizAdds(p) ==
  {created \in SUBSET ((ModPaths \cup {p}) \ MetadataFiles) :
     p \in created /\ Cardinality(created) <= 2}

(* The new metadata file that names the project, or the only new one, gets *)
(* the side; without a new file the handler fails.                         *)
NewMetadata(p, created, side) ==
  [f \in Paths |-> IF f = p THEN Metadata(side, TRUE)
                   ELSE IF f \in created THEN Metadata("both", TRUE)
                   ELSE files[f]]

AddMod(p) ==
  /\ Alone /\ p.meta /\ p \in ModPaths \cup ManagedPaths /\ Unclaimed(p)
  /\ \E side \in Sides, created \in PackwizAdds(p) :
       /\ Insert(Row("mod", "modrinth", p, side))
       /\ files' = NewMetadata(p, created, side)

(* storeManagedFile, behind importURL: always a new row.                   *)
ImportURL(p) ==
  \E side \in Sides :
    /\ Alone /\ Unclaimed(p)
    /\ Insert(Row("file", "url", p, side))
    /\ files' = [files EXCEPT ![p] = Upload(p)]

(* Mutant: an existing row is not looked for.                              *)
UploadFileAnew(p) ==
  /\ Alone
  /\ \A id \in Claims(p) : "again" \in Usage \/ rows[id].kind # "mod"
  /\ Insert(Row("file", "local", p, "both"))
  /\ files' = [files EXCEPT ![p] = Upload(p)]

(* uploadFile keeps the oldest row of its target that is not a mod, with   *)
(* its kind and side, and removes the others; the row becomes local.       *)
UploadFile(p) ==
  /\ Alone
  /\ \A id \in Claims(p) : "again" \in Usage \/ rows[id].kind # "mod"
  /\ files' = [files EXCEPT ![p] = Upload(p)]
  /\ LET old == {id \in Claims(p) : rows[id].kind # "mod"} IN
     IF old = {}
       THEN Insert(Row("file", "local", p, "both"))
       ELSE /\ rows' = [id \in Ids |->
                          IF id \notin old THEN rows[id]
                          ELSE IF \A other \in old : id <= other
                            THEN [rows[id] EXCEPT !.provider = "local"]
                            ELSE NoRow]
            /\ UNCHANGED << last, pending >>

(* storeClientFile: the row of the target is reused; a new one needs its   *)
(* metadata path free; a plain file of that name at the root is refused.   *)
StoreClientFile(n) ==
  LET p == MetaPath("root", n)
      existing == {id \in Claims(p) : rows[id].provider = "client-file"} IN
  /\ Alone
  /\ files[[p EXCEPT !.meta = FALSE]] = Absent
  /\ files' = [files EXCEPT ![p] = Metadata("client", FALSE)]
  /\ IF existing = {}
       THEN files[p] = Absent /\ Insert(Row("file", "client-file", p, "client"))
       ELSE UNCHANGED << rows, last, pending >>

(* removeFileItems: files only, each under a managed root or a client file.*)
RemoveFileItems(ids) ==
  /\ Alone /\ ids # {}
  /\ \A id \in ids :
       /\ rows[id].kind = "file"
       /\ rows[id].provider = "client-file" \/ rows[id].path \in ManagedPaths
  /\ rows' = [id \in Ids |-> IF id \in ids THEN NoRow ELSE rows[id]]
  /\ files' = [p \in Paths |-> IF \E id \in ids : rows[id].path = p THEN Absent ELSE files[p]]
  /\ UNCHANGED << last, pending >>

(* Mutant: only a row whose target is the folder itself is deleted.        *)
RemoveFolderOnly(dir) ==
  /\ Alone
  /\ "folder" \in Usage \/ \A p \in PathsIn(dir, BOOLEAN) \cap Paths : files[p].form # "meta"
  /\ files' = [p \in Paths |-> IF p.dir = dir THEN Absent ELSE files[p]]
  /\ UNCHANGED << rows, last, pending >>

(* removeFolder: the whole directory goes, the rows that are not mods too. *)
RemoveFolder(dir) ==
  /\ Alone
  /\ "folder" \in Usage \/ \A p \in PathsIn(dir, BOOLEAN) \cap Paths : files[p].form # "meta"
  /\ rows' = [id \in Ids |->
                IF rows[id].kind = "file" /\ rows[id].provider # "client-file"
                   /\ rows[id].path.dir = dir
                THEN NoRow ELSE rows[id]]
  /\ files' = [p \in Paths |-> IF p.dir = dir THEN Absent ELSE files[p]]
  /\ UNCHANGED << last, pending >>

(* The row syncImportedItems derives from a file: every metadata file is a *)
(* mod of the provider its update section names, or local; any other file  *)
(* is a local file for both sides.                                         *)
ImportedRow(p, content) ==
  IF p.meta
    THEN Row("mod", IF content.update THEN "modrinth" ELSE "local", p, content.side)
    ELSE Row("file", "local", p, "both")

(* A file that metadata refers to is not listed beside its mod.  Metadata  *)
(* here refers to the file next to it that has its base name.              *)
Referenced(content) ==
  {p \in Paths : ~p.meta /\ \E q \in Paths : /\ q = [p EXCEPT !.meta = TRUE]
                                              /\ content[q] # Absent}
Listed(content) == {p \in Paths : content[p] # Absent} \ Referenced(content)

(* Archives of the files this pack has now, or of some of them.            *)
OwnCopies ==
  {[p \in Paths |-> IF p \in kept THEN files[p] ELSE Absent] :
     kept \in SUBSET {p \in Paths : files[p] # Absent}}

(* replaceProjectFromArchive: the tree becomes the content of the archive, *)
(* and all rows are made anew from it.  On an empty pack it is what        *)
(* importProject does.                                                     *)
ReplaceFromArchive(content) ==
  LET order == SetToSeq(Listed(content)) IN
  /\ Alone
  /\ last + Len(order) <= MaxRows
  /\ files' = content
  /\ rows' = [id \in Ids |->
                IF id \in last + 1 .. last + Len(order)
                  THEN ImportedRow(order[id - last], content[order[id - last]])
                  ELSE NoRow]
  /\ last' = last + Len(order)
  /\ UNCHANGED pending

-----------------------------------------------------------------------------
(* Handlers of two steps.                                                  *)

(* Mutant: client files are not refused.                                   *)
SideAppliesToAll(row) == row.provider \notin {"local", "url"}

(* updateItemSide refuses client files, and files that are not metadata,   *)
(* which it takes to be those of provider local or url.                    *)
SideApplies(row) == row.provider \notin {"client-file", "local", "url"}

ReadItem(r, id) ==
  /\ pending[r] = Nothing
  /\ Alone
  /\ \E op \in {"side", "remove"}, side \in Sides :
       /\ op = "side" => SideApplies(rows[id])
       /\ op = "remove" => side = "both"
       /\ pending' = [pending EXCEPT
                        ![r] = [op |-> op, id |-> id, row |-> rows[id], side |-> side]]
  /\ UNCHANGED << rows, files, last >>

(* Mutant: the row is updated and the metadata is not.                     *)
UpdateItemSideRowOnly(r) ==
  LET v == pending[r] IN
  /\ v.op = "side"
  /\ pending' = [pending EXCEPT ![r] = Nothing]
  /\ rows' = [rows EXCEPT ![v.id].side = IF rows[v.id] = NoRow THEN @ ELSE v.side]
  /\ UNCHANGED << files, last >>

(* The side line of the metadata is replaced, or added.                    *)
SetMetadataSide(p, side) == files' = [files EXCEPT ![p].side = side]

(* The row with the id that was read is updated, if there still is one,    *)
(* and the metadata at the path that was read; without it the handler      *)
(* fails.                                                                  *)
UpdateItemSide(r) ==
  LET v == pending[r] IN
  /\ v.op = "side"
  /\ pending' = [pending EXCEPT ![r] = Nothing]
  /\ IF files[v.row.path] = Absent
       THEN UNCHANGED << rows, files >>
       ELSE /\ rows' = [rows EXCEPT ![v.id].side = IF rows[v.id] = NoRow THEN @ ELSE v.side]
            /\ SetMetadataSide(v.row.path, v.side)
  /\ UNCHANGED last

(* The row is deleted and the file at the path that was read is removed;   *)
(* neither needs to be there any more.                                     *)
RemoveItem(r) ==
  LET v == pending[r] IN
  /\ v.op = "remove"
  /\ pending' = [pending EXCEPT ![r] = Nothing]
  /\ rows' = [rows EXCEPT ![v.id] = NoRow]
  /\ files' = [files EXCEPT ![v.row.path] = Absent]
  /\ UNCHANGED last

-----------------------------------------------------------------------------
Next ==
  \/ \E n \in Names : UploadJAR(n) \/ StoreClientFile(n)
  \/ \E p \in Paths : AddMod(p)
  \/ \E p \in ManagedPaths : ImportURL(p) \/ UploadFile(p)
  \/ \E ids \in SUBSET Live : RemoveFileItems(ids)
  \/ \E dir \in {"config", "resourcepacks"} : RemoveFolder(dir)
  \/ \E content \in Archives \cup OwnCopies : ReplaceFromArchive(content)
  \/ \E r \in Readers : UpdateItemSide(r) \/ RemoveItem(r) \/ \E id \in Live : ReadItem(r, id)

Spec == Init /\ [][Next]_vars

-----------------------------------------------------------------------------
(* Properties.                                                             *)

Rows == [kind : {"none", "mod", "file"},
         provider : {"none", "modrinth", "custom", "url", "local", "client-file"},
         path : Paths \cup {NoRow.path}, side : Sides]

(* Rows, files and what requests remember keep to their ranges.            *)
InventoryTypeOK ==
  /\ rows \in [Ids -> Rows]
  /\ files \in [Paths -> [form : {"absent", "plain", "meta"}, side : Sides, update : BOOLEAN]]
  /\ last \in 0 .. MaxRows
  /\ pending \in [Readers -> [op : {"none", "side", "remove"}, id : Ids \cup {0},
                              row : Rows, side : Sides]]

(* A row represents a managed mod or a managed file: the file is there.    *)
EveryRowHasItsFile == \A id \in Live : files[rows[id].path] # Absent

(* The side the dashboard shows for a mod or a client file is the side     *)
(* written in its metadata, the one packwiz installs by.                   *)
SidesAgree ==
  \A id \in Live :
    rows[id].kind = "mod" \/ rows[id].provider = "client-file"
      => files[rows[id].path].side = rows[id].side

(* Two rows never stand for the same file, so that removing an item cannot *)
(* take another item's file away.                                          *)
OneRowPerFile == \A p \in Paths : Cardinality(Claims(p)) <= 1

(* What is at the root of the pack for clients only, the metadata of a     *)
(* client file, stays so while it is there: across re-uploads, imports of  *)
(* copies of the pack, side changes and requests that act on an item they  *)
(* read earlier.  Only an archive made elsewhere may say otherwise.        *)
ClientOnly(f) == f.form = "meta" /\ f.side = "client" /\ ~f.update
KeepsClientFiles ==
  \A n \in Names :
    LET p == MetaPath("root", n) IN
    ClientOnly(files[p]) /\ files'[p] # Absent =>
      \/ files'[p].side = "client"
      \/ \E content \in Archives : ReplaceFromArchive(content)
ClientFilesStayClient == [][KeepsClientFiles]_vars
=============================================================================
