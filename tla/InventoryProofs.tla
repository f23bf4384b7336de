--------------------------- MODULE InventoryProofs ---------------------------
(***************************************************************************)
(* Proofs about Inventory, for any names, requests and number of rows.     *)
(*                                                                         *)
(* Four inductive invariants, each on top of those before.  ShapeInv holds *)
(* whatever users do: which rows, files and remembered items there can be  *)
(* at all.  RootInv holds when nobody acts on an item that has changed:    *)
(* what there is at the root, and nobody remembers a row that is not       *)
(* there.  OneRow holds when besides nothing is stored where an item       *)
(* already is.  AgreeInv needs in addition that no folder with metadata is *)
(* removed: every row has its file, with its side.                         *)
(***************************************************************************)
EXTENDS Inventory, FiniteSetTheorems, TLAPS

(* The rows the handlers make.  A row at the root of the tree is that of a *)
(* client file, or of an imported file; a mod stands for metadata.         *)
GoodRows ==
  {row \in Rows :
     /\ row.kind \in {"mod", "file"} /\ row.path \in Paths
     /\ row.path.dir = "root" => row.provider \in {"client-file", "local", "modrinth"}
     /\ row.provider = "client-file" => row.path.dir = "root"
     /\ row.kind = "mod" => row.path.meta}

(* What there is at a path: a file of the form its name says.              *)
GoodFiles(p) ==
  {Absent} \cup
  {f \in [form : {"plain", "meta"}, side : Sides, update : BOOLEAN] :
     f.form = IF p.meta THEN "meta" ELSE "plain"}

(* What a request remembers: an item that was there.                       *)
GoodReads ==
  {v \in [op : {"side", "remove"}, id : Ids, row : GoodRows, side : Sides] :
     v.op = "side" => SideApplies(v.row)}

ShapeInv ==
  /\ rows \in [Ids -> GoodRows \cup {NoRow}]
  /\ files = [p \in Paths |-> files[p]] /\ \A p \in Paths : files[p] \in GoodFiles(p)
  /\ last \in 0 .. MaxRows
  /\ pending \in [Readers -> GoodReads \cup {Nothing}]

-----------------------------------------------------------------------------
(* Lemmas about rows, files and paths.                                     *)

(* The paths of the handlers are paths, told apart by directory and form.  *)
LEMMA PathFacts ==
  /\ \A p \in Paths : p.dir \in {"config", "resourcepacks", "mods", "root"} /\ p.meta \in BOOLEAN
  /\ \A p \in ModPaths : p \in Paths /\ p.dir = "mods" /\ p.meta
  /\ \A p \in ManagedPaths : p \in Paths /\ p.dir \in {"config", "resourcepacks"}
  /\ \A n \in Names : MetaPath("mods", n) \in ModPaths
  /\ \A n \in Names : /\ MetaPath("root", n) \in Paths
                      /\ MetaPath("root", n).dir = "root" /\ MetaPath("root", n).meta
  BY DEF Paths, ModPaths, JarPaths, ManagedPaths, RootPaths, PathsIn, MetaPath

(* No row a handler makes is the absence of a row.                         *)
LEMMA RowFacts ==
  /\ NoRow \notin GoodRows
  /\ \A row \in GoodRows : row \in Rows /\ row.path \in Paths /\ row.kind \in {"mod", "file"}
  /\ Nothing \notin GoodReads /\ Nothing.op = "none"
  BY DEF GoodRows, NoRow, GoodReads, Nothing

(* A row of its parts.                                                     *)
LEMMA RowIsGood ==
  ASSUME NEW kind \in {"mod", "file"}, NEW p \in Paths, NEW side \in Sides,
         NEW provider \in {"modrinth", "custom", "url", "local", "client-file"},
         p.dir = "root" => provider \in {"client-file", "local", "modrinth"},
         provider = "client-file" => p.dir = "root",
         kind = "mod" => p.meta
  PROVE  Row(kind, provider, p, side) \in GoodRows
  BY DEF Row, GoodRows, Rows

(* Metadata of either kind.                                                *)
LEMMA MetadataIsGood ==
  ASSUME NEW p \in Paths, p.meta, NEW side \in Sides, NEW update \in BOOLEAN
  PROVE  Metadata(side, update) \in GoodFiles(p) /\ Metadata(side, update) # Absent
  BY DEF Metadata, GoodFiles, Absent

(* Uploaded bytes.                                                         *)
LEMMA UploadIsGood ==
  ASSUME NEW p \in Paths
  PROVE  Upload(p) \in GoodFiles(p) /\ Upload(p) # Absent
  BY DEF Upload, GoodFiles, Absent, Sides

(* What a file of the tree is listed as.                                   *)
LEMMA ImportedRowIsGood ==
  ASSUME NEW p \in Paths, NEW f \in GoodFiles(p), f # Absent
  PROVE  ImportedRow(p, f) \in GoodRows /\ ImportedRow(p, f).path = p
  <1>1. f.side \in Sides /\ f.update \in BOOLEAN
    BY DEF GoodFiles, Sides
  <1>2. "both" \in Sides
    BY DEF Sides
  <1>3. ImportedRow(p, f) \in GoodRows
    BY <1>1, <1>2, RowIsGood, PathFacts DEF ImportedRow
  <1>4. QED
    BY <1>3 DEF ImportedRow, Row

(* A changed side leaves a file of the tree a file of the tree.            *)
LEMMA SideChangeIsGood ==
  ASSUME NEW p \in Paths, NEW f \in GoodFiles(p), f # Absent, NEW side \in Sides
  PROVE  [f EXCEPT !.side = side] \in GoodFiles(p) /\ [f EXCEPT !.side = side] # Absent
  BY DEF GoodFiles, Absent, Sides

(* A pack has finitely many paths.                                         *)
LEMMA PathsFinite == IsFiniteSet(Paths)
  <1> DEFINE Dirs == {"config", "resourcepacks", "mods", "root"}
             Triples == Dirs \X (Names \X BOOLEAN)
             path == [t \in Triples |-> [dir |-> t[1], name |-> t[2][1], meta |-> t[2][2]]]
             All == [dir : Dirs, name : Names, meta : BOOLEAN]
  <1>1. IsFiniteSet(Dirs)
    <2>1. \A x : IsFiniteSet({x})
      BY FS_Singleton
    <2>2. IsFiniteSet({"config"} \cup {"resourcepacks"})
      BY <2>1, FS_Union
    <2>3. IsFiniteSet({"mods"} \cup {"root"})
      BY <2>1, FS_Union
    <2>4. IsFiniteSet(({"config"} \cup {"resourcepacks"}) \cup ({"mods"} \cup {"root"}))
      BY <2>2, <2>3, FS_Union
    <2>5. Dirs = ({"config"} \cup {"resourcepacks"}) \cup ({"mods"} \cup {"root"})
      OBVIOUS
    <2>6. QED
      BY ONLY <2>4, <2>5
  <1>2. IsFiniteSet(BOOLEAN)
    <2>1. BOOLEAN = {TRUE} \cup {FALSE}
      OBVIOUS
    <2>2. IsFiniteSet({TRUE}) /\ IsFiniteSet({FALSE})
      BY FS_Singleton
    <2>3. QED
      BY <2>1, <2>2, FS_Union
  <1>3. IsFiniteSet(Triples)
    BY <1>1, <1>2, NamesAssumption, FS_Product
  <1>4. path \in Surjection(Triples, All)
    <2>1. path \in [Triples -> All]
      OBVIOUS
    <2>2. ASSUME NEW p \in All PROVE \E t \in Triples : path[t] = p
      <3>1. << p.dir, << p.name, p.meta >> >> \in Triples
        OBVIOUS
      <3>2. path[<< p.dir, << p.name, p.meta >> >>] = p
        BY <3>1
      <3>3. QED
        BY <3>1, <3>2
    <2>3. QED
      BY <2>1, <2>2 DEF Surjection
  <1>5. IsFiniteSet(All)
    <2> HIDE DEF Triples, All, path
    <2>1. QED
      BY <1>3, <1>4, FS_Surjection
  <1>6. Paths \subseteq All
    BY DEF Paths, ManagedPaths, ModPaths, JarPaths, RootPaths, PathsIn
  <1>7. QED
    BY <1>5, <1>6, FS_Subset

(* The order in which the files of an archive are listed: each once.       *)
LEMMA OrderOfFiles ==
  ASSUME NEW S \in SUBSET Paths
  PROVE  /\ Len(SetToSeq(S)) \in Nat
         /\ \A i \in 1 .. Len(SetToSeq(S)) : SetToSeq(S)[i] \in S
         /\ \A i, j \in 1 .. Len(SetToSeq(S)) : SetToSeq(S)[i] = SetToSeq(S)[j] => i = j
  <1>1. IsFiniteSet(S)
    BY PathsFinite, FS_Subset
  <1>2. Cardinality(S) \in Nat /\ \E f \in [1 .. Cardinality(S) -> S] : IsInjective(f)
    BY <1>1, FS_CardinalityType DEF ExistsBijection, Bijection, Injection
  <1>3. SetToSeq(S) \in [1 .. Cardinality(S) -> S] /\ IsInjective(SetToSeq(S))
    BY <1>2 DEF SetToSeq
  <1>4. Len(SetToSeq(S)) = Cardinality(S)
    BY <1>2, <1>3
  <1>5. QED
    BY <1>2, <1>3, <1>4 DEF IsInjective

(* An archive, of this pack or from elsewhere, brings files only.          *)
LEMMA ArchiveIsGood ==
  ASSUME ShapeInv, NEW content \in Archives \cup OwnCopies
  PROVE  /\ content = [p \in Paths |-> content[p]]
         /\ \A p \in Paths : content[p] \in GoodFiles(p)
  <1>1. CASE content \in Archives
    <2>1. \A p \in Paths : FilesAt(p) \subseteq GoodFiles(p)
      BY MetadataIsGood, UploadIsGood, PathFacts DEF FilesAt, GoodFiles
    <2>2. QED
      BY <1>1, <2>1, ArchivesAssumption
  <1>2. CASE content \in OwnCopies
    BY <1>2 DEF OwnCopies, ShapeInv, GoodFiles
  <1>3. QED
    BY <1>1, <1>2

(* The rows after an import: each lists a file of the archive, and no two  *)
(* the same one.                                                           *)
LEMMA RowsAfterImport ==
  ASSUME ShapeInv, NEW content \in Archives \cup OwnCopies, ReplaceFromArchive(content)
  PROVE  /\ \A id \in Ids : rows'[id] # NoRow =>
              \E p \in Listed(content) :
                rows'[id] = ImportedRow(p, content[p]) /\ rows'[id].path = p
         /\ \A i, j \in Ids :
              rows'[i] # NoRow /\ rows'[j] # NoRow /\ rows'[i].path = rows'[j].path => i = j
         /\ last' \in 0 .. MaxRows
  <1> DEFINE order == SetToSeq(Listed(content))
  <1>1. /\ Len(order) \in Nat
        /\ \A i \in 1 .. Len(order) : order[i] \in Listed(content)
        /\ \A i, j \in 1 .. Len(order) : order[i] = order[j] => i = j
    <2>1. Listed(content) \in SUBSET Paths
      BY DEF Listed
    <2>2. QED
      BY <2>1, OrderOfFiles
  <1>2. /\ rows' = [id \in Ids |->
              IF id \in last + 1 .. last + Len(order)
                THEN ImportedRow(order[id - last], content[order[id - last]])
                ELSE NoRow]
        /\ last' = last + Len(order) /\ last + Len(order) <= MaxRows
    BY DEF ReplaceFromArchive
  <1> HIDE DEF order
  <1>3. \A p \in Listed(content) : ImportedRow(p, content[p]).path = p
    BY DEF ImportedRow, Row
  <1>4. ASSUME NEW id \in Ids, rows'[id] # NoRow
        PROVE  /\ id - last \in 1 .. Len(order) /\ order[id - last] \in Listed(content)
               /\ rows'[id] = ImportedRow(order[id - last], content[order[id - last]])
               /\ rows'[id].path = order[id - last]
    <2>1. id \in last + 1 .. last + Len(order)
      BY <1>2, <1>4
    <2>2. id - last \in 1 .. Len(order)
      BY <1>1, <2>1, RowsAssumption DEF ShapeInv, Ids
    <2>3. rows'[id] = ImportedRow(order[id - last], content[order[id - last]])
      BY <1>2, <2>1
    <2>4. QED
      BY <1>1, <1>3, <2>2, <2>3
  <1>5. ASSUME NEW i \in Ids, NEW j \in Ids, rows'[i] # NoRow, rows'[j] # NoRow,
               rows'[i].path = rows'[j].path
        PROVE  i = j
    <2>1. i - last = j - last
      BY <1>1, <1>4, <1>5
    <2>2. QED
      BY <2>1, RowsAssumption DEF ShapeInv, Ids
  <1>6. last' \in 0 .. MaxRows
    BY <1>1, <1>2, RowsAssumption DEF ShapeInv
  <1>7. ASSUME NEW id \in Ids, rows'[id] # NoRow
        PROVE  \E p \in Listed(content) :
                 rows'[id] = ImportedRow(p, content[p]) /\ rows'[id].path = p
    BY <1>4, <1>7
  <1>8. QED
    BY <1>5, <1>6, <1>7

-----------------------------------------------------------------------------
(* What can be there, whatever users do.                                   *)

(* A pack starts empty.                                                    *)
LEMMA InitShape == Init => ShapeInv
  BY RowsAssumption DEF Init, ShapeInv, GoodFiles

(* A new row of a good shape keeps the table in shape.                     *)
LEMMA InsertShape ==
  ASSUME ShapeInv, NEW row \in GoodRows, Insert(row)
  PROVE  /\ rows' \in [Ids -> GoodRows \cup {NoRow}]
         /\ last' \in 0 .. MaxRows
         /\ pending' \in [Readers -> GoodReads \cup {Nothing}]
         /\ last + 1 \in Ids
  BY RowsAssumption DEF ShapeInv, Insert, Ids

(* A file of a good shape keeps the tree in shape.                         *)
LEMMA WriteShape ==
  ASSUME ShapeInv, NEW p \in Paths, NEW f \in GoodFiles(p), files' = [files EXCEPT ![p] = f]
  PROVE  files' = [q \in Paths |-> files'[q]] /\ \A q \in Paths : files'[q] \in GoodFiles(q)
  BY DEF ShapeInv

(* So does the removal of files.                                           *)
LEMMA RemoveShape ==
  ASSUME ShapeInv, NEW S, files' = [p \in Paths |-> IF p \in S THEN Absent ELSE files[p]]
  PROVE  files' = [q \in Paths |-> files'[q]] /\ \A q \in Paths : files'[q] \in GoodFiles(q)
  BY DEF ShapeInv, GoodFiles

(* No handler makes a row, a file or a memory of another shape.            *)
LEMMA NextShape == ShapeInv /\ [Next]_vars => ShapeInv'
  <1> SUFFICES ASSUME ShapeInv, [Next]_vars PROVE ShapeInv'
    OBVIOUS
  <1>s. {"client", "server", "both"} = Sides
    BY DEF Sides
  <1>1. ASSUME NEW n \in Names, UploadJAR(n) PROVE ShapeInv'
    <2> DEFINE p == MetaPath("mods", n)
    <2>1. p \in Paths /\ p.dir = "mods" /\ p.meta
      BY PathFacts
    <2>2. PICK side \in Sides : /\ Insert(Row("mod", "custom", p, side))
                                /\ files' = [files EXCEPT ![p] = Metadata(side, FALSE)]
      BY <1>1 DEF UploadJAR
    <2> HIDE DEF p
    <2>3. Row("mod", "custom", p, side) \in GoodRows
      BY <2>1, RowIsGood
    <2>4. Metadata(side, FALSE) \in GoodFiles(p)
      BY <2>1, MetadataIsGood
    <2>5. QED
      BY <2>1, <2>2, <2>3, <2>4, InsertShape, WriteShape DEF ShapeInv
  <1>2. ASSUME NEW n \in Names, StoreClientFile(n) PROVE ShapeInv'
    <2> DEFINE p == MetaPath("root", n)
    <2>1. p \in Paths /\ p.dir = "root" /\ p.meta
      BY PathFacts
    <2>2. /\ files' = [files EXCEPT ![p] = Metadata("client", FALSE)]
          /\ \/ Insert(Row("file", "client-file", p, "client"))
             \/ UNCHANGED << rows, last, pending >>
      BY <1>2 DEF StoreClientFile
    <2> HIDE DEF p
    <2>3. Row("file", "client-file", p, "client") \in GoodRows
      BY <1>s, <2>1, RowIsGood
    <2>4. Metadata("client", FALSE) \in GoodFiles(p)
      BY <1>s, <2>1, MetadataIsGood
    <2>5. CASE Insert(Row("file", "client-file", p, "client"))
      BY <2>1, <2>2, <2>3, <2>4, <2>5, InsertShape, WriteShape DEF ShapeInv
    <2>6. CASE UNCHANGED << rows, last, pending >>
      BY <2>1, <2>2, <2>4, <2>6, WriteShape DEF ShapeInv
    <2>7. QED
      BY <2>2, <2>5, <2>6
  <1>3. ASSUME NEW p \in Paths, AddMod(p) PROVE ShapeInv'
    <2>1. p.meta /\ p.dir # "root"
      BY <1>3, PathFacts DEF AddMod
    <2>2. PICK side \in Sides, created \in PackwizAdds(p) :
            /\ Insert(Row("mod", "modrinth", p, side))
            /\ files' = NewMetadata(p, created, side)
      BY <1>3 DEF AddMod
    <2>3. Row("mod", "modrinth", p, side) \in GoodRows
      BY <2>1, RowIsGood
    <2>4. ASSUME NEW f \in Paths PROVE files'[f] \in GoodFiles(f)
      <3>1. f \in created => f = p \/ f \in ModPaths
        BY DEF PackwizAdds
      <3>2. f = p \/ f \in created =>
              Metadata(side, TRUE) \in GoodFiles(f) /\ Metadata("both", TRUE) \in GoodFiles(f)
        BY <1>s, <2>1, <3>1, MetadataIsGood, PathFacts
      <3>3. files'[f] \in {Metadata(side, TRUE), Metadata("both", TRUE), files[f]}
            /\ (f # p /\ f \notin created => files'[f] = files[f])
        BY <2>2 DEF NewMetadata
      <3>4. QED
        BY <3>2, <3>3 DEF ShapeInv
    <2>5. files' = [f \in Paths |-> files'[f]]
      BY <2>2 DEF NewMetadata
    <2>6. QED
      BY <2>2, <2>3, <2>4, <2>5, InsertShape DEF ShapeInv
  <1>4. ASSUME NEW p \in ManagedPaths, ImportURL(p) PROVE ShapeInv'
    <2>1. p \in Paths /\ p.dir # "root"
      BY PathFacts
    <2>2. PICK side \in Sides : Insert(Row("file", "url", p, side))
      BY <1>4 DEF ImportURL
    <2>3. Row("file", "url", p, side) \in GoodRows
      BY <2>1, RowIsGood
    <2>4. files' = [files EXCEPT ![p] = Upload(p)]
      BY <1>4 DEF ImportURL
    <2>5. QED
      BY <2>1, <2>2, <2>3, <2>4, UploadIsGood, InsertShape, WriteShape DEF ShapeInv
  <1>5. ASSUME NEW p \in ManagedPaths, UploadFile(p) PROVE ShapeInv'
    <2> DEFINE old == {id \in Claims(p) : rows[id].kind # "mod"}
    <2>1. p \in Paths /\ p.dir # "root"
      BY PathFacts
    <2>2. files' = [files EXCEPT ![p] = Upload(p)]
      BY <1>5 DEF UploadFile
    <2>3. CASE old = {}
      <3>1. Insert(Row("file", "local", p, "both"))
        BY <1>5, <2>3 DEF UploadFile
      <3>2. Row("file", "local", p, "both") \in GoodRows
        BY <1>s, <2>1, RowIsGood
      <3>3. QED
        BY <2>1, <2>2, <3>1, <3>2, UploadIsGood, InsertShape, WriteShape DEF ShapeInv
    <2>4. CASE old # {}
      <3>1. /\ rows' = [id \in Ids |->
                          IF id \notin old THEN rows[id]
                          ELSE IF \A other \in old : id <= other
                            THEN [rows[id] EXCEPT !.provider = "local"]
                            ELSE NoRow]
            /\ UNCHANGED << last, pending >>
        BY <1>5, <2>4 DEF UploadFile
      <3>2. ASSUME NEW id \in old PROVE [rows[id] EXCEPT !.provider = "local"] \in GoodRows
        <4>1. rows[id] \in GoodRows
          BY DEF Claims, Live, ShapeInv
        <4>2. QED
          BY <4>1 DEF GoodRows, Rows
      <3>3. rows' \in [Ids -> GoodRows \cup {NoRow}]
        BY <3>1, <3>2 DEF ShapeInv
      <3>4. QED
        BY <2>1, <2>2, <3>1, <3>3, UploadIsGood, WriteShape DEF ShapeInv
    <2>5. QED
      BY <2>3, <2>4
  <1>6. ASSUME NEW ids \in SUBSET Live, RemoveFileItems(ids) PROVE ShapeInv'
    <2>1. /\ rows' = [id \in Ids |-> IF id \in ids THEN NoRow ELSE rows[id]]
          /\ UNCHANGED << last, pending >>
      BY <1>6 DEF RemoveFileItems
    <2> DEFINE S == {p \in Paths : \E id \in ids : rows[id].path = p}
    <2>2. files' = [p \in Paths |-> IF p \in S THEN Absent ELSE files[p]]
      BY <1>6 DEF RemoveFileItems
    <2> HIDE DEF S
    <2>3. QED
      BY <2>1, <2>2, RemoveShape DEF ShapeInv
  <1>7. ASSUME NEW dir \in {"config", "resourcepacks"}, RemoveFolder(dir) PROVE ShapeInv'
    <2>1. /\ rows' = [id \in Ids |->
                        IF rows[id].kind = "file" /\ rows[id].provider # "client-file"
                           /\ rows[id].path.dir = dir
                        THEN NoRow ELSE rows[id]]
          /\ UNCHANGED << last, pending >>
      BY <1>7 DEF RemoveFolder
    <2> DEFINE S == {p \in Paths : p.dir = dir}
    <2>2. files' = [p \in Paths |-> IF p \in S THEN Absent ELSE files[p]]
      BY <1>7 DEF RemoveFolder
    <2> HIDE DEF S
    <2>3. QED
      BY <2>1, <2>2, RemoveShape DEF ShapeInv
  <1>8. ASSUME NEW content \in Archives \cup OwnCopies, ReplaceFromArchive(content)
        PROVE  ShapeInv'
    <2>1. files' = content /\ pending' = pending
      BY <1>8 DEF ReplaceFromArchive
    <2>2. files' = [p \in Paths |-> files'[p]] /\ \A p \in Paths : files'[p] \in GoodFiles(p)
      BY <2>1, ArchiveIsGood
    <2>3. \A p \in Listed(content) : ImportedRow(p, content[p]) \in GoodRows
      BY ArchiveIsGood, ImportedRowIsGood DEF Listed
    <2>4. \A id \in Ids : rows'[id] \in GoodRows \cup {NoRow}
      BY <1>8, <2>3, RowsAfterImport
    <2>5. last' \in 0 .. MaxRows
      BY <1>8, RowsAfterImport
    <2>6. rows' = [id \in Ids |-> rows'[id]]
      BY <1>8 DEF ReplaceFromArchive
    <2>7. rows' \in [Ids -> GoodRows \cup {NoRow}]
      BY <2>4, <2>6
    <2>8. QED
      BY <2>1, <2>2, <2>5, <2>7 DEF ShapeInv
  <1>9. ASSUME NEW r \in Readers, UpdateItemSide(r) PROVE ShapeInv'
    <2>1. /\ pending[r] \in GoodReads /\ pending[r].op = "side"
          /\ pending' = [pending EXCEPT ![r] = Nothing] /\ last' = last
      BY <1>9, RowFacts DEF UpdateItemSide, ShapeInv
    <2>2. CASE files[pending[r].row.path] = Absent
      BY <1>9, <2>1, <2>2 DEF UpdateItemSide, ShapeInv
    <2>3. CASE files[pending[r].row.path] # Absent
      <3> DEFINE v == pending[r]
                 p == v.row.path
                 id == v.id
      <3>1. v.side \in Sides /\ id \in Ids /\ p \in Paths
        BY <2>1 DEF GoodReads, GoodRows, SideApplies
      <3>2. /\ rows' = [rows EXCEPT ![id].side = IF rows[id] = NoRow THEN @ ELSE v.side]
            /\ files' = [files EXCEPT ![p].side = v.side]
        BY <1>9, <2>3 DEF UpdateItemSide, SetMetadataSide
      <3>3. files[p] \in GoodFiles(p) /\ files[p] # Absent
        BY <2>3, <3>1 DEF ShapeInv
      <3>4. rows[id] \in GoodRows \cup {NoRow} /\ DOMAIN rows = Ids /\ DOMAIN files = Paths
        BY <3>1 DEF ShapeInv
      <3> HIDE DEF v, p, id
      <3>5. files' = [files EXCEPT ![p] = [files[p] EXCEPT !.side = v.side]]
        BY <3>2
      <3>6. [files[p] EXCEPT !.side = v.side] \in GoodFiles(p)
        BY <3>1, <3>3, SideChangeIsGood
      <3>7. rows' \in [Ids -> GoodRows \cup {NoRow}]
        <4>1. rows[id] = NoRow => rows' = rows
          BY <3>2, <3>4 DEF NoRow, ShapeInv
        <4>2. rows[id] # NoRow =>
                 /\ [rows[id] EXCEPT !.side = v.side] \in GoodRows
                 /\ rows' = [rows EXCEPT ![id] = [rows[id] EXCEPT !.side = v.side]]
          BY <3>1, <3>2, <3>4 DEF GoodRows, Rows
        <4>3. QED
          BY <3>1, <4>1, <4>2 DEF ShapeInv
      <3>8. QED
        BY <2>1, <3>1, <3>5, <3>6, <3>7, WriteShape DEF ShapeInv
    <2>4. QED
      BY <2>2, <2>3
  <1>10. ASSUME NEW r \in Readers, RemoveItem(r) PROVE ShapeInv'
    <2>1. /\ pending' = [pending EXCEPT ![r] = Nothing] /\ last' = last
          /\ rows' = [rows EXCEPT ![pending[r].id] = NoRow]
          /\ files' = [files EXCEPT ![pending[r].row.path] = Absent]
      BY <1>10 DEF RemoveItem
    <2>2. pending[r].row.path \in Paths
      BY <1>10, RowFacts DEF RemoveItem, ShapeInv, GoodReads
    <2>3. Absent \in GoodFiles(pending[r].row.path)
      BY DEF GoodFiles
    <2>4. files' = [q \in Paths |-> files'[q]] /\ \A q \in Paths : files'[q] \in GoodFiles(q)
      BY <2>1, <2>2, <2>3, WriteShape
    <2>5. QED
      BY <2>1, <2>4 DEF ShapeInv
  <1>11. ASSUME NEW r \in Readers, NEW id \in Live, ReadItem(r, id) PROVE ShapeInv'
    <2>1. id \in Ids /\ rows[id] \in GoodRows
      BY DEF Live, ShapeInv
    <2>2. PICK v \in [op : {"side", "remove"}, id : {id}, row : {rows[id]}, side : Sides] :
            (v.op = "side" => SideApplies(v.row)) /\ pending' = [pending EXCEPT ![r] = v]
      BY <1>11 DEF ReadItem
    <2>3. v \in GoodReads
      BY <2>1, <2>2 DEF GoodReads
    <2>4. UNCHANGED << rows, files, last >>
      BY <1>11 DEF ReadItem
    <2>5. QED
      BY <2>2, <2>3, <2>4 DEF ShapeInv
  <1>12. CASE UNCHANGED vars
    BY <1>12 DEF vars, ShapeInv
  <1>13. QED
    BY <1>1, <1>2, <1>3, <1>4, <1>5, <1>6, <1>7, <1>8, <1>9, <1>10, <1>11, <1>12 DEF Next

(* Whatever users do, rows, files and what requests remember keep to their *)
(* ranges.                                                                 *)
THEOREM InventoryTypeCorrect == Spec => []InventoryTypeOK
  <1>1. ShapeInv => InventoryTypeOK
    <2> SUFFICES ASSUME ShapeInv PROVE InventoryTypeOK
      OBVIOUS
    <2>1. NoRow \in Rows /\ GoodRows \subseteq Rows
      BY DEF NoRow, Rows, GoodRows, Sides
    <2>2. files \in [Paths -> [form : {"absent", "plain", "meta"}, side : Sides, update : BOOLEAN]]
      <3>1. \A p \in Paths : GoodFiles(p) \subseteq
              [form : {"absent", "plain", "meta"}, side : Sides, update : BOOLEAN]
        <4>1. Absent \in [form : {"absent", "plain", "meta"}, side : Sides, update : BOOLEAN]
          BY DEF Absent, Sides
        <4>2. \A p \in Paths :
                GoodFiles(p) \subseteq
                  {Absent} \cup [form : {"plain", "meta"}, side : Sides, update : BOOLEAN]
          BY DEF GoodFiles
        <4>3. [form : {"plain", "meta"}, side : Sides, update : BOOLEAN]
                \subseteq [form : {"absent", "plain", "meta"}, side : Sides, update : BOOLEAN]
          OBVIOUS
        <4>4. QED
          BY <4>1, <4>2, <4>3
      <3>2. QED
        BY <3>1 DEF ShapeInv
    <2>3. GoodReads \cup {Nothing} \subseteq
            [op : {"none", "side", "remove"}, id : Ids \cup {0}, row : Rows, side : Sides]
      BY <2>1 DEF GoodReads, Nothing, Sides
    <2>4. QED
      BY <2>1, <2>2, <2>3 DEF ShapeInv, InventoryTypeOK
  <1>2. QED
    BY <1>1, InitShape, NextShape, PTL DEF Spec

-----------------------------------------------------------------------------
(* The root of the tree, if nobody acts on an item that another request    *)
(* changed since it was read: one row for a file, each with its file, and  *)
(* those whose side can be changed stand for metadata of a provider.       *)
Current == "stale" \notin Usage

RootRows == {id \in Live : rows[id].path.dir = "root"}

OneRootRow == \A i, j \in RootRows : rows[i].path = rows[j].path => i = j

RootFiles ==
  \A id \in RootRows : /\ files[rows[id].path] # Absent
                       /\ SideApplies(rows[id]) => files[rows[id].path].update

OneReader ==
  \A r, s \in Readers : pending[r] # Nothing /\ pending[s] # Nothing => r = s

ReadsCurrent ==
  \A r \in Readers : pending[r] # Nothing => rows[pending[r].id] = pending[r].row

RootInv == OneRootRow /\ RootFiles /\ OneReader /\ ReadsCurrent

(* No handler of one step runs next to a request that has read an item.    *)
LEMMA NobodyReads ==
  ASSUME Current, Alone
  PROVE  \A r \in Readers : pending[r] = Nothing
  BY DEF Current, Alone

(* So after a step of one of them nobody remembers an item.                *)
LEMMA NobodyReadsStill ==
  ASSUME Current, Alone, pending' = pending
  PROVE  OneReader' /\ ReadsCurrent'
  BY NobodyReads DEF OneReader, ReadsCurrent

(* What a handler does away from the root leaves the root alone.           *)
LEMMA RootUntouched ==
  ASSUME Current, ShapeInv, RootInv, Alone, pending' = pending,
         \A id \in Ids : rows'[id] # NoRow /\ rows'[id].path.dir = "root" => rows'[id] = rows[id],
         \A p \in Paths : p.dir = "root" => files'[p] = files[p]
  PROVE  RootInv'
  <1>1. \A id \in RootRows' : id \in RootRows /\ rows'[id] = rows[id]
    BY DEF RootRows, Live
  <1>2. \A id \in RootRows : rows[id].path \in Paths /\ rows[id].path.dir = "root"
    BY RowFacts DEF RootRows, Live, ShapeInv
  <1>3. OneRootRow'
    BY <1>1 DEF RootInv, OneRootRow
  <1>4. RootFiles'
    BY <1>1, <1>2 DEF RootInv, RootFiles
  <1>5. QED
    BY <1>3, <1>4, NobodyReadsStill DEF RootInv

(* So does a new row for a file away from the root.                        *)
LEMMA InsertElsewhere ==
  ASSUME Current, ShapeInv, RootInv, Alone, NEW row, row.path.dir # "root", Insert(row),
         \A p \in Paths : p.dir = "root" => files'[p] = files[p]
  PROVE  RootInv'
  <1>1. \A id \in Ids : rows'[id] = row \/ rows'[id] = rows[id]
    BY DEF Insert, ShapeInv
  <1>2. QED
    BY <1>1, RootUntouched DEF Insert

(* A pack starts without rows.                                             *)
LEMMA InitRoot == Init => RootInv
  BY DEF Init, RootInv, OneRootRow, RootFiles, OneReader, ReadsCurrent, RootRows, Live

(* A written file is there; the others are as they were.                   *)
LEMMA WrittenFile ==
  ASSUME ShapeInv, NEW p \in Paths, NEW f, files' = [files EXCEPT ![p] = f]
  PROVE  files'[p] = f /\ \A q \in Paths \ {p} : files'[q] = files[q]
  BY DEF ShapeInv

(* No step that acts on what it just read confuses the root.               *)
LEMMA NextRoot ==
  ASSUME Current, ShapeInv, RootInv, [Next]_vars
  PROVE  RootInv'
  <1>1. ASSUME NEW n \in Names, UploadJAR(n) PROVE RootInv'
    <2> DEFINE p == MetaPath("mods", n)
    <2>1. p \in Paths /\ p.dir # "root" /\ Alone
      BY <1>1, PathFacts DEF UploadJAR
    <2>2. PICK side \in Sides : /\ Insert(Row("mod", "custom", p, side))
                                /\ files' = [files EXCEPT ![p] = Metadata(side, FALSE)]
      BY <1>1 DEF UploadJAR
    <2> HIDE DEF p
    <2>3. Row("mod", "custom", p, side).path = p
      BY DEF Row
    <2>4. QED
      BY <2>1, <2>2, <2>3, WrittenFile, InsertElsewhere
  <1>2. ASSUME NEW n \in Names, StoreClientFile(n) PROVE RootInv'
    <2> DEFINE p == MetaPath("root", n)
               existing == {id \in Claims(p) : rows[id].provider = "client-file"}
    <2>1. p \in Paths /\ p.dir = "root" /\ Alone
      BY <1>2, PathFacts DEF StoreClientFile
    <2>2. /\ files' = [files EXCEPT ![p] = Metadata("client", FALSE)]
          /\ \/ existing = {} /\ files[p] = Absent /\ Insert(Row("file", "client-file", p, "client"))
             \/ existing # {} /\ UNCHANGED << rows, last, pending >>
      BY <1>2 DEF StoreClientFile
    <2>3. \A id \in existing : id \in RootRows /\ rows[id].path = p /\ ~SideApplies(rows[id])
      BY <2>1 DEF Claims, RootRows, SideApplies
    <2> HIDE DEF p, existing
    <2>4. /\ files'[p] # Absent
          /\ \A q \in Paths \ {p} : files'[q] = files[q]
      <3>1. files'[p] = Metadata("client", FALSE) /\ \A q \in Paths \ {p} : files'[q] = files[q]
        BY <2>1, <2>2, WrittenFile
      <3>2. QED
        BY <3>1 DEF Metadata, Absent
    <2>5. \A id \in RootRows : rows[id].path \in Paths
      BY RowFacts DEF RootRows, Live, ShapeInv
    <2>6. CASE files[p] = Absent /\ Insert(Row("file", "client-file", p, "client"))
      <3> DEFINE row == Row("file", "client-file", p, "client")
      <3>1. row.path = p /\ ~SideApplies(row)
        BY DEF Row, SideApplies
      <3> HIDE DEF row
      <3>2. Insert(row)
        BY <2>6 DEF row
      <3>3. \A id \in RootRows : rows[id].path # p
        BY <2>6 DEF RootInv, RootFiles
      <3>4. \A id \in RootRows' : \/ id = last + 1 /\ rows'[id] = row
                                  \/ id # last + 1 /\ id \in RootRows /\ rows'[id] = rows[id]
        BY <3>2 DEF Insert, RootRows, Live, ShapeInv
      <3>5. OneRootRow'
        BY <3>1, <3>3, <3>4 DEF RootInv, OneRootRow
      <3>6. RootFiles'
        BY <2>4, <2>5, <3>1, <3>3, <3>4 DEF RootInv, RootFiles
      <3>7. QED
        BY <2>1, <3>2, <3>5, <3>6, NobodyReadsStill DEF RootInv, Insert
    <2>7. CASE existing # {} /\ UNCHANGED << rows, last, pending >>
      <3>1. RootRows' = RootRows /\ rows' = rows
        BY <2>7 DEF RootRows, Live
      <3>2. \A id \in RootRows : rows[id].path = p => ~SideApplies(rows[id])
        BY <2>3, <2>7 DEF RootInv, OneRootRow
      <3>3. OneRootRow'
        BY <3>1 DEF RootInv, OneRootRow
      <3>4. RootFiles'
        BY <2>4, <2>5, <3>1, <3>2 DEF RootInv, RootFiles
      <3>5. QED
        BY <2>1, <2>7, <3>3, <3>4, NobodyReadsStill DEF RootInv
    <2>8. QED
      BY <2>2, <2>6, <2>7
  <1>3. ASSUME NEW p \in Paths, AddMod(p) PROVE RootInv'
    <2>1. p.dir # "root" /\ Alone
      BY <1>3, PathFacts DEF AddMod
    <2>2. PICK side \in Sides, created \in PackwizAdds(p) :
            /\ Insert(Row("mod", "modrinth", p, side))
            /\ files' = NewMetadata(p, created, side)
      BY <1>3 DEF AddMod
    <2>3. Row("mod", "modrinth", p, side).path = p
      BY DEF Row
    <2>4. ASSUME NEW q \in Paths, q.dir = "root" PROVE files'[q] = files[q]
      <3>1. q # p /\ q \notin created
        BY <2>1, <2>4, PathFacts DEF PackwizAdds
      <3>2. QED
        BY <2>2, <3>1 DEF NewMetadata
    <2>5. QED
      BY <2>1, <2>2, <2>3, <2>4, InsertElsewhere
  <1>4. ASSUME NEW p \in ManagedPaths, ImportURL(p) PROVE RootInv'
    <2>1. p \in Paths /\ p.dir # "root" /\ Alone
      BY <1>4, PathFacts DEF ImportURL
    <2>2. PICK side \in Sides : Insert(Row("file", "url", p, side))
      BY <1>4 DEF ImportURL
    <2>3. files' = [files EXCEPT ![p] = Upload(p)]
      BY <1>4 DEF ImportURL
    <2>4. Row("file", "url", p, side).path = p
      BY DEF Row
    <2>5. QED
      BY <2>1, <2>2, <2>3, <2>4, WrittenFile, InsertElsewhere
  <1>5. ASSUME NEW p \in ManagedPaths, UploadFile(p) PROVE RootInv'
    <2> DEFINE old == {id \in Claims(p) : rows[id].kind # "mod"}
    <2>1. p \in Paths /\ p.dir # "root" /\ Alone
      BY <1>5, PathFacts DEF UploadFile
    <2>2. \A q \in Paths : q.dir = "root" => files'[q] = files[q]
      BY <1>5, <2>1, WrittenFile DEF UploadFile
    <2>3. CASE old = {}
      <3>1. Insert(Row("file", "local", p, "both"))
        BY <1>5, <2>3 DEF UploadFile
      <3>2. Row("file", "local", p, "both").path = p
        BY DEF Row
      <3>3. QED
        BY <2>1, <2>2, <3>1, <3>2, InsertElsewhere
    <2>4. CASE old # {}
      <3>1. /\ rows' = [id \in Ids |->
                          IF id \notin old THEN rows[id]
                          ELSE IF \A other \in old : id <= other
                            THEN [rows[id] EXCEPT !.provider = "local"]
                            ELSE NoRow]
            /\ pending' = pending
        BY <1>5, <2>4 DEF UploadFile
      <3>2. ASSUME NEW id \in old PROVE [rows[id] EXCEPT !.provider = "local"].path = p
        <4>1. rows[id] \in GoodRows /\ rows[id].path = p
          BY DEF Claims, Live, ShapeInv
        <4>2. QED
          BY <4>1 DEF GoodRows, Rows
      <3>3. ASSUME NEW id \in Ids, rows'[id] # NoRow, rows'[id].path.dir = "root"
            PROVE  rows'[id] = rows[id]
        BY <2>1, <3>1, <3>2, <3>3
      <3>4. QED
        BY <2>1, <2>2, <3>1, <3>3, RootUntouched
    <2>5. QED
      BY <2>3, <2>4
  <1>6. ASSUME NEW ids \in SUBSET Live, RemoveFileItems(ids) PROVE RootInv'
    <2>1. /\ Alone /\ pending' = pending
          /\ rows' = [id \in Ids |-> IF id \in ids THEN NoRow ELSE rows[id]]
          /\ files' = [p \in Paths |-> IF \E id \in ids : rows[id].path = p THEN Absent
                                       ELSE files[p]]
      BY <1>6 DEF RemoveFileItems
    <2>2. \A id \in RootRows' : id \notin ids /\ rows'[id] = rows[id] /\ id \in RootRows
      BY <2>1 DEF RootRows, Live
    <2>3. \A id \in RootRows : rows[id].path \in Paths
      BY RowFacts DEF RootRows, Live, ShapeInv
    <2>4. ASSUME NEW id \in RootRows, id \notin ids
          PROVE  files'[rows[id].path] = files[rows[id].path]
      <3>1. \A i \in ids : rows[i].path # rows[id].path
        BY <2>4 DEF RootInv, OneRootRow, RootRows
      <3>2. QED
        BY <2>1, <2>3, <3>1
    <2>5. OneRootRow'
      BY <2>2 DEF RootInv, OneRootRow
    <2>6. RootFiles'
      BY <2>2, <2>4 DEF RootInv, RootFiles
    <2>7. QED
      BY <2>1, <2>5, <2>6, NobodyReadsStill DEF RootInv
  <1>7. ASSUME NEW dir \in {"config", "resourcepacks"}, RemoveFolder(dir) PROVE RootInv'
    <2>1. /\ Alone /\ pending' = pending
          /\ \A id \in Ids : rows'[id] # NoRow => rows'[id] = rows[id]
          /\ files' = [p \in Paths |-> IF p.dir = dir THEN Absent ELSE files[p]]
      BY <1>7 DEF RemoveFolder
    <2>2. QED
      BY <2>1, RootUntouched
  <1>8. ASSUME NEW content \in Archives \cup OwnCopies, ReplaceFromArchive(content)
        PROVE  RootInv'
    <2>1. Alone /\ pending' = pending /\ files' = content
      BY <1>8 DEF ReplaceFromArchive
    <2>2. OneRootRow'
      <3>1. \A i, j \in Ids :
              rows'[i] # NoRow /\ rows'[j] # NoRow /\ rows'[i].path = rows'[j].path => i = j
        BY <1>8, RowsAfterImport
      <3>2. QED
        BY <3>1 DEF OneRootRow, RootRows, Live
    <2>3. ASSUME NEW id \in RootRows'
          PROVE  /\ files'[rows'[id].path] # Absent
                 /\ SideApplies(rows'[id]) => files'[rows'[id].path].update
      <3>1. id \in Ids /\ rows'[id] # NoRow
        BY DEF RootRows, Live
      <3>2. PICK p \in Listed(content) :
              rows'[id] = ImportedRow(p, content[p]) /\ rows'[id].path = p
        BY <1>8, <3>1, RowsAfterImport
      <3>3. content[p] # Absent
        BY DEF Listed
      <3>4. p \in Paths /\ content[p] \in GoodFiles(p)
        BY ArchiveIsGood DEF Listed
      <3>5. SideApplies(ImportedRow(p, content[p])) => content[p].update
        BY <3>3, <3>4 DEF SideApplies, ImportedRow, Row, GoodFiles
      <3>6. QED
        BY <2>1, <3>2, <3>3, <3>5
    <2>4. RootFiles'
      BY <2>3 DEF RootFiles
    <2>5. QED
      BY <2>1, <2>2, <2>4, NobodyReadsStill DEF RootInv
  <1>9. ASSUME NEW r \in Readers, UpdateItemSide(r) PROVE RootInv'
    <2> DEFINE v == pending[r]
               p == v.row.path
               id == v.id
    <2>1. v \in GoodReads /\ v # Nothing /\ p \in Paths /\ id \in Ids /\ v.side \in Sides
      BY <1>9, RowFacts DEF UpdateItemSide, ShapeInv, GoodReads
    <2>2. \A s \in Readers : pending'[s] = Nothing
      BY <1>9, <2>1 DEF UpdateItemSide, RootInv, OneReader, ShapeInv
    <2>3. rows[id] = v.row /\ v.row \in GoodRows /\ v.row # NoRow
      BY <2>1, RowFacts DEF RootInv, ReadsCurrent, GoodReads
    <2>4. CASE files[p] = Absent
      <3>1. UNCHANGED << rows, files >>
        BY <1>9, <2>4 DEF UpdateItemSide
      <3>2. OneRootRow' /\ RootFiles'
        BY <3>1 DEF RootInv, OneRootRow, RootFiles, RootRows, Live
      <3>3. QED
        BY <2>2, <3>2 DEF RootInv, OneReader, ReadsCurrent
    <2>5. CASE files[p] # Absent
      <3>1. /\ rows' = [rows EXCEPT ![id].side = IF rows[id] = NoRow THEN @ ELSE v.side]
            /\ files' = [files EXCEPT ![p].side = v.side]
        BY <1>9, <2>5 DEF UpdateItemSide, SetMetadataSide
      <3> HIDE DEF v, p, id
      <3>2. /\ rows'[id] = [rows[id] EXCEPT !.side = v.side]
            /\ \A i \in Ids \ {id} : rows'[i] = rows[i]
        <4>1. rows[id] # NoRow
          BY <2>3
        <4>2. rows' = [rows EXCEPT ![id] = [rows[id] EXCEPT !.side = v.side]]
          BY <3>1, <4>1
        <4>3. QED
          BY <2>1, <4>2 DEF ShapeInv
      <3>3. files' = [files EXCEPT ![p] = [files[p] EXCEPT !.side = v.side]]
        BY <3>1
      <3>4. /\ [files[p] EXCEPT !.side = v.side] # Absent
            /\ [files[p] EXCEPT !.side = v.side].update = files[p].update
        <4>1. files[p] \in GoodFiles(p)
          BY <2>1 DEF ShapeInv
        <4>2. QED
          BY <2>1, <2>5, <4>1, SideChangeIsGood DEF GoodFiles
      <3>5. \A q \in Paths : files[q] # Absent => files'[q] # Absent /\ files'[q].update = files[q].update
        BY <2>1, <3>3, <3>4, WrittenFile
      <3>6. rows'[id].path = rows[id].path /\ (SideApplies(rows'[id]) => SideApplies(rows[id]))
        BY <2>3, <3>2 DEF GoodRows, Rows, SideApplies
      <3>7. \A i \in RootRows' : /\ i \in RootRows /\ rows'[i].path = rows[i].path
                                 /\ SideApplies(rows'[i]) => SideApplies(rows[i])
        BY <2>1, <2>3, <3>2, <3>6 DEF RootRows, Live
      <3>8. \A i \in RootRows : rows[i].path \in Paths
        BY RowFacts DEF RootRows, Live, ShapeInv
      <3>9. OneRootRow'
        BY <3>7 DEF RootInv, OneRootRow
      <3>10. RootFiles'
        BY <3>5, <3>7, <3>8 DEF RootInv, RootFiles
      <3>11. QED
        BY <2>2, <3>9, <3>10 DEF RootInv, OneReader, ReadsCurrent
    <2>6. QED
      BY <2>4, <2>5
  <1>10. ASSUME NEW r \in Readers, RemoveItem(r) PROVE RootInv'
    <2> DEFINE v == pending[r]
               p == v.row.path
    <2>1. v \in GoodReads /\ v # Nothing /\ v.id \in Ids
      BY <1>10, RowFacts DEF RemoveItem, ShapeInv, GoodReads
    <2>2. \A s \in Readers : pending'[s] = Nothing
      BY <1>10, <2>1 DEF RemoveItem, RootInv, OneReader, ShapeInv
    <2>3. v.id \in Live /\ rows[v.id].path = p
      BY <2>1, RowFacts DEF RootInv, ReadsCurrent, Live, GoodReads
    <2>4. rows' = [rows EXCEPT ![v.id] = NoRow] /\ files' = [files EXCEPT ![p] = Absent]
      BY <1>10 DEF RemoveItem
    <2> HIDE DEF v, p
    <2>5. \A i \in RootRows' : i # v.id /\ i \in RootRows /\ rows'[i] = rows[i]
      BY <2>3, <2>4 DEF ShapeInv, RootRows, Live
    <2>6. ASSUME NEW i \in RootRows, i # v.id
          PROVE  files'[rows[i].path] = files[rows[i].path]
      <3>1. rows[i].path # p
        BY <2>3, <2>6 DEF RootInv, OneRootRow, RootRows
      <3>2. rows[i].path \in Paths
        BY RowFacts DEF RootRows, Live, ShapeInv
      <3>3. QED
        BY <2>4, <3>1, <3>2 DEF ShapeInv
    <2>7. OneRootRow'
      BY <2>5 DEF RootInv, OneRootRow
    <2>8. RootFiles'
      BY <2>5, <2>6 DEF RootInv, RootFiles
    <2>9. QED
      BY <2>2, <2>7, <2>8 DEF RootInv, OneReader, ReadsCurrent
  <1>11. ASSUME NEW r \in Readers, NEW id \in Live, ReadItem(r, id) PROVE RootInv'
    <2>1. Alone /\ UNCHANGED << rows, files >>
      BY <1>11 DEF ReadItem
    <2>2. PICK v \in [op : {"side", "remove"}, id : {id}, row : {rows[id]}, side : Sides] :
            pending' = [pending EXCEPT ![r] = v]
      BY <1>11 DEF ReadItem
    <2>3. \A s \in Readers : pending'[s] # Nothing => s = r /\ pending'[s] = v
      BY <2>1, <2>2, NobodyReads DEF ShapeInv
    <2>4. OneReader' /\ ReadsCurrent'
      BY <2>1, <2>2, <2>3 DEF OneReader, ReadsCurrent
    <2>5. OneRootRow' /\ RootFiles'
      BY <2>1 DEF RootInv, OneRootRow, RootFiles, RootRows, Live
    <2>6. QED
      BY <2>4, <2>5 DEF RootInv
  <1>12. CASE UNCHANGED vars
    BY <1>12 DEF vars, RootInv, OneRootRow, RootFiles, OneReader, ReadsCurrent, RootRows, Live
  <1>13. QED
    BY <1>1, <1>2, <1>3, <1>4, <1>5, <1>6, <1>7, <1>8, <1>9, <1>10, <1>11, <1>12 DEF Next

(* Where files at the root only stay or go, client files stay for clients. *)
LEMMA RootFilesKeep ==
  ASSUME \A p \in Paths : p.dir = "root" => files'[p] = files[p] \/ files'[p] = Absent
  PROVE  KeepsClientFiles
  BY PathFacts DEF KeepsClientFiles, ClientOnly

(* No step but the import of an archive from elsewhere makes metadata that *)
(* is for clients only something else.                                     *)
LEMMA NextKeepsClientFiles ==
  ASSUME Current, ShapeInv, RootInv, Next
  PROVE  KeepsClientFiles
  <1>1. ASSUME NEW n \in Names, UploadJAR(n) PROVE KeepsClientFiles
    <2> DEFINE p == MetaPath("mods", n)
    <2>1. p \in Paths /\ p.dir # "root"
      BY PathFacts
    <2>2. \E side \in Sides : files' = [files EXCEPT ![p] = Metadata(side, FALSE)]
      BY <1>1 DEF UploadJAR
    <2> HIDE DEF p
    <2>3. QED
      BY <2>1, <2>2, WrittenFile, RootFilesKeep
  <1>2. ASSUME NEW n \in Names, StoreClientFile(n) PROVE KeepsClientFiles
    <2> DEFINE p == MetaPath("root", n)
    <2>1. p \in Paths
      BY PathFacts
    <2>2. files' = [files EXCEPT ![p] = Metadata("client", FALSE)]
      BY <1>2 DEF StoreClientFile
    <2> HIDE DEF p
    <2>3. files'[p] = Metadata("client", FALSE) /\ \A q \in Paths \ {p} : files'[q] = files[q]
      BY <2>1, <2>2, WrittenFile
    <2>4. files'[p].side = "client"
      BY <2>3 DEF Metadata
    <2>5. QED
      BY <2>3, <2>4, PathFacts DEF KeepsClientFiles, ClientOnly
  <1>3. ASSUME NEW p \in Paths, AddMod(p) PROVE KeepsClientFiles
    <2>1. p.dir # "root"
      BY <1>3, PathFacts DEF AddMod
    <2>2. PICK side \in Sides, created \in PackwizAdds(p) : files' = NewMetadata(p, created, side)
      BY <1>3 DEF AddMod
    <2>3. ASSUME NEW q \in Paths, q.dir = "root" PROVE files'[q] = files[q]
      <3>1. q # p /\ q \notin created
        BY <2>1, <2>3, PathFacts DEF PackwizAdds
      <3>2. QED
        BY <2>2, <3>1 DEF NewMetadata
    <2>4. QED
      BY <2>3, RootFilesKeep
  <1>4. ASSUME NEW p \in ManagedPaths, ImportURL(p) \/ UploadFile(p) PROVE KeepsClientFiles
    <2>1. p \in Paths /\ p.dir # "root"
      BY PathFacts
    <2>2. files' = [files EXCEPT ![p] = Upload(p)]
      BY <1>4 DEF ImportURL, UploadFile
    <2>3. QED
      BY <2>1, <2>2, WrittenFile, RootFilesKeep
  <1>5. ASSUME NEW ids \in SUBSET Live, RemoveFileItems(ids) PROVE KeepsClientFiles
    BY <1>5, RootFilesKeep DEF RemoveFileItems
  <1>6. ASSUME NEW dir \in {"config", "resourcepacks"}, RemoveFolder(dir) PROVE KeepsClientFiles
    BY <1>6, RootFilesKeep DEF RemoveFolder
  <1>7. ASSUME NEW content \in Archives \cup OwnCopies, ReplaceFromArchive(content)
        PROVE  KeepsClientFiles
    <2>1. CASE content \in Archives
      BY <1>7, <2>1 DEF KeepsClientFiles
    <2>2. CASE content \in OwnCopies
      <3>1. files' = content
        BY <1>7 DEF ReplaceFromArchive
      <3>2. \A p \in Paths : content[p] = files[p] \/ content[p] = Absent
        BY <2>2 DEF OwnCopies
      <3>3. QED
        BY <3>1, <3>2, RootFilesKeep
    <2>3. QED
      BY <2>1, <2>2
  <1>8. ASSUME NEW r \in Readers, UpdateItemSide(r) PROVE KeepsClientFiles
    <2> DEFINE v == pending[r]
               p == v.row.path
    <2>1. v \in GoodReads /\ v # Nothing /\ v.op = "side" /\ p \in Paths /\ v.id \in Ids
      BY <1>8, RowFacts DEF UpdateItemSide, ShapeInv, GoodReads
    <2>2. v.row \in GoodRows /\ rows[v.id] = v.row /\ SideApplies(v.row)
      BY <2>1 DEF RootInv, ReadsCurrent, GoodReads
    <2>3. p.dir = "root" => files[p].update
      BY <2>1, <2>2, RowFacts DEF RootInv, RootFiles, RootRows, Live
    <2>4. files' = files \/ files' = [files EXCEPT ![p].side = v.side]
      BY <1>8 DEF UpdateItemSide, SetMetadataSide
    <2> HIDE DEF v, p
    <2>5. \A q \in Paths \ {p} : files'[q] = files[q]
      BY <2>1, <2>4 DEF ShapeInv
    <2>6. QED
      BY <2>3, <2>5, PathFacts DEF KeepsClientFiles, ClientOnly
  <1>9. ASSUME NEW r \in Readers, RemoveItem(r) PROVE KeepsClientFiles
    <2>1. pending[r].row.path \in Paths /\ files' = [files EXCEPT ![pending[r].row.path] = Absent]
      BY <1>9, RowFacts DEF RemoveItem, ShapeInv, GoodReads
    <2>2. QED
      BY <2>1, WrittenFile, RootFilesKeep
  <1>10. ASSUME NEW r \in Readers, NEW id \in Live, ReadItem(r, id) PROVE KeepsClientFiles
    BY <1>10, RootFilesKeep DEF ReadItem
  <1>11. QED
    BY <1>1, <1>2, <1>3, <1>4, <1>5, <1>6, <1>7, <1>8, <1>9, <1>10 DEF Next

(* The metadata of a client file stays for clients while it is there, even *)
(* if users store things over each other and remove folders, whichever     *)
(* archives there are and unless one of them says otherwise: as long as no *)
(* request acts on an item it read too long ago.                           *)
THEOREM ClientMetadataForClients == Current => (Spec => ClientFilesStayClient)
  <1> SUFFICES ASSUME Current PROVE Spec => ClientFilesStayClient
    OBVIOUS
  <1>1. Init => ShapeInv /\ RootInv
    BY InitShape, InitRoot
  <1>2. ShapeInv /\ RootInv /\ [Next]_vars => (ShapeInv /\ RootInv)'
    BY NextShape, NextRoot
  <1>3. ShapeInv /\ RootInv /\ [Next]_vars => [KeepsClientFiles]_vars
    BY NextKeepsClientFiles
  <1>4. QED
    BY <1>1, <1>2, <1>3, PTL DEF Spec, ClientFilesStayClient

-----------------------------------------------------------------------------
(* One row for a file, if besides nothing is stored where an item is.      *)
Orderly == Usage \cap {"again", "stale"} = {}

OneRow == \A i, j \in Live : rows[i].path = rows[j].path => i = j


(* Rows that go, or stay where they are, leave one row per file.           *)
LEMMA FewerRows ==
  ASSUME OneRow,
         \A id \in Ids : rows'[id] # NoRow => rows[id] # NoRow /\ rows'[id].path = rows[id].path
  PROVE  OneRow'
  BY DEF OneRow, Live

(* A row for a file that had none leaves one row per file.                 *)
LEMMA OneMoreRow ==
  ASSUME ShapeInv, OneRow, NEW row \in GoodRows, Claims(row.path) = {}, Insert(row)
  PROVE  OneRow'
  <1>1. rows' = [rows EXCEPT ![last + 1] = row]
    BY DEF Insert
  <1>2. \A id \in Live : rows[id].path # row.path
    BY DEF Claims
  <1>3. \A id \in Live' : \/ id = last + 1 /\ rows'[id] = row
                          \/ id # last + 1 /\ id \in Live /\ rows'[id] = rows[id]
    BY <1>1 DEF Live, ShapeInv
  <1>4. QED
    BY <1>2, <1>3 DEF OneRow

(* A pack starts without rows.                                             *)
LEMMA InitOneRow == Init => OneRow
  BY DEF Init, OneRow, Live

(* No orderly step makes a second row for a file.                          *)
LEMMA NextOneRow ==
  ASSUME Orderly, ShapeInv, RootInv, OneRow, [Next]_vars
  PROVE  OneRow'
  <1>s. {"client", "server", "both"} = Sides
    BY DEF Sides
  <1>u. \A p : Unclaimed(p) => Claims(p) = {}
    BY DEF Orderly, Unclaimed
  <1>1. ASSUME NEW n \in Names, UploadJAR(n) PROVE OneRow'
    <2> DEFINE p == MetaPath("mods", n)
    <2>1. p \in Paths /\ p.dir = "mods" /\ p.meta
      BY PathFacts
    <2>2. PICK side \in Sides : Unclaimed(p) /\ Insert(Row("mod", "custom", p, side))
      BY <1>1 DEF UploadJAR
    <2> HIDE DEF p
    <2>3. /\ Row("mod", "custom", p, side) \in GoodRows
          /\ Row("mod", "custom", p, side).path = p
      BY <2>1, RowIsGood DEF Row
    <2>4. QED
      BY <1>u, <2>2, <2>3, OneMoreRow
  <1>2. ASSUME NEW n \in Names, StoreClientFile(n) PROVE OneRow'
    <2> DEFINE p == MetaPath("root", n)
    <2>1. p \in Paths /\ p.dir = "root" /\ p.meta
      BY PathFacts
    <2>2. \/ files[p] = Absent /\ Insert(Row("file", "client-file", p, "client"))
          \/ UNCHANGED << rows, last, pending >>
      BY <1>2 DEF StoreClientFile
    <2> HIDE DEF p
    <2>3. CASE files[p] = Absent /\ Insert(Row("file", "client-file", p, "client"))
      <3>1. /\ Row("file", "client-file", p, "client") \in GoodRows
            /\ Row("file", "client-file", p, "client").path = p
        BY <1>s, <2>1, RowIsGood DEF Row
      <3>2. Claims(p) = {}
        BY <2>1, <2>3 DEF Claims, RootInv, RootFiles, RootRows
      <3>3. QED
        BY <2>3, <3>1, <3>2, OneMoreRow
    <2>4. CASE UNCHANGED << rows, last, pending >>
      BY <2>4, FewerRows
    <2>5. QED
      BY <2>2, <2>3, <2>4
  <1>3. ASSUME NEW p \in Paths, AddMod(p) PROVE OneRow'
    <2>1. p.meta /\ p.dir # "root" /\ Unclaimed(p)
      BY <1>3, PathFacts DEF AddMod
    <2>2. PICK side \in Sides : Insert(Row("mod", "modrinth", p, side))
      BY <1>3 DEF AddMod
    <2>3. /\ Row("mod", "modrinth", p, side) \in GoodRows
          /\ Row("mod", "modrinth", p, side).path = p
      BY <2>1, RowIsGood DEF Row
    <2>4. QED
      BY <1>u, <2>1, <2>2, <2>3, OneMoreRow
  <1>4. ASSUME NEW p \in ManagedPaths, ImportURL(p) PROVE OneRow'
    <2>1. p \in Paths /\ p.dir # "root"
      BY PathFacts
    <2>2. PICK side \in Sides : Unclaimed(p) /\ Insert(Row("file", "url", p, side))
      BY <1>4 DEF ImportURL
    <2>3. Row("file", "url", p, side) \in GoodRows /\ Row("file", "url", p, side).path = p
      BY <2>1, RowIsGood DEF Row
    <2>4. QED
      BY <1>u, <2>2, <2>3, OneMoreRow
  <1>5. ASSUME NEW p \in ManagedPaths, UploadFile(p) PROVE OneRow'
    <2> DEFINE old == {id \in Claims(p) : rows[id].kind # "mod"}
    <2>1. p \in Paths /\ p.dir # "root"
      BY PathFacts
    <2>2. CASE old = {}
      <3>1. Insert(Row("file", "local", p, "both"))
        BY <1>5, <2>2 DEF UploadFile
      <3>2. /\ Row("file", "local", p, "both") \in GoodRows
            /\ Row("file", "local", p, "both").path = p
        BY <1>s, <2>1, RowIsGood DEF Row
      <3>3. Claims(p) = {}
        BY <1>5, <2>2 DEF UploadFile, Orderly
      <3>4. QED
        BY <3>1, <3>2, <3>3, OneMoreRow
    <2>3. CASE old # {}
      <3>1. rows' = [id \in Ids |->
                       IF id \notin old THEN rows[id]
                       ELSE IF \A other \in old : id <= other
                         THEN [rows[id] EXCEPT !.provider = "local"]
                         ELSE NoRow]
        BY <1>5, <2>3 DEF UploadFile
      <3>2. ASSUME NEW id \in old
            PROVE  rows[id] # NoRow /\ [rows[id] EXCEPT !.provider = "local"].path = rows[id].path
        <4>1. rows[id] \in GoodRows
          BY DEF Claims, Live, ShapeInv
        <4>2. QED
          BY <4>1, RowFacts DEF GoodRows, Rows
      <3>3. \A id \in Ids : rows'[id] # NoRow =>
              rows[id] # NoRow /\ rows'[id].path = rows[id].path
        BY <3>1, <3>2
      <3>4. QED
        BY <3>3, FewerRows
    <2>4. QED
      BY <2>2, <2>3
  <1>6. ASSUME NEW ids \in SUBSET Live, RemoveFileItems(ids) PROVE OneRow'
    BY <1>6, FewerRows DEF RemoveFileItems
  <1>7. ASSUME NEW dir \in {"config", "resourcepacks"}, RemoveFolder(dir) PROVE OneRow'
    BY <1>7, FewerRows DEF RemoveFolder
  <1>8. ASSUME NEW content \in Archives \cup OwnCopies, ReplaceFromArchive(content)
        PROVE  OneRow'
    <2>1. \A i, j \in Ids :
            rows'[i] # NoRow /\ rows'[j] # NoRow /\ rows'[i].path = rows'[j].path => i = j
      BY <1>8, RowsAfterImport
    <2>2. QED
      BY <2>1 DEF OneRow, Live
  <1>9. ASSUME NEW r \in Readers, UpdateItemSide(r) PROVE OneRow'
    <2> DEFINE v == pending[r]
               id == v.id
    <2>1. v \in GoodReads /\ id \in Ids
      BY <1>9, RowFacts DEF UpdateItemSide, ShapeInv, GoodReads
    <2>2. \/ rows' = rows
          \/ rows' = [rows EXCEPT ![id].side = IF rows[id] = NoRow THEN @ ELSE v.side]
      BY <1>9 DEF UpdateItemSide
    <2>3. rows[id] = NoRow => [rows[id] EXCEPT !.side = rows[id].side] = NoRow
      BY DEF NoRow
    <2>4. [rows[id] EXCEPT !.side = v.side].path = rows[id].path
      BY <2>1, RowFacts DEF ShapeInv, GoodRows, Rows, NoRow
    <2> HIDE DEF v, id
    <2>5. \A i \in Ids : rows'[i] # NoRow => rows[i] # NoRow /\ rows'[i].path = rows[i].path
      BY <2>1, <2>2, <2>3, <2>4 DEF ShapeInv
    <2>6. QED
      BY <2>5, FewerRows
  <1>10. ASSUME NEW r \in Readers, RemoveItem(r) PROVE OneRow'
    <2>1. \A i \in Ids : rows'[i] # NoRow => rows[i] # NoRow /\ rows'[i] = rows[i]
      BY <1>10 DEF RemoveItem, ShapeInv
    <2>2. QED
      BY <2>1, FewerRows
  <1>11. ASSUME NEW r \in Readers, NEW id \in Live, ReadItem(r, id) PROVE OneRow'
    BY <1>11, FewerRows DEF ReadItem
  <1>12. CASE UNCHANGED vars
    BY <1>12, FewerRows DEF vars
  <1>13. QED
    BY <1>1, <1>2, <1>3, <1>4, <1>5, <1>6, <1>7, <1>8, <1>9, <1>10, <1>11, <1>12 DEF Next

(* Two rows never stand for the same file, even when folders are removed   *)
(* under mods, as long as nothing is stored over an item and no request    *)
(* acts on an item it read too long ago.                                   *)
THEOREM OneRowForAFile == Orderly => (Spec => []OneRowPerFile)
  <1> SUFFICES ASSUME Orderly PROVE Spec => []OneRowPerFile
    OBVIOUS
  <1>0. Current
    BY DEF Orderly, Current
  <1>1. Init => ShapeInv /\ RootInv /\ OneRow
    BY InitShape, InitRoot, InitOneRow
  <1>2. ShapeInv /\ RootInv /\ OneRow /\ [Next]_vars => (ShapeInv /\ RootInv /\ OneRow)'
    BY <1>0, NextShape, NextRoot, NextOneRow
  <1>3. OneRow => OneRowPerFile
    <2> SUFFICES ASSUME OneRow, NEW p \in Paths PROVE Cardinality(Claims(p)) <= 1
      BY DEF OneRowPerFile
    <2>1. CASE Claims(p) = {}
      BY <2>1, FS_EmptySet
    <2>2. CASE Claims(p) # {}
      <3>1. PICK id : Claims(p) = {id}
        BY <2>2 DEF OneRow, Claims
      <3>2. QED
        BY <3>1, FS_Singleton
    <2>3. QED
      BY <2>1, <2>2
  <1>4. QED
    BY <1>1, <1>2, <1>3, PTL DEF Spec

-----------------------------------------------------------------------------
(* Rows and files that agree, if besides no folder goes that holds         *)
(* metadata: RemoveFolder deletes the rows of files only.                  *)
Careful == Usage = {}

(* What the file f of a row has to be; a client file is for clients.       *)
Backed(row, f) ==
  /\ f # Absent
  /\ row.kind = "mod" \/ row.provider = "client-file" => f.side = row.side
  /\ row.provider = "client-file" => row.side = "client"

AgreeInv == \A id \in Live : Backed(rows[id], files[rows[id].path])

(* Each row is as it was, with the file it had, or fits its new file.      *)
LEMMA StillBacked ==
  ASSUME AgreeInv,
         \A id \in Live' :
           \/ id \in Live /\ rows'[id] = rows[id] /\ files'[rows[id].path] = files[rows[id].path]
           \/ Backed(rows'[id], files'[rows'[id].path])
  PROVE  AgreeInv'
  BY DEF AgreeInv, Backed

(* A new row for a file nobody has, with no other file changed.            *)
LEMMA InsertBacked ==
  ASSUME ShapeInv, AgreeInv, NEW row \in GoodRows, Insert(row), Claims(row.path) = {},
         \A q \in Paths \ {row.path} : files[q] # Absent => files'[q] = files[q],
         Backed(row, files'[row.path])
  PROVE  AgreeInv'
  <1>1. \A id \in Live' : \/ rows'[id] = row
                          \/ id \in Live /\ rows'[id] = rows[id]
    BY DEF Insert, Live, ShapeInv
  <1>2. \A id \in Live : rows[id].path \in Paths /\ rows[id].path # row.path
    BY RowFacts DEF Live, ShapeInv, Claims
  <1>3. \A id \in Live : files'[rows[id].path] = files[rows[id].path]
    BY <1>2 DEF AgreeInv, Backed
  <1>4. QED
    BY <1>1, <1>3, StillBacked

(* A pack starts without rows.                                             *)
LEMMA InitAgree == Init => AgreeInv
  BY DEF Init, AgreeInv, Live

(* No careful step takes a row's file away or changes one side only.       *)
LEMMA NextAgree ==
  ASSUME Careful, ShapeInv, RootInv, OneRow, AgreeInv, [Next]_vars
  PROVE  AgreeInv'
  <1>s. {"client", "server", "both"} = Sides
    BY DEF Sides
  <1>u. \A p : Unclaimed(p) => Claims(p) = {}
    BY DEF Careful, Unclaimed
  <1>r. \A id \in Live : rows[id] \in GoodRows /\ rows[id].path \in Paths /\ id \in Ids
    BY RowFacts DEF Live, ShapeInv
  <1>1. ASSUME NEW n \in Names, UploadJAR(n) PROVE AgreeInv'
    <2> DEFINE p == MetaPath("mods", n)
    <2>1. p \in Paths /\ p.dir = "mods" /\ p.meta /\ Claims(p) = {}
      BY <1>1, <1>u, PathFacts DEF UploadJAR
    <2>2. PICK side \in Sides : /\ Insert(Row("mod", "custom", p, side))
                                /\ files' = [files EXCEPT ![p] = Metadata(side, FALSE)]
      BY <1>1 DEF UploadJAR
    <2> HIDE DEF p
    <2>3. Row("mod", "custom", p, side) \in GoodRows
      BY <2>1, RowIsGood
    <2>4. files'[p] = Metadata(side, FALSE) /\ \A q \in Paths \ {p} : files'[q] = files[q]
      BY <2>1, <2>2 DEF ShapeInv
    <2>5. Backed(Row("mod", "custom", p, side), Metadata(side, FALSE))
      BY DEF Backed, Row, Metadata, Absent
    <2>6. Row("mod", "custom", p, side).path = p
      BY DEF Row
    <2>7. QED
      BY <2>1, <2>2, <2>3, <2>4, <2>5, <2>6, InsertBacked
  <1>2. ASSUME NEW n \in Names, StoreClientFile(n) PROVE AgreeInv'
    <2> DEFINE p == MetaPath("root", n)
               existing == {id \in Claims(p) : rows[id].provider = "client-file"}
    <2>1. p \in Paths /\ p.dir = "root" /\ p.meta
      BY PathFacts
    <2>2. /\ files' = [files EXCEPT ![p] = Metadata("client", FALSE)]
          /\ \/ files[p] = Absent /\ Insert(Row("file", "client-file", p, "client"))
             \/ existing # {} /\ UNCHANGED << rows, last, pending >>
      BY <1>2 DEF StoreClientFile
    <2>c. \A e \in existing :
            e \in Live /\ rows[e].path = p /\ rows[e].provider = "client-file"
      BY DEF Claims
    <2> HIDE DEF p, existing
    <2>3. /\ files'[p] = Metadata("client", FALSE)
          /\ \A q \in Paths \ {p} : files'[q] = files[q]
      BY <2>1, <2>2 DEF ShapeInv
    <2>4. CASE files[p] = Absent /\ Insert(Row("file", "client-file", p, "client"))
      <3>1. Row("file", "client-file", p, "client") \in GoodRows
        BY <1>s, <2>1, RowIsGood
      <3>2. /\ Row("file", "client-file", p, "client").path = p
            /\ Backed(Row("file", "client-file", p, "client"), Metadata("client", FALSE))
        BY DEF Row, Backed, Metadata, Absent
      <3>3. Claims(p) = {}
        BY <2>4 DEF Claims, AgreeInv, Backed
      <3>4. QED
        BY <2>3, <2>4, <3>1, <3>2, <3>3, InsertBacked
    <2>5. CASE existing # {} /\ UNCHANGED << rows, last, pending >>
      <3>1. ASSUME NEW id \in Live, rows[id].path = p
            PROVE  Backed(rows[id], Metadata("client", FALSE))
        <4>1. rows[id].provider = "client-file"
          BY <2>c, <2>5, <3>1 DEF OneRow
        <4>2. rows[id].side = "client"
          BY <4>1 DEF AgreeInv, Backed
        <4>3. QED
          BY <4>2 DEF Backed, Metadata, Absent
      <3>2. rows' = rows /\ Live' = Live
        BY <2>5 DEF Live
      <3>3. \A id \in Live : rows[id].path # p => files'[rows[id].path] = files[rows[id].path]
        BY <1>r, <2>3
      <3>4. QED
        BY <2>3, <3>1, <3>2, <3>3, StillBacked
    <2>6. QED
      BY <2>2, <2>4, <2>5
  <1>3. ASSUME NEW p \in Paths, AddMod(p) PROVE AgreeInv'
    <2>1. p.meta /\ p.dir # "root" /\ Claims(p) = {}
      BY <1>3, <1>u, PathFacts DEF AddMod
    <2>2. PICK side \in Sides, created \in PackwizAdds(p) :
            /\ Insert(Row("mod", "modrinth", p, side))
            /\ files' = NewMetadata(p, created, side)
      BY <1>3 DEF AddMod
    <2>3. Row("mod", "modrinth", p, side) \in GoodRows
      BY <2>1, RowIsGood
    <2>4. /\ Row("mod", "modrinth", p, side).path = p
          /\ Backed(Row("mod", "modrinth", p, side), Metadata(side, TRUE))
      BY DEF Row, Backed, Metadata, Absent
    <2>5. ASSUME NEW q \in Paths \ {p}, files[q] # Absent PROVE files'[q] = files[q]
      <3>1. q \notin MetadataFiles => ~q.meta
        BY <2>5 DEF MetadataFiles, ShapeInv, GoodFiles
      <3>2. q \notin created
        BY <3>1, PathFacts DEF PackwizAdds
      <3>3. QED
        BY <2>2, <3>2 DEF NewMetadata
    <2>6. files'[p] = Metadata(side, TRUE)
      BY <2>2 DEF NewMetadata
    <2>7. QED
      BY <2>1, <2>2, <2>3, <2>4, <2>5, <2>6, InsertBacked
  <1>4. ASSUME NEW p \in ManagedPaths, ImportURL(p) PROVE AgreeInv'
    <2>1. p \in Paths /\ p.dir # "root"
      BY PathFacts
    <2>2. PICK side \in Sides : Claims(p) = {} /\ Insert(Row("file", "url", p, side))
      BY <1>4, <1>u DEF ImportURL
    <2>3. Row("file", "url", p, side) \in GoodRows
      BY <2>1, RowIsGood
    <2>4. files' = [files EXCEPT ![p] = Upload(p)] /\ Upload(p) # Absent
      BY <1>4, <2>1, UploadIsGood DEF ImportURL
    <2>5. /\ Row("file", "url", p, side).path = p
          /\ Backed(Row("file", "url", p, side), Upload(p))
      BY <2>4 DEF Row, Backed
    <2>6. files'[p] = Upload(p) /\ \A q \in Paths \ {p} : files'[q] = files[q]
      BY <2>1, <2>4 DEF ShapeInv
    <2>7. QED
      BY <2>2, <2>3, <2>5, <2>6, InsertBacked
  <1>5. ASSUME NEW p \in ManagedPaths, UploadFile(p) PROVE AgreeInv'
    <2> DEFINE old == {id \in Claims(p) : rows[id].kind # "mod"}
    <2>1. p \in Paths /\ p.dir # "root"
      BY PathFacts
    <2>2. files' = [files EXCEPT ![p] = Upload(p)] /\ Upload(p) # Absent
      BY <1>5, <2>1, UploadIsGood DEF UploadFile
    <2>3. files'[p] = Upload(p) /\ \A q \in Paths \ {p} : files'[q] = files[q]
      BY <2>1, <2>2 DEF ShapeInv
    <2>4. old = Claims(p)
      BY <1>5 DEF UploadFile, Careful
    <2>5. CASE old = {}
      <3>1. Insert(Row("file", "local", p, "both"))
        BY <1>5, <2>5 DEF UploadFile
      <3>2. Row("file", "local", p, "both") \in GoodRows
        BY <1>s, <2>1, RowIsGood
      <3>3. /\ Row("file", "local", p, "both").path = p
            /\ Backed(Row("file", "local", p, "both"), Upload(p))
        BY <2>2 DEF Row, Backed
      <3>4. QED
        BY <2>3, <2>4, <2>5, <3>1, <3>2, <3>3, InsertBacked
    <2>6. CASE old # {}
      <3>1. rows' = [id \in Ids |->
                       IF id \notin old THEN rows[id]
                       ELSE IF \A other \in old : id <= other
                         THEN [rows[id] EXCEPT !.provider = "local"]
                         ELSE NoRow]
        BY <1>5, <2>6 DEF UploadFile
      <3>2. ASSUME NEW id \in Live'
            PROVE  \/ /\ id \in Live /\ rows'[id] = rows[id]
                      /\ files'[rows[id].path] = files[rows[id].path]
                   \/ Backed(rows'[id], files'[rows'[id].path])
        <4>1. id \in Ids /\ rows'[id] # NoRow
          BY DEF Live
        <4>2. CASE id \notin old
          <5>1. id \in Live /\ rows'[id] = rows[id]
            BY <3>1, <4>1, <4>2 DEF Live
          <5>2. rows[id].path # p
            BY <2>4, <4>2, <5>1 DEF Claims
          <5>3. QED
            BY <1>r, <2>3, <5>1, <5>2
        <4>3. CASE id \in old
          <5>1. rows'[id] = [rows[id] EXCEPT !.provider = "local"]
            BY <3>1, <4>1, <4>3
          <5>2. rows[id] \in GoodRows /\ rows[id].path = p /\ rows[id].kind # "mod"
            BY <1>r, <4>3 DEF Claims
          <5>3. /\ rows'[id].path = p /\ rows'[id].kind # "mod"
                /\ rows'[id].provider # "client-file"
            BY <5>1, <5>2 DEF GoodRows, Rows
          <5>4. QED
            BY <2>2, <2>3, <5>3 DEF Backed
        <4>4. QED
          BY <4>2, <4>3
      <3>3. QED
        BY <3>2, StillBacked
    <2>7. QED
      BY <2>5, <2>6
  <1>6. ASSUME NEW ids \in SUBSET Live, RemoveFileItems(ids) PROVE AgreeInv'
    <2>1. /\ rows' = [id \in Ids |-> IF id \in ids THEN NoRow ELSE rows[id]]
          /\ files' = [p \in Paths |-> IF \E id \in ids : rows[id].path = p THEN Absent
                                       ELSE files[p]]
      BY <1>6 DEF RemoveFileItems
    <2>2. \A id \in Live' : id \notin ids /\ rows'[id] = rows[id] /\ id \in Live
      BY <2>1 DEF Live
    <2>3. \A id \in Live : id \notin ids => files'[rows[id].path] = files[rows[id].path]
      BY <1>r, <2>1 DEF OneRow
    <2>4. QED
      BY <2>2, <2>3, StillBacked
  <1>7. ASSUME NEW dir \in {"config", "resourcepacks"}, RemoveFolder(dir) PROVE AgreeInv'
    <2>1. /\ rows' = [id \in Ids |->
                        IF rows[id].kind = "file" /\ rows[id].provider # "client-file"
                           /\ rows[id].path.dir = dir
                        THEN NoRow ELSE rows[id]]
          /\ files' = [p \in Paths |-> IF p.dir = dir THEN Absent ELSE files[p]]
      BY <1>7 DEF RemoveFolder
    <2>2. ASSUME NEW p \in Paths, p.dir = dir PROVE files[p].form # "meta"
      <3>1. p \in PathsIn(dir, BOOLEAN)
        BY <2>2 DEF Paths, ManagedPaths, ModPaths, JarPaths, RootPaths, PathsIn
      <3>2. QED
        BY <1>7, <3>1 DEF RemoveFolder, Careful
    <2>3. ASSUME NEW id \in Live'
          PROVE  /\ id \in Live /\ rows'[id] = rows[id]
                 /\ files'[rows[id].path] = files[rows[id].path]
      <3>1. id \in Live /\ rows'[id] = rows[id]
        BY <2>1 DEF Live
      <3>2. ~ (rows[id].kind = "file" /\ rows[id].provider # "client-file"
               /\ rows[id].path.dir = dir)
        BY <2>1 DEF Live
      <3>3. rows[id].path.dir # dir
        <4>1. ASSUME rows[id].path.dir = dir PROVE FALSE
          <5>1. rows[id].kind = "mod" /\ rows[id].path.meta
            BY <1>r, <3>1, <3>2, <4>1 DEF GoodRows
          <5>2. files[rows[id].path].form = "meta"
            BY <1>r, <3>1, <5>1 DEF ShapeInv, GoodFiles, AgreeInv, Backed
          <5>3. QED
            BY <1>r, <2>2, <3>1, <4>1, <5>2
        <4>2. QED
          BY <4>1
      <3>4. QED
        BY <1>r, <2>1, <3>1, <3>3
    <2>4. QED
      BY <2>3, StillBacked
  <1>8. ASSUME NEW content \in Archives \cup OwnCopies, ReplaceFromArchive(content)
        PROVE  AgreeInv'
    <2>1. files' = content
      BY <1>8 DEF ReplaceFromArchive
    <2>2. ASSUME NEW p \in Listed(content) PROVE Backed(ImportedRow(p, content[p]), content[p])
      BY DEF ImportedRow, Row, Backed, Listed
    <2>3. ASSUME NEW id \in Live' PROVE Backed(rows'[id], files'[rows'[id].path])
      <3>1. id \in Ids /\ rows'[id] # NoRow
        BY DEF Live
      <3>2. PICK p \in Listed(content) :
              rows'[id] = ImportedRow(p, content[p]) /\ rows'[id].path = p
        BY <1>8, <3>1, RowsAfterImport
      <3>3. QED
        BY <2>1, <2>2, <3>2
    <2>4. QED
      BY <2>3, StillBacked
  <1>9. ASSUME NEW r \in Readers, UpdateItemSide(r) PROVE AgreeInv'
    <2> DEFINE v == pending[r]
               p == v.row.path
    <2>1. v \in GoodReads /\ v # Nothing /\ v.id \in Ids
      BY <1>9, RowFacts DEF UpdateItemSide, ShapeInv, GoodReads
    <2>2. v.id \in Live /\ rows[v.id] = v.row /\ v.row \in GoodRows /\ p \in Paths
      BY <2>1, RowFacts DEF RootInv, ReadsCurrent, Live, GoodReads
    <2>3. files[p] # Absent
      BY <2>2 DEF AgreeInv, Backed
    <2>4. /\ rows' = [rows EXCEPT ![v.id].side = IF rows[v.id] = NoRow THEN @ ELSE v.side]
          /\ files' = [files EXCEPT ![p].side = v.side]
      BY <1>9, <2>3 DEF UpdateItemSide, SetMetadataSide
    <2>5. /\ rows'[v.id] = [v.row EXCEPT !.side = v.side]
          /\ \A id \in Ids \ {v.id} : rows'[id] = rows[id]
      <3> HIDE DEF v
      <3>1. rows[v.id] # NoRow /\ v.id \in Ids /\ DOMAIN rows = Ids
        BY <2>2, RowFacts DEF ShapeInv, Live
      <3>2. rows' = [rows EXCEPT ![v.id] = [rows[v.id] EXCEPT !.side = v.side]]
        BY <2>4, <3>1
      <3>3. QED
        BY <2>2, <3>1, <3>2 DEF ShapeInv
    <2>6. /\ files'[p] = [files[p] EXCEPT !.side = v.side]
          /\ \A q \in Paths \ {p} : files'[q] = files[q]
      <3> HIDE DEF v, p
      <3>1. QED
        BY <2>2, <2>4 DEF ShapeInv
    <2>7. Backed(rows'[v.id], files'[rows'[v.id].path])
      <3>1. rows'[v.id].path = p /\ rows'[v.id].side = v.side
        BY <2>2, <2>5 DEF GoodRows, Rows
      <3>2. rows'[v.id].provider # "client-file"
        BY <1>9, <2>1, <2>2, <2>5 DEF UpdateItemSide, GoodReads, GoodRows, Rows, SideApplies
      <3>3. files[p] \in GoodFiles(p) /\ v.side \in Sides
        BY <2>1, <2>2 DEF ShapeInv, GoodReads
      <3>4. files'[p] # Absent
        BY <2>2, <2>3, <2>6, <3>3, SideChangeIsGood
      <3>5. files'[p].side = v.side
        BY <2>3, <2>6, <3>3 DEF GoodFiles
      <3>6. QED
        BY <3>1, <3>2, <3>4, <3>5 DEF Backed
    <2>8. ASSUME NEW id \in Live', id # v.id
          PROVE  /\ id \in Live /\ rows'[id] = rows[id]
                 /\ files'[rows[id].path] = files[rows[id].path]
      <3>1. id \in Live /\ rows'[id] = rows[id]
        BY <2>5, <2>8 DEF Live
      <3>2. rows[id].path # p
        BY <2>2, <2>8, <3>1 DEF OneRow
      <3>3. QED
        BY <1>r, <2>6, <3>1, <3>2
    <2>9. QED
      BY <2>7, <2>8, StillBacked
  <1>10. ASSUME NEW r \in Readers, RemoveItem(r) PROVE AgreeInv'
    <2> DEFINE v == pending[r]
               p == v.row.path
    <2>1. v \in GoodReads /\ v # Nothing /\ v.id \in Ids
      BY <1>10, RowFacts DEF RemoveItem, ShapeInv, GoodReads
    <2>2. v.id \in Live /\ rows[v.id].path = p
      BY <2>1, RowFacts DEF RootInv, ReadsCurrent, Live, GoodReads
    <2>3. rows' = [rows EXCEPT ![v.id] = NoRow] /\ files' = [files EXCEPT ![p] = Absent]
      BY <1>10 DEF RemoveItem
    <2> HIDE DEF v, p
    <2>4. \A id \in Live' : id # v.id /\ id \in Live /\ rows'[id] = rows[id]
      BY <2>2, <2>3 DEF ShapeInv, Live
    <2>5. \A id \in Live : id # v.id => files'[rows[id].path] = files[rows[id].path]
      BY <2>2, <2>3 DEF OneRow, ShapeInv
    <2>6. QED
      BY <2>4, <2>5, StillBacked
  <1>11. ASSUME NEW r \in Readers, NEW id \in Live, ReadItem(r, id) PROVE AgreeInv'
    BY <1>11 DEF ReadItem, AgreeInv, Live
  <1>12. CASE UNCHANGED vars
    BY <1>12 DEF vars, AgreeInv, Live
  <1>13. QED
    BY <1>1, <1>2, <1>3, <1>4, <1>5, <1>6, <1>7, <1>8, <1>9, <1>10, <1>11, <1>12 DEF Next

(* All the invariants hold throughout careful use.                       *)
LEMMA CarefulInvariants == Careful => (Spec => [](ShapeInv /\ RootInv /\ OneRow /\ AgreeInv))
  <1> SUFFICES ASSUME Careful PROVE Spec => [](ShapeInv /\ RootInv /\ OneRow /\ AgreeInv)
    OBVIOUS
  <1>1. Orderly /\ Current
    BY DEF Careful, Orderly, Current
  <1>2. Init => ShapeInv /\ RootInv /\ OneRow /\ AgreeInv
    BY InitShape, InitRoot, InitOneRow, InitAgree
  <1>3. ShapeInv /\ RootInv /\ OneRow /\ AgreeInv /\ [Next]_vars => (ShapeInv /\ RootInv /\ OneRow /\ AgreeInv)'
    BY <1>1, NextShape, NextRoot, NextOneRow, NextAgree
  <1>4. QED
    BY <1>2, <1>3, PTL DEF Spec

(* In careful use every row has the file it stands for: no upload, import, *)
(* removal or side change takes away the file of another row.              *)
THEOREM RowsHaveFiles == Careful => (Spec => []EveryRowHasItsFile)
  <1>1. ShapeInv /\ RootInv /\ OneRow /\ AgreeInv => EveryRowHasItsFile
    BY DEF AgreeInv, Backed, EveryRowHasItsFile
  <1>2. QED
    BY <1>1, CarefulInvariants, PTL

(* In careful use the side of a mod or a client file is the same in its    *)
(* row and in its metadata, whichever way either came to be.               *)
THEOREM RowsAndMetadataAgree == Careful => (Spec => []SidesAgree)
  <1>1. ShapeInv /\ RootInv /\ OneRow /\ AgreeInv => SidesAgree
    BY DEF AgreeInv, Backed, SidesAgree
  <1>2. QED
    BY <1>1, CarefulInvariants, PTL
=============================================================================
