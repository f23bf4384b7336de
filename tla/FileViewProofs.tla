--------------------------- MODULE FileViewProofs ---------------------------
(***************************************************************************)
(* Proofs about FileView, for any roots, files and number of clicks.       *)
(*                                                                         *)
(* The argument: at most one load is current, the one that carries         *)
(* requestSeq.  It is for the directory that is shown (Current), because   *)
(* entering another one takes a new number at once; so what it brings      *)
(* belongs there.  And once every change is followed by its load, the      *)
(* current load brings, or has brought, the directory as it is (Fresh).    *)
(***************************************************************************)
EXTENDS FileView, TLAPS

(* A load is for the directory shown if it is not ignored, and what it     *)
(* brings is of the directory it was for.                                  *)
Current ==
  \A l \in loads :
    /\ l.seq <= seq
    /\ l.seq = seq => ~dirty /\ l.dir = path
    /\ l.at = "read" => \A row \in l.got : In(row, l.dir)

BelongInv == FilesTypeOK /\ Current /\ EntriesBelongToPath

(* When no change waits for its answer, the current load brings the        *)
(* directory as it is, and without one the directory is listed as it is.   *)
Settled == ~failed /\ ~dirty /\ \A c \in calls : c.at = "reload"
Fresh ==
  Settled =>
    /\ \A l \in loads : l.seq = seq /\ l.at = "read" => l.got = Listing(path)
    /\ (\A l \in loads : l.seq # seq) => entries = Listing(path)

AtRestInv == BelongInv /\ Fresh

-----------------------------------------------------------------------------
(* Types.                                                                  *)

(* What a directory lists are rows of it.                                  *)
LEMMA ListingIsOfDir ==
  ASSUME FilesTypeOK, NEW d \in Dirs
  PROVE  Listing(d) \subseteq Rows /\ \A row \in Listing(d) : In(row, d)
BY DEF FilesTypeOK, Listing, Rows

(* A load that is begun is a load.                                         *)
LEMMA SentType ==
  ASSUME NEW n \in Nat, NEW d \in Dirs
  PROVE  Sent(n, d) \in Loads
BY DEF Sent, Loads

(* A call that is begun is a call, and its button is one of two.           *)
LEMMA PostType ==
  ASSUME FilesTypeOK, NEW kind \in Kinds, NEW todo \in Seq(Files), NEW gone \in SUBSET Files,
         Post(kind, todo, gone)
  PROVE  /\ calls' \subseteq Calls /\ busy' \subseteq {"working", "editing"}
         /\ clicks' \in Nat
<1>1. clicks' \in Nat /\ path \in Dirs
  BY DEF Post, Click, FilesTypeOK
<1>2. [id |-> clicks', kind |-> kind, todo |-> todo, gone |-> gone,
       from |-> path, at |-> "posting"] \in Calls
  BY <1>1 DEF Calls
<1>3. calls' \subseteq Calls
  BY <1>2 DEF Post, FilesTypeOK
<1>4. busy' \subseteq {"working", "editing"}
  BY DEF Post, Flag, FilesTypeOK
<1> QED BY <1>1, <1>3, <1>4

(* Every click, as the cases of UserActs that begin no call.               *)
LEMMA ClickType ==
  ASSUME FilesTypeOK,
         \/ \E d \in Dirs : Enter(d)
         \/ \E f \in Files : Tick(f) \/ OpenEditor(f)
         \/ Refresh \/ Type \/ GiveUp
  PROVE  FilesTypeOK'
<1>1. ASSUME NEW d \in Dirs, Enter(d) PROVE FilesTypeOK'
  BY <1>1 DEF FilesTypeOK, Enter, Click, Cleared
<1>2. ASSUME NEW f \in Files, Tick(f) PROVE FilesTypeOK'
  BY <1>2 DEF FilesTypeOK, Tick, Click, editorVars, loadVars
<1>3. ASSUME NEW f \in Files, OpenEditor(f) PROVE FilesTypeOK'
  BY <1>3 DEF FilesTypeOK, OpenEditor, Click, shownVars, loadVars
<1>4. ASSUME Refresh PROVE FilesTypeOK'
  <2>1. Sent(seq + 1, path) \in Loads /\ seq + 1 \in Nat
    BY SentType DEF FilesTypeOK
  <2>2. loads' \subseteq Loads /\ seq' \in Nat /\ clicks' \in Nat
    BY <1>4, <2>1 DEF Refresh, Load, Click, FilesTypeOK
  <2>3. loading' \in BOOLEAN /\ failed' \in BOOLEAN /\ dirty' \in BOOLEAN
    BY <1>4 DEF Refresh, Load, FilesTypeOK
  <2> QED BY <1>4, <2>2, <2>3 DEF FilesTypeOK, Refresh, shownVars, editorVars
<1>5. ASSUME Type PROVE FilesTypeOK'
  <2>1. editor' \in [file : Files, unsent : BOOLEAN]
    BY <1>5 DEF FilesTypeOK, Type
  <2> QED BY <1>5, <2>1 DEF FilesTypeOK, Type, Click, shownVars, loadVars
<1>6. ASSUME GiveUp PROVE FilesTypeOK'
  <2>1. editor' \in {Nothing} \cup [file : Files, unsent : BOOLEAN]
    BY <1>6 DEF FilesTypeOK, GiveUp
  <2> QED BY <1>6, <2>1 DEF FilesTypeOK, GiveUp, Click, shownVars, loadVars
<1> QED BY <1>1, <1>2, <1>3, <1>4, <1>5, <1>6

(* The clicks that begin a call.                                           *)
LEMMA PostingType ==
  ASSUME FilesTypeOK,
         \/ \E d \in Dirs : RemoveFolder(d)
         \/ \E f \in Files : ImportUrl(f)
         \/ Upload \/ RemoveRows \/ SaveEditor
  PROVE  FilesTypeOK'
<1>1. ASSUME NEW kind \in Kinds, NEW todo \in Seq(Files), NEW gone \in SUBSET Files,
             Post(kind, todo, gone), editor' \in {Nothing} \cup [file : Files, unsent : BOOLEAN]
      PROVE  FilesTypeOK'
  <2>1. calls' \subseteq Calls /\ busy' \subseteq {"working", "editing"} /\ clicks' \in Nat
    BY <1>1, PostType
  <2> QED BY <1>1, <2>1 DEF FilesTypeOK, Post, shownVars, loadVars
<1>2. ASSUME NEW kind \in Kinds, NEW todo \in Seq(Files), NEW gone \in SUBSET Files,
             Begin(kind, todo, gone)
      PROVE  FilesTypeOK'
  <2>1. editor' \in {Nothing} \cup [file : Files, unsent : BOOLEAN]
    BY <1>2 DEF Begin, FilesTypeOK
  <2> QED BY <1>1, <1>2, <2>1 DEF Begin
<1>3. << >> \in Seq(Files) /\ {} \in SUBSET Files
  OBVIOUS
<1>4. ASSUME NEW d \in Dirs, RemoveFolder(d) PROVE FilesTypeOK'
  <2>1. Below(d) \in SUBSET Files /\ "folder" \in Kinds
    BY DEF Below, Kinds
  <2> QED BY <1>2, <1>3, <1>4, <2>1 DEF RemoveFolder
<1>5. ASSUME NEW f \in Files, ImportUrl(f) PROVE FilesTypeOK'
  <2>1. << f >> \in Seq(Files) /\ "import" \in Kinds
    BY DEF Kinds
  <2> QED BY <1>2, <1>3, <1>5, <2>1 DEF ImportUrl
<1>6. ASSUME Upload PROVE FilesTypeOK'
  <2>1. PICK n \in 1..MaxUpload : \E todo \in [1..n -> Below(path)] : Begin("upload", todo, {})
    BY <1>6 DEF Upload
  <2>2. PICK todo \in [1..n -> Below(path)] : Begin("upload", todo, {})
    BY <2>1
  <2>3. todo \in Seq(Files) /\ "upload" \in Kinds
    BY <2>1, BoundsAssumption DEF Below, Kinds
  <2> QED BY <1>2, <1>3, <2>2, <2>3
<1>7. ASSUME RemoveRows PROVE FilesTypeOK'
  <2>1. PICK gone \in {selected \cap entries} \cup {{f} : f \in entries \cap Files} :
          Begin("remove", << >>, gone)
    BY <1>7 DEF RemoveRows
  <2>2. gone \in SUBSET Files /\ "remove" \in Kinds
    BY <2>1 DEF Kinds, FilesTypeOK
  <2> QED BY <1>2, <1>3, <2>1, <2>2
<1>8. ASSUME SaveEditor PROVE FilesTypeOK'
  <2>1. editor \in [file : Files, unsent : BOOLEAN]
    BY <1>8 DEF SaveEditor, FilesTypeOK
  <2>2. << editor.file >> \in Seq(Files) /\ "save" \in Kinds
    BY <2>1 DEF Kinds
  <2>3. editor' \in {Nothing} \cup [file : Files, unsent : BOOLEAN]
    BY <1>8, <2>1 DEF SaveEditor
  <2> QED BY <1>1, <1>3, <1>8, <2>2, <2>3 DEF SaveEditor
<1> QED BY <1>4, <1>5, <1>6, <1>7, <1>8

(* The effect and the answers to loads.                                    *)
LEMMA LoadingType ==
  ASSUME FilesTypeOK, Effect \/ AnswerLoad
  PROVE  FilesTypeOK'
<1>1. ASSUME Effect PROVE FilesTypeOK'
  <2>1. Sent(seq + 1, path) \in Loads /\ seq + 1 \in Nat
    BY SentType DEF FilesTypeOK
  <2> QED BY <1>1, <2>1 DEF FilesTypeOK, Effect, Load, Cleared
<1>2. ASSUME NEW l \in loads, Serve(l) PROVE FilesTypeOK'
  <2>1. l \in Loads /\ l.dir \in Dirs
    BY DEF FilesTypeOK, Loads
  <2>2. [l EXCEPT !.at = "read", !.got = Listing(l.dir)] \in Loads
    BY <2>1, ListingIsOfDir DEF Loads
  <2>3. loads' \subseteq Loads
    BY <1>2, <2>2 DEF Serve, FilesTypeOK
  <2> QED BY <1>2, <2>3 DEF Serve, FilesTypeOK, shownVars, editorVars
<1>3. ASSUME NEW l \in loads, Arrive(l) PROVE FilesTypeOK'
  <2>1. l.got \subseteq Rows
    BY DEF FilesTypeOK, Loads
  <2> QED BY <1>3, <2>1 DEF Arrive, FilesTypeOK, shownVars, editorVars
<1>4. ASSUME NEW l \in loads, LoadFails(l) PROVE FilesTypeOK'
  BY <1>4 DEF LoadFails, FilesTypeOK, editorVars
<1> QED BY <1>1, <1>2, <1>3, <1>4 DEF AnswerLoad

(* The answers to calls.                                                   *)
LEMMA CallType ==
  ASSUME FilesTypeOK, NEW c \in calls
  PROVE  /\ Done(c) \subseteq Files
         /\ c \in Calls
         /\ c.at = "posting" /\ c.todo # << >> => Tail(c.todo) \in Seq(Files)
<1>1. c \in Calls /\ c.todo \in Seq(Files) /\ c.gone \subseteq Files
  BY DEF FilesTypeOK, Calls
<1>2. c.todo # << >> => Head(c.todo) \in Files /\ Tail(c.todo) \in Seq(Files)
  BY <1>1
<1> QED BY <1>1, <1>2 DEF Done, FilesTypeOK

LEMMA AnsweringType ==
  ASSUME FilesTypeOK, AnswerCall \/ OpenAnswer
  PROVE  FilesTypeOK'
<1>1. ASSUME NEW c \in calls, Store(c) PROVE FilesTypeOK'
  <2> DEFINE rest == IF c.todo = << >> THEN << >> ELSE Tail(c.todo)
  <2>1. c \in Calls /\ rest \in Seq(Files)
    BY <1>1, CallType DEF Store
  <2>2. [c EXCEPT !.todo = rest, !.at = IF rest = << >> THEN "stored" ELSE "posting"] \in Calls
    BY <2>1 DEF Calls
  <2>3. calls' \subseteq Calls
    BY <1>1, <2>2 DEF Store, Moved, FilesTypeOK
  <2>4. disk' \subseteq Files
    BY <1>1, CallType DEF Store
  <2> QED BY <1>1, <2>3, <2>4 DEF Store, FilesTypeOK, shownVars, editorVars, loadVars
<1>2. ASSUME NEW c \in calls, Answer(c) PROVE FilesTypeOK'
  <2>1. Sent(seq + 2, path) \in Loads /\ seq + 2 \in Nat
    BY SentType DEF FilesTypeOK
  <2>2. [c EXCEPT !.at = "reload"] \in Calls
    BY CallType DEF Calls
  <2> QED BY <1>2, <2>1, <2>2 DEF Answer, Moved, Cleared, FilesTypeOK
<1>3. ASSUME NEW c \in calls, Release(c) PROVE FilesTypeOK'
  BY <1>3 DEF Release, FilesTypeOK, shownVars, editorVars, loadVars
<1>4. ASSUME NEW c \in calls, CallFails(c) PROVE FilesTypeOK'
  <2>1. disk' \subseteq Files
    BY <1>4, CallType DEF CallFails, FilesTypeOK
  <2>2. editor' \in {Nothing} \cup [file : Files, unsent : BOOLEAN]
    BY <1>4 DEF CallFails, FilesTypeOK
  <2> QED BY <1>4, <2>1, <2>2 DEF CallFails, FilesTypeOK, shownVars
<1>5. ASSUME OpenAnswer PROVE FilesTypeOK'
  <2>1. [file |-> opening, unsent |-> FALSE] \in [file : Files, unsent : BOOLEAN]
    BY <1>5 DEF OpenAnswer, FilesTypeOK
  <2>2. editor' \in {Nothing} \cup [file : Files, unsent : BOOLEAN]
    BY <1>5, <2>1 DEF OpenAnswer, FilesTypeOK
  <2>3. opening' \in Files \cup {Nothing} /\ busy' \subseteq {"working", "editing"}
    BY <1>5 DEF OpenAnswer, FilesTypeOK
  <2> QED BY <1>5, <2>2, <2>3 DEF OpenAnswer, FilesTypeOK, shownVars, loadVars
<1> QED BY <1>1, <1>2, <1>3, <1>4, <1>5 DEF AnswerCall

(* Every variable keeps to its range.                                      *)
LEMMA TypeInit == Init => FilesTypeOK
<1> SUFFICES ASSUME Init PROVE FilesTypeOK
  OBVIOUS
<1>1. loading \in BOOLEAN /\ dirty \in BOOLEAN /\ failed \in BOOLEAN
  BY DEF Init
<1>2. editor \in {Nothing} \cup [file : Files, unsent : BOOLEAN]
  BY DEF Init
<1>3. seq \in Nat /\ clicks \in Nat
  BY DEF Init
<1> QED BY <1>1, <1>2, <1>3 DEF Init, FilesTypeOK

LEMMA TypeNext == FilesTypeOK /\ [Next]_vars => FilesTypeOK'
<1> SUFFICES ASSUME FilesTypeOK, [Next]_vars PROVE FilesTypeOK'
  OBVIOUS
<1>1. CASE UserActs
  BY <1>1, ClickType, PostingType DEF UserActs
<1>2. CASE Effect \/ AnswerLoad
  BY <1>2, LoadingType
<1>3. CASE AnswerCall \/ OpenAnswer
  BY <1>3, AnsweringType
<1>4. CASE UNCHANGED vars
  BY <1>4 DEF vars, FilesTypeOK, shownVars, editorVars, loadVars
<1> QED BY <1>1, <1>2, <1>3, <1>4 DEF Next, Resting

(* Every variable keeps to its range, for any roots, files and clicks.     *)
THEOREM FilesTypeCorrect == Spec => []FilesTypeOK
BY TypeInit, TypeNext, PTL DEF Spec

-----------------------------------------------------------------------------
(* What is listed belongs to the directory that is shown.                  *)
LEMMA BelongInit == Init => BelongInv
BY TypeInit DEF Init, BelongInv, Current, EntriesBelongToPath

(* A load that is begun takes the place of those under way.                *)
LEMMA LoadIsCurrent ==
  ASSUME BelongInv, NEW n \in {seq + 1, seq + 2},
         seq' = n, loads' = loads \cup {Sent(n, path)}, path' = path, dirty' = FALSE
  PROVE  Current'
<1>1. seq \in Nat /\ \A l \in loads : l.seq \in Nat /\ l.seq <= seq
  BY DEF BelongInv, Current, FilesTypeOK, Loads
<1>2. ASSUME NEW l \in loads
      PROVE  l.seq < n /\ (l.at = "read" => \A row \in l.got : In(row, l.dir))
  BY <1>1 DEF BelongInv, Current
<1>3. /\ Sent(n, path).seq = n /\ Sent(n, path).dir = path /\ Sent(n, path).at = "sent"
  BY DEF Sent
<1> QED BY <1>1, <1>2, <1>3 DEF Current, In

LEMMA BelongNext == BelongInv /\ [Next]_vars => BelongInv'
<1> SUFFICES ASSUME BelongInv, [Next]_vars PROVE Current' /\ EntriesBelongToPath'
  BY TypeNext DEF BelongInv
<1>0. FilesTypeOK /\ Current /\ EntriesBelongToPath
  BY DEF BelongInv
<1>1. CASE UNCHANGED << path, entries, seq, dirty, loads >>
  BY <1>0, <1>1 DEF Current, EntriesBelongToPath, In
<1>2. ASSUME NEW d \in Dirs, Enter(d) PROVE Current' /\ EntriesBelongToPath'
  <2>1. \A l \in loads : l.seq \in Nat /\ l.seq < seq'
    BY <1>0, <1>2 DEF Enter, Current, FilesTypeOK, Loads
  <2> QED BY <1>0, <1>2, <2>1 DEF Enter, Cleared, Current, EntriesBelongToPath, In
<1>3. CASE Refresh
  BY <1>0, <1>3, LoadIsCurrent
     DEF Refresh, Click, Load, FilesTypeOK, EntriesBelongToPath, In, shownVars
<1>4. CASE Effect
  BY <1>0, <1>4, LoadIsCurrent DEF Effect, Load, Cleared, EntriesBelongToPath
<1>5. ASSUME NEW c \in calls, Answer(c) PROVE Current' /\ EntriesBelongToPath'
  BY <1>0, <1>5, LoadIsCurrent DEF Answer, Cleared, EntriesBelongToPath, FilesTypeOK
<1>6. ASSUME NEW l \in loads, Serve(l) PROVE Current' /\ EntriesBelongToPath'
  <2> DEFINE m == [l EXCEPT !.at = "read", !.got = Listing(l.dir)]
  <2>1. l \in Loads /\ l.dir \in Dirs
    BY <1>0 DEF FilesTypeOK, Loads
  <2>2. m.seq = l.seq /\ m.dir = l.dir /\ m.got = Listing(l.dir)
    BY <2>1 DEF Loads
  <2>3. \A row \in Listing(l.dir) : In(row, l.dir)
    BY <1>0, <2>1, ListingIsOfDir
  <2>4. /\ loads' = (loads \ {l}) \cup {m}
        /\ UNCHANGED << path, entries, seq, dirty >>
    BY <1>6 DEF Serve, shownVars
  <2>5. \A row, d : In(row, d)' <=> In(row, d)
    BY DEF In
  <2>6. Current'
    BY <1>0, <2>2, <2>3, <2>4, <2>5 DEF Current
  <2> QED BY <1>0, <2>4, <2>6 DEF EntriesBelongToPath, In
<1>7. ASSUME NEW l \in loads, Arrive(l) PROVE Current' /\ EntriesBelongToPath'
  <2>1. Current'
    BY <1>0, <1>7 DEF Arrive, Current, In
  <2>2. CASE l.seq = seq
    BY <1>0, <1>7, <2>2 DEF Arrive, Current, EntriesBelongToPath, In
  <2>3. CASE l.seq # seq
    <3>1. UNCHANGED << path, entries >>
      BY <1>7, <2>3 DEF Arrive, shownVars
    <3> QED BY <1>0, <2>1, <3>1 DEF EntriesBelongToPath, In
  <2> QED BY <2>1, <2>2, <2>3
<1>8. ASSUME NEW l \in loads, LoadFails(l) PROVE Current' /\ EntriesBelongToPath'
  BY <1>0, <1>8 DEF LoadFails, Current, EntriesBelongToPath, In
<1>9. ASSUME NEW f \in Files, Tick(f) \/ ImportUrl(f) \/ OpenEditor(f)
      PROVE  UNCHANGED << path, entries, seq, dirty, loads >>
  BY <1>9 DEF Tick, ImportUrl, OpenEditor, Begin, Post, shownVars, loadVars
<1>10. ASSUME Upload \/ RemoveRows \/ Type \/ GiveUp \/ SaveEditor
       PROVE  UNCHANGED << path, entries, seq, dirty, loads >>
  BY <1>10 DEF Upload, RemoveRows, Type, GiveUp, SaveEditor, Begin, Post, shownVars, loadVars
<1>11. ASSUME NEW d \in Dirs, RemoveFolder(d)
       PROVE  UNCHANGED << path, entries, seq, dirty, loads >>
  BY <1>11 DEF RemoveFolder, Begin, Post, shownVars, loadVars
<1>12. ASSUME NEW c \in calls, Store(c) \/ Release(c) \/ CallFails(c)
       PROVE  UNCHANGED << path, entries, seq, dirty, loads >>
  BY <1>12 DEF Store, Release, CallFails, shownVars, loadVars
<1>13. ASSUME OpenAnswer \/ UNCHANGED vars
       PROVE  UNCHANGED << path, entries, seq, dirty, loads >>
  BY <1>13 DEF OpenAnswer, vars, shownVars, loadVars
<1> QED
  BY <1>1, <1>2, <1>3, <1>4, <1>5, <1>6, <1>7, <1>8, <1>9, <1>10, <1>11, <1>12, <1>13
     DEF Next, UserActs, AnswerLoad, AnswerCall, Resting

(* The files listed under a directory's name are that directory's, though  *)
(* a mutation loads the directory it was begun in after the user has gone  *)
(* on, for any number of loads on their way and any order of answers.      *)
THEOREM ListingBelongs == Spec => []EntriesBelongToPath
<1>1. BelongInv => EntriesBelongToPath
  BY DEF BelongInv
<1> QED BY <1>1, BelongInit, BelongNext, PTL DEF Spec

-----------------------------------------------------------------------------
(* At rest the listing is the directory as it is.                          *)
LEMMA AtRestInit == Init => AtRestInv
<1>1. Init => dirty = TRUE
  BY DEF Init
<1> QED BY <1>1, BelongInit DEF AtRestInv, Fresh, Settled

(* After a load was begun nothing is claimed until it has been served.     *)
LEMMA LoadIsFresh ==
  ASSUME BelongInv, NEW n \in {seq + 1, seq + 2},
         seq' = n, loads' = loads \cup {Sent(n, path)}
  PROVE  Fresh'
<1>1. \A l \in loads : l.seq # n
  BY DEF BelongInv, Current, FilesTypeOK, Loads
<1>2. Sent(n, path).seq = n /\ Sent(n, path).at = "sent"
  BY DEF Sent
<1> QED BY <1>1, <1>2 DEF Fresh

LEMMA AtRestNext == AtRestInv /\ [Next]_vars => AtRestInv'
<1> SUFFICES ASSUME AtRestInv, [Next]_vars PROVE Fresh'
  BY BelongNext DEF AtRestInv
<1>0. BelongInv /\ FilesTypeOK /\ Current /\ Fresh
  BY DEF AtRestInv, BelongInv
<1>1. CASE UNCHANGED << disk, path, entries, seq, dirty, loads, calls, failed >>
  BY <1>0, <1>1 DEF Fresh, Settled, Listing, In
<1>2. ASSUME Settled' => FALSE PROVE Fresh'
  BY <1>2 DEF Fresh
<1>3. ASSUME NEW d \in Dirs, Enter(d) PROVE Fresh'
  BY <1>2, <1>3 DEF Enter, Settled
<1>4. CASE Refresh \/ Effect
  BY <1>0, <1>4, LoadIsFresh DEF Refresh, Effect, Load
<1>5. ASSUME NEW c \in calls, Answer(c) PROVE Fresh'
  BY <1>0, <1>5, LoadIsFresh DEF Answer
<1>6. ASSUME NEW kind \in Kinds, NEW todo, NEW gone, Post(kind, todo, gone) PROVE Fresh'
  <2> DEFINE c == [id |-> clicks', kind |-> kind, todo |-> todo, gone |-> gone,
                   from |-> path, at |-> "posting"]
  <2>1. c \in calls'
    BY <1>6 DEF Post
  <2>2. c.at # "reload"
    OBVIOUS
  <2> QED BY <1>2, <2>1, <2>2 DEF Settled
<1>7. ASSUME NEW c \in calls, Store(c) PROVE Fresh'
  <2> DEFINE rest == IF c.todo = << >> THEN << >> ELSE Tail(c.todo)
             d == [c EXCEPT !.todo = rest, !.at = IF rest = << >> THEN "stored" ELSE "posting"]
  <2>1. c \in Calls
    BY <1>0 DEF FilesTypeOK
  <2>2. d.at \in {"stored", "posting"} /\ d \in calls'
    BY <1>7, <2>1 DEF Store, Moved, Calls
  <2> QED BY <1>2, <2>2 DEF Settled
<1>8. ASSUME NEW c \in calls, CallFails(c) PROVE Fresh'
  BY <1>2, <1>8 DEF CallFails, Settled
<1>9. ASSUME NEW c \in calls, Release(c) PROVE Fresh'
  <2>1. Settled' => Settled
    BY <1>9 DEF Release, Settled, loadVars
  <2>2. UNCHANGED << disk, path, entries, seq, loads >>
    BY <1>9 DEF Release, shownVars, loadVars
  <2> QED BY <1>0, <2>1, <2>2 DEF Fresh, Listing, In
<1>10. ASSUME NEW l \in loads, Serve(l) PROVE Fresh'
  <2> DEFINE m == [l EXCEPT !.at = "read", !.got = Listing(l.dir)]
  <2>1. m.seq = l.seq /\ m.got = Listing(l.dir)
    BY <1>0 DEF FilesTypeOK, Loads
  <2>2. /\ loads' = (loads \ {l}) \cup {m}
        /\ UNCHANGED << disk, path, entries, seq, dirty, calls, failed >>
    BY <1>10 DEF Serve, shownVars
  <2>3. l.seq = seq => l.dir = path
    BY <1>0 DEF Current
  <2>4. \A d : Listing(d)' = Listing(d)
    BY <2>2 DEF Listing, In
  <2>5. Settled' <=> Settled
    BY <2>2 DEF Settled
  <2>6. (\A k \in loads' : k.seq # seq) => (\A k \in loads : k.seq # seq)
    BY <2>1, <2>2
  <2>7. Settled => \A k \in loads' : k.seq = seq /\ k.at = "read" => k.got = Listing(path)
    BY <1>0, <2>1, <2>2, <2>3 DEF Fresh
  <2> QED BY <1>0, <2>2, <2>4, <2>5, <2>6, <2>7 DEF Fresh
<1>11. ASSUME NEW l \in loads, Arrive(l) PROVE Fresh'
  <2>1. /\ l.at = "read" /\ loads' = loads \ {l}
        /\ UNCHANGED << disk, path, seq, dirty, calls, failed >>
    BY <1>11 DEF Arrive
  <2>2. Listing(path)' = Listing(path) /\ (Settled' <=> Settled)
    BY <2>1 DEF Listing, In, Settled
  <2>3. CASE l.seq = seq
    <3>1. entries' = l.got
      BY <1>11, <2>3 DEF Arrive
    <3>2. Settled => l.got = Listing(path)
      BY <1>0, <2>1, <2>3 DEF Fresh
    <3> QED BY <1>0, <2>1, <2>2, <3>1, <3>2 DEF Fresh
  <2>4. CASE l.seq # seq
    <3>1. entries' = entries
      BY <1>11, <2>4 DEF Arrive, shownVars
    <3> QED BY <1>0, <2>1, <2>2, <2>4, <3>1 DEF Fresh
  <2> QED BY <2>3, <2>4
<1>12. ASSUME NEW l \in loads, LoadFails(l) PROVE Fresh'
  <2>1. CASE l.seq = seq
    BY <1>2, <1>12, <2>1 DEF LoadFails, Settled
  <2>2. CASE l.seq # seq
    <3>1. /\ loads' = loads \ {l}
          /\ UNCHANGED << disk, path, entries, seq, dirty, calls, failed >>
      BY <1>12, <2>2 DEF LoadFails
    <3>2. Listing(path)' = Listing(path) /\ (Settled' <=> Settled)
      BY <3>1 DEF Listing, In, Settled
    <3> QED BY <1>0, <2>2, <3>1, <3>2 DEF Fresh
  <2> QED BY <2>1, <2>2
<1>13. ASSUME NEW f \in Files, Tick(f) \/ OpenEditor(f)
       PROVE  UNCHANGED << disk, path, entries, seq, dirty, loads, calls, failed >>
  BY <1>13 DEF Tick, OpenEditor, shownVars, loadVars
<1>14. ASSUME Type \/ GiveUp \/ OpenAnswer \/ UNCHANGED vars
       PROVE  UNCHANGED << disk, path, entries, seq, dirty, loads, calls, failed >>
  BY <1>14 DEF Type, GiveUp, OpenAnswer, vars, shownVars, loadVars
<1>15. ASSUME NEW d \in Dirs, RemoveFolder(d) PROVE Fresh'
  BY <1>6, <1>15 DEF RemoveFolder, Begin, Kinds
<1>16. ASSUME NEW f \in Files, ImportUrl(f) PROVE Fresh'
  BY <1>6, <1>16 DEF ImportUrl, Begin, Kinds
<1>17. ASSUME Upload \/ RemoveRows \/ SaveEditor PROVE Fresh'
  BY <1>6, <1>17 DEF Upload, RemoveRows, SaveEditor, Begin, Kinds
<1> QED
  BY <1>1, <1>3, <1>4, <1>5, <1>7, <1>8, <1>9, <1>10, <1>11, <1>12, <1>13, <1>14,
     <1>15, <1>16, <1>17
     DEF Next, UserActs, AnswerLoad, AnswerCall, Resting

(* Once everything is answered the listing is the directory as the user's  *)
(* changes left it, whatever the order of the answers, unless something    *)
(* failed since: for any number of changes and loads.                      *)
THEOREM ListingIsDisk == Spec => []AtRestShowsDisk
<1>1. AtRestInv => AtRestShowsDisk
  BY DEF AtRestInv, Fresh, Settled, AtRestShowsDisk, Quiet
<1> QED BY <1>1, AtRestInit, AtRestNext, PTL DEF Spec
=============================================================================
