------------------------------ MODULE FileView ------------------------------
(***************************************************************************)
(* The Files section of the dashboard,                                     *)
(* src/extension/dashboard/components/FileManagerV2.tsx, in one browser    *)
(* tab: a copy of one directory of the pack, the calls that change the     *)
(* pack, and the text editor.  Handlers are asynchronous: between a call   *)
(* and its answer the user goes on clicking, and answers come in any       *)
(* order.  A load carries a number (requestSeq) and is ignored when a      *)
(* later one was begun.  Nobody else changes the pack.                     *)
(***************************************************************************)
EXTENDS Integers, Sequences, FiniteSets

CONSTANTS
  Root, Roots,   \* the list of managed roots, and the roots
  ClientRoot,    \* client-files, the root that holds files only
  Files,         \* the files the pack may have
  HomeOf,        \* HomeOf[f]: the root that f is in
  Nothing,
  MaxUpload,     \* files in one upload
  MaxClicks      \* what the user does: the bound of every counter

ASSUME DirsAssumption ==
  /\ ClientRoot \in Roots /\ Root \notin Roots
  /\ HomeOf \in [Files -> Roots]
  /\ Files \cap ({Root} \cup Roots) = {}
  /\ Nothing \notin Files \cup Roots \cup {Root}
ASSUME BoundsAssumption == MaxUpload \in Nat /\ MaxClicks \in Nat

VARIABLES
  disk,      \* the files the pack has
  path,      \* the directory shown
  entries,   \* the rows listed: files, or roots
  selected,  \* the files ticked
  editor,    \* the file in the editor; unsent: its text was changed since it was
             \* loaded or last posted
  opening,   \* the file whose content was asked for
  busy,      \* "working": the buttons of uploads, "editing": those of the editor
  loading,
  seq,       \* requestSeq
  dirty,     \* path was set and its effect has not run yet
  loads,     \* listings on their way
  calls,     \* mutations on their way
  failed,    \* history: something failed since the last load was begun
  clicks     \* history: how often the user acted

shownVars == << entries, selected >>
editorVars == << editor, opening >>
loadVars == << loading, seq, dirty, loads, failed >>
vars == << disk, path, shownVars, editorVars, busy, loadVars, calls, clicks >>

Dirs == {Root} \cup Roots
Rows == Files \cup Roots
In(row, d) == IF row \in Files THEN HomeOf[row] = d ELSE d = Root

(* Mutant: the list of roots holds the list itself.                        *)
ListingItself(d) == {row \in disk \cup Dirs : In(row, d)}

(* Roots are listed whether they were created yet or not.                  *)
Listing(d) == {row \in disk \cup Roots : In(row, d)}
Below(d) == {f \in Files : d \in {Root, HomeOf[f]}}

Kinds == {"upload", "import", "remove", "folder", "save"}
Flag(kind) == IF kind = "save" THEN "editing" ELSE "working"

Loads == [seq : Nat, dir : Dirs, at : {"sent", "read"}, got : SUBSET Rows]
Calls == [id : Nat, kind : Kinds, todo : Seq(Files), gone : SUBSET Files,
          from : Dirs, at : {"posting", "stored", "reload"}]

(* Just mounted at Root, or a directory was just entered and all is quiet. *)
Init ==
  /\ disk \in SUBSET Files
  /\ path \in Dirs
  /\ entries = {} /\ selected = {}
  /\ editor = Nothing /\ opening = Nothing
  /\ busy = {}
  /\ loading = FALSE /\ seq = 0 /\ dirty = TRUE
  /\ loads = {} /\ calls = {}
  /\ failed = FALSE
  /\ clicks = 0

-----------------------------------------------------------------------------
(* load, from its begin to its answer.                                     *)

Sent(n, d) == [seq |-> n, dir |-> d, at |-> "sent", got |-> {}]

Load(d) ==
  /\ seq' = seq + 1
  /\ loads' = loads \cup {Sent(seq + 1, d)}
  /\ loading' = TRUE
  /\ failed' = FALSE

(* The effect on path and refreshKey clears the view and loads again.      *)
Cleared == entries' = {} /\ selected' = {} /\ editor' = Nothing

Effect ==
  /\ dirty
  /\ dirty' = FALSE
  /\ Cleared
  /\ Load(path)
  /\ UNCHANGED << disk, path, opening, busy, calls, clicks >>

(* The service lists the directory.                                        *)
Serve(l) ==
  /\ l.at = "sent"
  /\ loads' = (loads \ {l}) \cup {[l EXCEPT !.at = "read", !.got = Listing(l.dir)]}
  /\ UNCHANGED << disk, path, shownVars, editorVars, busy, loading, seq, dirty, failed,
                  calls, clicks >>

(* Mutant: an answer is taken over whatever was asked since.               *)
ArriveAlways(l) ==
  /\ l.at = "read"
  /\ loads' = loads \ {l}
  /\ entries' = l.got /\ selected' = selected \cap l.got /\ loading' = FALSE
  /\ UNCHANGED << disk, path, editorVars, busy, seq, dirty, failed, calls, clicks >>

Arrive(l) ==
  /\ l.at = "read"
  /\ loads' = loads \ {l}
  /\ IF l.seq = seq
     THEN entries' = l.got /\ selected' = selected \cap l.got /\ loading' = FALSE
     ELSE UNCHANGED << shownVars, loading >>
  /\ UNCHANGED << disk, path, editorVars, busy, seq, dirty, failed, calls, clicks >>

LoadFails(l) ==
  /\ loads' = loads \ {l}
  /\ IF l.seq = seq
     THEN entries' = {} /\ loading' = FALSE /\ failed' = TRUE
     ELSE UNCHANGED << entries, loading, failed >>
  /\ UNCHANGED << disk, path, selected, editorVars, busy, seq, dirty, calls, clicks >>

-----------------------------------------------------------------------------
(* What the user does.  Effects run before the next event is handled.      *)
Click ==
  /\ clicks < MaxClicks /\ ~dirty
  /\ clicks' = clicks + 1

(* Mutant: the folder that is shown can be entered again.                  *)
EnterAny(d) ==
  /\ Click
  /\ d = Root \/ d \in entries \/ d = path
  /\ seq' = seq + 1
  /\ Cleared
  /\ path' = d /\ dirty' = (d # path)
  /\ UNCHANGED << disk, opening, busy, loading, loads, failed, calls >>

(* Mutant: loads that are under way are not disowned.                      *)
EnterOnly(d) ==
  /\ Click
  /\ d = Root \/ d \in entries \/ d = path
  /\ d # path
  /\ Cleared
  /\ path' = d /\ dirty' = TRUE
  /\ UNCHANGED << disk, opening, busy, seq, loading, loads, failed, calls >>

(* The row of a root, the row ".." or a breadcrumb.                        *)
Enter(d) ==
  /\ Click
  /\ d = Root \/ d \in entries \/ d = path
  /\ d # path
  /\ seq' = seq + 1
  /\ Cleared
  /\ path' = d /\ dirty' = TRUE
  /\ UNCHANGED << disk, opening, busy, loading, loads, failed, calls >>

Refresh ==
  /\ Click
  /\ ~loading
  /\ Load(path)
  /\ UNCHANGED << disk, path, shownVars, editorVars, busy, dirty, calls >>

Tick(f) ==
  /\ Click
  /\ f \in entries \cap Files
  /\ selected' = IF f \in selected THEN selected \ {f} ELSE selected \cup {f}
  /\ UNCHANGED << disk, path, entries, editorVars, busy, loadVars, calls >>

Post(kind, todo, gone) ==
  /\ Click
  /\ busy' = busy \cup {Flag(kind)}
  /\ calls' = calls \cup {[id |-> clicks', kind |-> kind, todo |-> todo, gone |-> gone,
                           from |-> path, at |-> "posting"]}
  /\ UNCHANGED << disk, path, shownVars, opening, loadVars >>

Begin(kind, todo, gone) == Post(kind, todo, gone) /\ UNCHANGED editor

(* Dropping files does not look at working; the buttons do.                *)
Upload ==
  \E n \in 1..MaxUpload : \E todo \in [1..n -> Below(path)] : Begin("upload", todo, {})

ImportUrl(f) ==
  /\ path # ClientRoot /\ "working" \notin busy
  /\ Begin("import", << f >>, {})

RemoveRows ==
  \E rows \in {selected \cap entries} \cup {{f} : f \in entries \cap Files} :
    rows # {} /\ Begin("remove", << >>, rows)

RemoveFolder(d) ==
  /\ "working" \notin busy
  /\ d \in entries \cap Roots /\ d # ClientRoot
  /\ Begin("folder", << >>, Below(d))

OpenEditor(f) ==
  /\ Click
  /\ f \in entries \cap Files /\ "editing" \notin busy
  /\ busy' = busy \cup {"editing"} /\ opening' = f
  /\ UNCHANGED << disk, path, shownVars, editor, loadVars, calls >>

(* The text area stays enabled while the text is being saved.              *)
Type ==
  /\ Click
  /\ editor # Nothing /\ editor' = [editor EXCEPT !.unsent = TRUE]
  /\ UNCHANGED << disk, path, shownVars, opening, busy, loadVars, calls >>

(* The buttons Close and Reset.                                            *)
GiveUp ==
  /\ Click
  /\ editor # Nothing /\ "editing" \notin busy
  /\ \/ editor' = Nothing
     \/ editor.unsent /\ editor' = [editor EXCEPT !.unsent = FALSE]
  /\ UNCHANGED << disk, path, shownVars, opening, busy, loadVars, calls >>

SaveEditor ==
  /\ editor # Nothing /\ "editing" \notin busy
  /\ editor.unsent
  /\ Post("save", << editor.file >>, {})
  /\ editor' = [editor EXCEPT !.unsent = FALSE]

-----------------------------------------------------------------------------
(* Answers to what the user did.                                           *)
Moved(c, d) == calls' = (calls \ {c}) \cup {d}

(* The service stores the next file, or removes what was named.            *)
Done(c) == IF c.todo = << >> THEN disk \ c.gone ELSE disk \cup {Head(c.todo)}

Store(c) ==
  /\ c.at = "posting"
  /\ disk' = Done(c)
  /\ LET rest == IF c.todo = << >> THEN << >> ELSE Tail(c.todo)
     IN  Moved(c, [c EXCEPT !.todo = rest,
                            !.at = IF rest = << >> THEN "stored" ELSE "posting"])
  /\ UNCHANGED << path, shownVars, editorVars, busy, loadVars, clicks >>

(* Mutant: only the handler loads, for the directory it was called in.     *)
AnswerHere(c) ==
  /\ c.at = "stored" /\ ~dirty
  /\ Load(c.from)
  /\ Moved(c, [c EXCEPT !.at = "reload"])
  /\ UNCHANGED << disk, path, shownVars, editorVars, busy, dirty, clicks >>

(* The last answer: the handler tells its parent, which bumps refreshKey,  *)
(* and begins to load the directory it was called in, with number seq + 1; *)
(* the effect on refreshKey clears the view and loads the directory shown  *)
(* now, with number seq + 2.  The first of these is ignored from birth.    *)
Answer(c) ==
  /\ c.at = "stored" /\ ~dirty
  /\ Moved(c, [c EXCEPT !.at = "reload"])
  /\ seq' = seq + 2
  /\ loads' = loads \cup {Sent(seq + 2, path)}
  /\ loading' = TRUE /\ failed' = FALSE
  /\ Cleared
  /\ UNCHANGED << disk, path, opening, busy, dirty, clicks >>

(* The handler awaits the ignored load before it releases its buttons.     *)
Release(c) ==
  /\ c.at = "reload"
  /\ calls' = calls \ {c}
  /\ busy' = busy \ {Flag(c.kind)}
  /\ UNCHANGED << disk, path, shownVars, editorVars, loadVars, clicks >>

(* A refused path, an error or a lost answer: no load follows, not even    *)
(* after an upload that stored some of its files.                          *)
CallFails(c) ==
  /\ c.at # "reload"
  /\ disk' \in IF c.at = "posting" THEN {disk, Done(c)} ELSE {disk}
  /\ calls' = calls \ {c}
  /\ busy' = busy \ {Flag(c.kind)}
  /\ failed' = TRUE
  /\ IF c.kind = "save" /\ editor # Nothing
     THEN editor' = [editor EXCEPT !.unsent = TRUE]
     ELSE UNCHANGED editor
  /\ UNCHANGED << path, shownVars, opening, loading, seq, dirty, loads, clicks >>

(* The content arrives.  No number guards it.                              *)
OpenAnswer ==
  /\ opening # Nothing
  /\ opening' = Nothing /\ busy' = busy \ {"editing"}
  /\ \/ editor' = [file |-> opening, unsent |-> FALSE]
     \/ UNCHANGED editor
  /\ UNCHANGED << disk, path, shownVars, loadVars, calls, clicks >>

-----------------------------------------------------------------------------
UserActs ==
  \/ \E d \in Dirs : Enter(d) \/ RemoveFolder(d)
  \/ \E f \in Files : Tick(f) \/ ImportUrl(f) \/ OpenEditor(f)
  \/ Refresh \/ Upload \/ RemoveRows \/ Type \/ GiveUp \/ SaveEditor

AnswerLoad == \E l \in loads : Serve(l) \/ Arrive(l) \/ LoadFails(l)
AnswerCall == \E c \in calls : Store(c) \/ Answer(c) \/ Release(c) \/ CallFails(c)

Quiet == ~dirty /\ loads = {} /\ calls = {} /\ opening = Nothing
Resting == Quiet /\ clicks = MaxClicks /\ UNCHANGED vars

Next ==
  \/ UserActs
  \/ Effect
  \/ AnswerLoad \/ AnswerCall \/ OpenAnswer
  \/ Resting

(* Effects run and calls are answered, or time out; users need not act.    *)
Fairness ==
  /\ WF_vars(Effect) /\ WF_vars(OpenAnswer)
  /\ WF_vars(AnswerLoad) /\ WF_vars(AnswerCall)

Spec == Init /\ [][Next]_vars
FairSpec == Spec /\ Fairness

-----------------------------------------------------------------------------
(* Properties.                                                             *)

(* Every variable keeps to its range.                                      *)
FilesTypeOK ==
  /\ disk \subseteq Files /\ path \in Dirs
  /\ entries \subseteq Rows /\ selected \subseteq Files
  /\ editor \in {Nothing} \cup [file : Files, unsent : BOOLEAN]
  /\ opening \in Files \cup {Nothing}
  /\ busy \subseteq {"working", "editing"}
  /\ loading \in BOOLEAN /\ seq \in Nat /\ dirty \in BOOLEAN
  /\ loads \subseteq Loads /\ calls \subseteq Calls
  /\ failed \in BOOLEAN /\ clicks \in Nat

(* The files under a directory's name are that directory's, so that        *)
(* "delete" and "edit" act on what the user sees: an answer for a          *)
(* directory the user has left is never listed, though a mutation loads    *)
(* the directory it was begun in after the user has gone on.               *)
EntriesBelongToPath == \A row \in entries : In(row, path)

(* Once everything is answered the listing is the directory as the user's  *)
(* own changes left it, in whatever order the answers came, unless         *)
(* something failed since: a failed upload may have stored some files and  *)
(* is not followed by a load.                                              *)
AtRestShowsDisk == Quiet /\ ~failed => entries = Listing(path)

(* The view comes to rest: the spinner of the last load and the buttons    *)
(* every handler disabled are released, though ignored answers do not      *)
(* touch the spinner.                                                      *)
ComesToRest == <>[](~loading /\ busy = {})
=============================================================================
