----------------------------- MODULE RouteView -----------------------------
(***************************************************************************)
(* The frame of the dashboard in one browser tab,                          *)
(* src/extension/dashboard/PackwizRouteV2.tsx, with its sections Releases  *)
(* (in the same file) and Settings (components/ProjectSettingsV2.tsx and   *)
(* components/ImportProject.tsx).  The first of the listed packs is shown; *)
(* a cookie says which one that is.  The frame, the history of releases    *)
(* and the switcher of packs are loaded by calls of their own, and what    *)
(* one of them changes is shown by all.  Leaving a section discards what   *)
(* it knows, not what it began; reloading the page discards both, though   *)
(* the service may still do what was asked.                                *)
(*                                                                         *)
(* Overview stands for the sections that keep nothing the properties speak *)
(* of.  Comparing revisions is left out.  Typing into a form, or the slug  *)
(* that confirms a replacement, is part of the click that submits it.      *)
(* Nobody but this tab changes the packs and the cookie.                   *)
(***************************************************************************)
EXTENDS Integers, Sequences, FiniteSets

CONSTANTS
  Packs, NoPack,
  Names,         \* display names, as numbers: the service lists packs by name
  PageSize,      \* RELEASE_PAGE_SIZE
  Rosters, FirstNames,  \* the packs to begin with, and their names
  MaxRevisions,  \* how many revisions a pack has to begin with
  MaxClicks      \* what the user does: the bound of every counter

ASSUME RouteAssumption ==
  /\ NoPack \notin Packs /\ Rosters \subseteq SUBSET Packs
  /\ Names \subseteq Nat /\ FirstNames \in [Packs -> Names]
  /\ PageSize \in Nat \ {0} /\ MaxRevisions \in Nat /\ MaxClicks \in Nat

(* A database holds finitely many packs.                                   *)
ASSUME RostersAssumption == \A R \in Rosters : IsFiniteSet(R)

VARIABLES
  roster,      \* the packs of the service
  name, revisions, current,  \* of each: its name, how many revisions, the live one
  cookie,      \* the pack this browser selected, or NoPack
  projects,    \* the list the frame shows
  loading,     \* the frame waits for its first list
  active,      \* the section shown
  rows, page,  \* the history shown: whose, how many revisions
  choices,     \* the packs in the switcher
  gets,        \* listings on their way, in the order they were begun
  calls,       \* changes on their way
  reboot,      \* the page is going to be loaded again
  wanted,      \* history: the pack selected or imported last
  blurred,     \* history: the views ("frame", "section") of which, since they were
               \* opened, something failed, was overtaken, had nobody to tell or
               \* came last for a pack that is not in front any more
  clicks       \* history: how often the user acted

serviceVars == << roster, name, revisions, current >>
frameVars == << projects, loading >>
sectionVars == << active, rows, page, choices >>
historyVars == << wanted, blurred, clicks >>
vars == << serviceVars, cookie, frameVars, sectionVars, gets, calls, reboot, historyVars >>

Sections == {"Overview", "Releases", "Settings"}
NoRows == [of |-> NoPack, n |-> 0]

Last(n) == IF n = 0 THEN 1 ELSE (n + PageSize - 1) \div PageSize

-----------------------------------------------------------------------------
(* What the service and the panel list.                                    *)

(* Mutant: the cookie is not looked at.                                    *)
BeforeByName(p, q) == name[p] <= name[q]

(* By name, and the selected pack first.                                   *)
Before(p, q) == p = cookie \/ (q # cookie /\ name[p] <= name[q])

Order == CHOOSE s \in [1..Cardinality(roster) -> roster] :
           \A j, k \in DOMAIN s : j < k => s[j] # s[k] /\ Before(s[j], s[k])

Listed == [k \in DOMAIN Order |->
             [id |-> Order[k], name |-> name[Order[k]], current |-> current[Order[k]]]]

History(p) == [of |-> p, n |-> revisions[p]]

project == projects[1].id

(* A listing: of what, of which pack, the call that waits for it, and      *)
(* whether the section that asked for it is still open.                    *)
Get(what, of, for) ==
  [what |-> what, of |-> of, for |-> for, here |-> TRUE, at |-> "sent", got |-> NoRows]

(* What a section loads when it is opened.                                 *)
Mounted(s) ==
  CASE s = "Releases" -> << Get("rows", project, 0) >>
    [] s = "Settings" -> << Get("choices", NoPack, 0) >>
    [] s = "Overview" -> << >>

(* The frame is up to date and a section was just opened.                  *)
Init ==
  /\ roster \in Rosters
  /\ name = FirstNames
  /\ revisions = [p \in Packs |-> IF p \in roster THEN MaxRevisions ELSE 0]
  /\ current = revisions
  /\ cookie = NoPack /\ wanted = NoPack
  /\ projects = Listed /\ loading = FALSE
  /\ active \in IF roster = {} THEN {"Overview"} ELSE {"Releases", "Settings"}
  /\ rows = NoRows /\ page = 1 /\ choices = {}
  /\ gets = Mounted(active)
  /\ calls = {}
  /\ reboot = FALSE /\ blurred = {}
  /\ clicks = 0

-----------------------------------------------------------------------------
(* Listings.                                                               *)
Serve(k) ==
  /\ gets[k].at = "sent"
  /\ gets' = [gets EXCEPT
       ![k].at = "read",
       ![k].got = CASE gets[k].what = "projects" -> Listed
                    [] gets[k].what = "rows" -> History(gets[k].of)
                    [] gets[k].what = "choices" -> roster]
  /\ UNCHANGED << serviceVars, cookie, frameVars, sectionVars, calls, reboot, historyVars >>

Without(k) == SubSeq(gets, 1, k - 1) \o SubSeq(gets, k + 1, Len(gets))
Waiting(g) == {c \in calls : c.id = g.for}

(* The handler that waited goes on, whatever became of the listing: after  *)
(* a publication or a rollback it loads the history of the pack it was     *)
(* begun for; after an import, the frame, and the page in a while.         *)
Follows(g) ==
  IF Waiting(g) = {} THEN << >>
  ELSE LET c == CHOOSE c \in calls : c.id = g.for
       IN  CASE g.what = "choices" -> << Get("projects", NoPack, 0) >>
             [] g.what = "projects" /\ c.kind \in {"publish", "rollback"} /\ c.here
                  -> << Get("rows", c.pack, c.id) >>
             [] OTHER -> << >>

(* Mutant: a publication does not wait for its history.                    *)
GoesOnAtOnce(g) ==
  /\ calls' = calls \ Waiting(g)
  /\ reboot' = (reboot \/ (g.what = "choices" /\ Waiting(g) # {}))

GoesOn(g) ==
  /\ calls' = (calls \ Waiting(g))
              \cup {c \in calls : \E k \in DOMAIN Follows(g) : Follows(g)[k].for = c.id}
  /\ reboot' = (reboot \/ (g.what = "choices" /\ Waiting(g) # {}))

(* The effect of the history on the pack that is shown.                    *)
Reloads(list) ==
  IF active = "Releases" /\ list[1].id # project THEN << Get("rows", list[1].id, 0) >>
  ELSE << >>

View(g) == {IF g.what = "projects" THEN "frame" ELSE "section"}
Overtakes(k) == \E j \in 1..(k - 1) : gets[j].what = gets[k].what

(* Handlers keep the pack of the render they were made in: the history of  *)
(* a pack that is not in front any more may be the one that comes last.    *)
Misses(k) ==
  /\ gets[k].what = "rows" /\ gets[k].of # project
  /\ \A j \in (k + 1)..Len(gets) : gets[j].what # "rows"

Arrive(k) ==
  LET g == gets[k] IN
  /\ g.at = "read"
  /\ gets' = Without(k) \o Follows(g) \o IF g.what = "projects" THEN Reloads(g.got) ELSE << >>
  /\ GoesOn(g)
  /\ IF g.what = "projects" THEN projects' = g.got /\ loading' = FALSE
     ELSE UNCHANGED frameVars
  /\ IF g.what = "rows" /\ g.here
     THEN rows' = g.got /\ page' = IF page > Last(g.got.n) THEN Last(g.got.n) ELSE page
     ELSE UNCHANGED << rows, page >>
  /\ choices' = IF g.what = "choices" /\ g.here THEN g.got ELSE choices
  /\ blurred' = blurred \cup IF Overtakes(k) \/ Misses(k) THEN View(g) ELSE {}
  /\ UNCHANGED << serviceVars, cookie, active, wanted, clicks >>

(* Mutant: a handler whose listing fails does not go on.                   *)
GetFailsAlone(k) ==
  /\ gets' = Without(k)
  /\ loading' = (loading /\ gets[k].what # "projects")
  /\ blurred' = blurred \cup View(gets[k])
  /\ UNCHANGED << serviceVars, cookie, projects, sectionVars, calls, reboot, wanted, clicks >>

GetFails(k) ==
  /\ gets' = Without(k) \o Follows(gets[k])
  /\ GoesOn(gets[k])
  /\ loading' = (loading /\ gets[k].what # "projects")
  /\ blurred' = blurred \cup View(gets[k])
  /\ UNCHANGED << serviceVars, cookie, projects, sectionVars, wanted, clicks >>

-----------------------------------------------------------------------------
(* What the user does.                                                     *)
Click ==
  /\ clicks < MaxClicks
  /\ clicks' = clicks + 1

Busy(kinds) == \E c \in calls : c.kind \in kinds /\ c.here

Post(kind, p, arg) ==
  /\ Click
  /\ calls' = calls \cup {[id |-> clicks', kind |-> kind, pack |-> p, arg |-> arg,
                           at |-> "posting", here |-> TRUE, lost |-> FALSE]}
  /\ UNCHANGED << serviceVars, cookie, frameVars, sectionVars, gets, reboot, wanted, blurred >>

(* The form that is shown when no pack is.                                 *)
Create(p, n) ==
  /\ projects = << >> /\ ~loading /\ ~Busy({"create"})
  /\ Post("create", p, n)

(* Handlers of the section that is left go on, for nobody to see.          *)
SwitchTo(s) ==
  /\ Click
  /\ projects # << >> /\ s # active
  /\ active' = s
  /\ rows' = NoRows /\ page' = 1 /\ choices' = {}
  /\ gets' = [k \in DOMAIN gets |-> [gets[k] EXCEPT !.here = FALSE]] \o Mounted(s)
  /\ calls' = {[c EXCEPT !.here = FALSE] : c \in calls}
  /\ blurred' = blurred \ {"section"}
  /\ UNCHANGED << serviceVars, cookie, frameVars, reboot, wanted >>

Working == Busy({"publish", "rollback"})

Publish == active = "Releases" /\ ~Working /\ Post("publish", project, 0)

Visible == {r \in 1..rows.n : LET k == rows.n - r + 1 IN k > (page - 1) * PageSize
                                                         /\ k <= page * PageSize}
Rollback(r) ==
  /\ active = "Releases" /\ ~Working
  /\ r \in Visible
  /\ Post("rollback", project, r)

Turn(p) ==
  /\ Click
  /\ active = "Releases" /\ p \in {page - 1, page + 1} /\ p \in 1..Last(rows.n)
  /\ page' = p
  /\ UNCHANGED << serviceVars, cookie, frameVars, active, rows, choices, gets, calls,
                  reboot, wanted, blurred >>

(* This button is never disabled.                                          *)
Refresh ==
  /\ Click
  /\ active = "Releases"
  /\ gets' = Append(gets, Get("rows", project, 0))
  /\ UNCHANGED << serviceVars, cookie, frameVars, sectionVars, calls, reboot, wanted, blurred >>

Save(n) ==
  /\ active = "Settings" /\ ~Busy({"save"})
  /\ Post("save", project, n)

(* A new pack, or the working tree and the data of the one that is shown.  *)
Import(kind, p, n) ==
  /\ active = "Settings" /\ ~Busy({"import", "replace"})
  /\ kind = "replace" => p = project
  /\ Post(kind, p, n)

(* The page is loaded: nothing is left but what was already sent.          *)
Boot ==
  /\ projects' = << >> /\ loading' = TRUE
  /\ active' = "Overview" /\ rows' = NoRows /\ page' = 1 /\ choices' = {}
  /\ gets' = << Get("projects", NoPack, 0) >>
  /\ calls' = {[c EXCEPT !.here = FALSE, !.lost = TRUE] : c \in {c \in calls : c.at = "posting"}}
  /\ reboot' = FALSE
  /\ blurred' = {}

Choose(p) ==
  /\ Click
  /\ active = "Settings" /\ Cardinality(choices) > 1 /\ p \in choices \ {project}
  /\ cookie' = p /\ wanted' = p
  /\ Boot
  /\ UNCHANGED serviceVars

Reboot ==
  /\ reboot
  /\ Boot
  /\ UNCHANGED << serviceVars, cookie, wanted, clicks >>

-----------------------------------------------------------------------------
(* Answers to what the user did.                                           *)
Allowed(c) ==
  CASE c.kind \in {"create", "import"} -> c.pack \notin roster
    [] c.kind = "rollback" -> c.arg \in 1..revisions[c.pack]
    [] OTHER -> TRUE

Done(c) ==
  /\ roster' = roster \cup {c.pack}
  /\ name' = IF c.kind \in {"publish", "rollback"} THEN name ELSE [name EXCEPT ![c.pack] = c.arg]
  /\ revisions' = IF c.kind = "publish" THEN [revisions EXCEPT ![c.pack] = @ + 1] ELSE revisions
  /\ current' = CASE c.kind = "publish" -> [current EXCEPT ![c.pack] = revisions[c.pack] + 1]
                  [] c.kind = "rollback" -> [current EXCEPT ![c.pack] = c.arg]
                  [] OTHER -> current

(* Nobody hears of what was done for a page that is gone.                  *)
Store(c) ==
  /\ c.at = "posting" /\ Allowed(c)
  /\ Done(c)
  /\ calls' = (calls \ {c}) \cup IF c.lost THEN {} ELSE {[c EXCEPT !.at = "stored"]}
  /\ blurred' = IF c.lost THEN {"frame", "section"} ELSE blurred
  /\ UNCHANGED << cookie, frameVars, sectionVars, gets, reboot, wanted, clicks >>

(* Mutant: the frame is told only if the section is still open.            *)
AnswerHere(c) ==
  /\ c.at = "stored"
  /\ gets' = gets \o
       CASE c.kind = "save" /\ c.here -> << Get("projects", NoPack, 0) >>
         [] c.kind \in {"import", "replace"} -> << [Get("choices", NoPack, c.id) EXCEPT !.here = c.here] >>
         [] c.kind \in {"create", "publish", "rollback"} /\ c.here -> << Get("projects", NoPack, c.id) >>
         [] OTHER -> << >>
  /\ calls' = (calls \ {c}) \cup IF c.kind = "save" \/ ~c.here THEN {} ELSE {[c EXCEPT !.at = "reloading"]}
  /\ IF c.kind \in {"import", "replace"} THEN cookie' = c.pack /\ wanted' = c.pack
     ELSE UNCHANGED << cookie, wanted >>
  /\ page' = IF c.kind = "publish" /\ c.here THEN 1 ELSE page
  /\ blurred' = blurred \cup IF c.kind = "publish" /\ ~c.here THEN {"section"} ELSE {}
  /\ UNCHANGED << serviceVars, frameVars, active, rows, choices, reboot, clicks >>

(* An import selects its pack and loads the switcher, then the frame; all  *)
(* the others load the frame, and only saving does not wait for it.  A     *)
(* history that was opened after the one that was published from is not    *)
(* loaded again.                                                           *)
Answer(c) ==
  /\ c.at = "stored"
  /\ gets' = Append(gets,
       CASE c.kind = "save" -> Get("projects", NoPack, 0)
         [] c.kind \in {"import", "replace"} -> [Get("choices", NoPack, c.id) EXCEPT !.here = c.here]
         [] OTHER -> Get("projects", NoPack, c.id))
  /\ calls' = (calls \ {c}) \cup IF c.kind = "save" THEN {} ELSE {[c EXCEPT !.at = "reloading"]}
  /\ IF c.kind \in {"import", "replace"} THEN cookie' = c.pack /\ wanted' = c.pack
     ELSE UNCHANGED << cookie, wanted >>
  /\ page' = IF c.kind = "publish" /\ c.here THEN 1 ELSE page
  /\ blurred' = blurred \cup IF c.kind = "publish" /\ ~c.here THEN {"section"} ELSE {}
  /\ UNCHANGED << serviceVars, frameVars, active, rows, choices, reboot, clicks >>

(* Refused, or the answer was lost: the handler says so and ends.          *)
CallFails(c) ==
  /\ c.at # "reloading"
  /\ IF c.at = "posting" /\ Allowed(c)
     THEN Done(c) \/ UNCHANGED serviceVars
     ELSE UNCHANGED serviceVars
  /\ calls' = calls \ {c}
  /\ blurred' = {"frame", "section"}
  /\ UNCHANGED << cookie, frameVars, sectionVars, gets, reboot, wanted, clicks >>

-----------------------------------------------------------------------------
ReleaseClicks == Publish \/ Refresh \/ \E r \in Visible : Rollback(r)
                 \/ \E p \in {page - 1, page + 1} : Turn(p)
SettingsClicks ==
  \/ \E n \in Names : Save(n) \/ \E p \in Packs : Import("import", p, n) \/ Import("replace", p, n)
  \/ \E p \in Packs : Choose(p)
UserActs ==
  \/ \E s \in Sections : SwitchTo(s)
  \/ \E p \in Packs : \E n \in Names : Create(p, n)
  \/ ReleaseClicks \/ SettingsClicks

AnswerGet == \E k \in DOMAIN gets : Serve(k) \/ Arrive(k) \/ GetFails(k)
AnswerCall == \E c \in calls : Store(c) \/ Answer(c) \/ CallFails(c)

Quiet == gets = << >> /\ calls = {} /\ ~reboot
Resting == Quiet /\ clicks = MaxClicks /\ UNCHANGED vars

Next == UserActs \/ AnswerGet \/ AnswerCall \/ Reboot \/ Resting

(* Calls are answered or time out and the timer fires; users need not act. *)
Fairness == WF_vars(AnswerGet) /\ WF_vars(AnswerCall) /\ WF_vars(Reboot)

Spec == Init /\ [][Next]_vars
FairSpec == Spec /\ Fairness

-----------------------------------------------------------------------------
(* Properties.                                                             *)

(* Every variable keeps to its range, and a handler that waits for a       *)
(* listing is the one whose listing is on its way.                         *)
RouteTypeOK ==
  /\ roster \subseteq Packs /\ name \in [Packs -> Names]
  /\ revisions \in [Packs -> Nat] /\ \A p \in Packs : current[p] \in 0..revisions[p]
  /\ cookie \in Packs \cup {NoPack} /\ wanted \in Packs \cup {NoPack}
  /\ \A k \in DOMAIN projects : projects[k].id \in Packs /\ projects[k].name \in Names
  /\ active \in Sections /\ (active # "Overview" => projects # << >>)
  /\ blurred \subseteq {"frame", "section"}
  /\ rows \in [of : Packs \cup {NoPack}, n : Nat] /\ page \in Nat \ {0}
  /\ choices \subseteq Packs
  /\ {c.id : c \in {c \in calls : c.at = "reloading"}} =
     {gets[k].for : k \in DOMAIN gets} \ {0}
  /\ loading \in BOOLEAN /\ reboot \in BOOLEAN /\ clicks \in Nat

(* At rest the frame lists what the service has, and the open section      *)
(* shows the packs, or the revisions of the pack in the frame on a page    *)
(* that exists, although frame and section are loaded apart, by handlers   *)
(* of sections that were left too - unless something failed, was overtaken *)
(* or had nobody to tell since the page, or the section, was opened, or a  *)
(* handler loaded the history of the pack that was in front when it began. *)
AtRestShowsService ==
  Quiet =>
    /\ "frame" \notin blurred => projects = Listed
    /\ "section" \notin blurred =>
         /\ active = "Settings" => choices = roster
         /\ active = "Releases" => rows = History(project) /\ page \in 1..Last(rows.n)

(* "After import it becomes the selected project", and what is selected    *)
(* stays: at rest the pack that was last imported or chosen is the one     *)
(* shown, even when packs are renamed afterwards, the section was left     *)
(* during the import, or the page was loaded again in the meantime.        *)
SelectedPackIsShown ==
  Quiet /\ "frame" \notin blurred /\ wanted # NoPack => projects # << >> /\ project = wanted

(* The page comes to rest: every handler is over, its buttons released.    *)
RouteComesToRest == <>[](~loading /\ Quiet)
=============================================================================
