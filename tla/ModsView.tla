------------------------------ MODULE ModsView ------------------------------
(***************************************************************************)
(* The Mods section of the dashboard: the search of the providers (Mods in *)
(* src/extension/dashboard/PackwizRouteV2.tsx), under every hit a control  *)
(* that picks a version and adds it (components/ModVersionAdder.tsx), and  *)
(* below them the list of the mods (ItemsView), which is told of an added  *)
(* mod through refreshKey.  The words searched for and the pages of the    *)
(* search are left out: a provider may answer any set of mods.             *)
(***************************************************************************)
EXTENDS ItemsView

CONSTANTS
  Providers, Ids,  \* two providers may use one id for different mods
  First,           \* the provider that is chosen at first
  Versions, Latest,
  ItemOf,          \* the item that a hit becomes
  NoOne

Hits == Providers \X Ids

ASSUME ModsAssumption ==
  /\ ItemOf \in [Hits -> Items] /\ "both" \in Sides
  /\ First \in Providers /\ NoOne \notin Providers /\ Latest \notin Versions

VARIABLES
  provider,   \* the provider chosen for the next search
  searching,  \* the provider that was asked, or NoOne
  hits,       \* the mods found
  adders,     \* the control of every hit
  posts,      \* additions on their way
  listed      \* history: the hits that their own provider has named

searchVars == << provider, searching, hits, listed >>
modsVars == << searchVars, adders, posts >>
vars == << listVars, modsVars >>

Adders == [versions : SUBSET Versions, selected : Versions \cup {Latest},
           asked : Versions \cup {Latest}, doing : {"nothing", "loading", "adding"}]
Fresh == [versions |-> {}, selected |-> Latest, asked |-> Latest, doing |-> "nothing"]

Idle(h) == h \in hits /\ adders[h].doing = "nothing"
Set(h, adder) == adders' = [adders EXCEPT ![h] = adder]

(* Just opened, or some time after a search whose versions were fetched.   *)
Init ==
  /\ ListInit
  /\ provider = First /\ searching = NoOne
  /\ hits \in {{}, {First} \X Ids} /\ listed = hits
  /\ adders = [h \in hits |-> [Fresh EXCEPT !.versions = Versions]]
  /\ posts = {}

-----------------------------------------------------------------------------
(* The search.  Its buttons are disabled while one is on its way.          *)
ChooseProvider(p) ==
  /\ Click
  /\ p # provider /\ provider' = p
  /\ UNCHANGED << pack, paramVars, rowVars, loadVars, calls, searching, hits, listed,
                  adders, posts >>

Search ==
  /\ Click
  /\ searching = NoOne /\ searching' = provider
  /\ UNCHANGED << pack, paramVars, rowVars, loadVars, calls, provider, hits, listed,
                  adders, posts >>

(* Mutant: the controls stay while the hits change.                        *)
ShowBare(found) ==
  /\ hits' = found
  /\ posts' = {[p EXCEPT !.mine = @ /\ p.hit \in found] : p \in posts}
  /\ UNCHANGED adders

(* A control stays while its hit does, and forgets its requests otherwise. *)
Show(found) ==
  /\ hits' = found
  /\ adders' = [h \in found |-> IF h \in hits THEN adders[h] ELSE Fresh]
  /\ posts' = {[p EXCEPT !.mine = @ /\ p.hit \in found] : p \in posts}

(* Mutant: hits are labelled with the provider chosen by now.              *)
SearchAnsweredLate(ids) ==
  /\ searching # NoOne /\ searching' = NoOne
  /\ Show({provider} \X ids)
  /\ listed' = listed \cup ({searching} \X ids)
  /\ UNCHANGED << listVars, provider >>

SearchAnswered(ids) ==
  /\ searching # NoOne /\ searching' = NoOne
  /\ Show({searching} \X ids)
  /\ listed' = listed \cup ({searching} \X ids)
  /\ UNCHANGED << listVars, provider >>

SearchFails ==
  /\ searching # NoOne /\ searching' = NoOne
  /\ UNCHANGED << listVars, provider, hits, listed, adders, posts >>

-----------------------------------------------------------------------------
(* The control of a hit.  Nothing of it can be used while it is busy.      *)
LoadVersions(h) ==
  /\ Click
  /\ Idle(h)
  /\ Set(h, [adders[h] EXCEPT !.asked = adders[h].selected, !.doing = "loading"])
  /\ UNCHANGED << pack, paramVars, rowVars, loadVars, calls, searchVars, posts >>

VersionsAnswered(h, found) ==
  /\ h \in hits /\ adders[h].doing = "loading"
  /\ Set(h, [adders[h] EXCEPT
       !.versions = found, !.asked = Latest, !.doing = "nothing",
       !.selected = IF adders[h].asked \in found \cup {Latest} THEN @ ELSE Latest])
  /\ UNCHANGED << listVars, searchVars, posts >>

VersionsFail(h) ==
  /\ h \in hits /\ adders[h].doing = "loading"
  /\ Set(h, [adders[h] EXCEPT !.asked = Latest, !.doing = "nothing"])
  /\ UNCHANGED << listVars, searchVars, posts >>

(* Mutant: a version can be chosen while the list is fetched again.        *)
SelectAnyTime(h, v) ==
  /\ Click
  /\ h \in hits /\ v \in adders[h].versions \cup {Latest}
  /\ Set(h, [adders[h] EXCEPT !.selected = v])
  /\ UNCHANGED << pack, paramVars, rowVars, loadVars, calls, searchVars, posts >>

Select(h, v) ==
  /\ Click
  /\ Idle(h) /\ v \in adders[h].versions \cup {Latest}
  /\ Set(h, [adders[h] EXCEPT !.selected = v])
  /\ UNCHANGED << pack, paramVars, rowVars, loadVars, calls, searchVars, posts >>

Add(h) ==
  /\ Click
  /\ Idle(h)
  /\ Set(h, [adders[h] EXCEPT !.doing = "adding"])
  /\ posts' = posts \cup {[id |-> clicks', hit |-> h, version |-> adders[h].selected,
                           mine |-> TRUE, at |-> "posting"]}
  /\ UNCHANGED << pack, paramVars, rowVars, loadVars, calls, searchVars >>

Added(p) == [pack EXCEPT ![ItemOf[p.hit]] = "both"]

StoreMod(p) ==
  /\ p.at = "posting"
  /\ pack' = Added(p)
  /\ posts' = (posts \ {p}) \cup {[p EXCEPT !.at = "stored"]}
  /\ UNCHANGED << paramVars, rowVars, loadVars, calls, clicks, searchVars, adders >>

(* The control, if it is still there, is released.                         *)
Over(p) ==
  /\ posts' = posts \ {p}
  /\ IF p.mine THEN Set(p.hit, [adders[p.hit] EXCEPT !.doing = "nothing"])
     ELSE UNCHANGED adders

(* Mutant: nobody is told of a mod whose control has gone.                 *)
ModAddedHere(p) ==
  /\ p.at = "stored"
  /\ Over(p)
  /\ timer' = (timer \/ p.mine)
  /\ UNCHANGED << pack, page, filter, rowVars, loadVars, calls, clicks, searchVars >>

(* refreshKey is bumped, whose effect starts the timer of the list.        *)
ModAdded(p) ==
  /\ p.at = "stored"
  /\ Over(p)
  /\ timer' = TRUE
  /\ UNCHANGED << pack, page, filter, rowVars, loadVars, calls, clicks, searchVars >>

AddFails(p) ==
  /\ Over(p)
  /\ pack' \in {pack} \cup IF p.at = "posting" THEN {Added(p)} ELSE {}
  /\ blurred' = TRUE
  /\ UNCHANGED << paramVars, rowVars, loading, loads, calls, clicks, searchVars >>

-----------------------------------------------------------------------------
ModsClicks ==
  \/ \E p \in Providers : ChooseProvider(p)
  \/ Search
  \/ \E h \in hits : LoadVersions(h) \/ Add(h) \/ \E v \in Versions \cup {Latest} : Select(h, v)

SearchEnds == SearchFails \/ \E ids \in SUBSET Ids : SearchAnswered(ids)
VersionsEnd ==
  \E h \in hits : VersionsFail(h) \/ \E found \in SUBSET Versions : VersionsAnswered(h, found)
PostEnds == \E p \in posts : StoreMod(p) \/ ModAdded(p) \/ AddFails(p)

Quiet == ListQuiet /\ searching = NoOne /\ posts = {}
         /\ \A h \in hits : Idle(h)
Resting == Quiet /\ clicks = MaxClicks /\ UNCHANGED vars

Next ==
  \/ ListNext /\ UNCHANGED modsVars
  \/ ModsClicks \/ SearchEnds \/ VersionsEnd \/ PostEnds
  \/ Resting

(* Calls are answered or time out, timers fire; users need not act.        *)
Fairness ==
  /\ WF_vars(Fire /\ UNCHANGED modsVars)
  /\ WF_vars(AnswerLoad /\ UNCHANGED modsVars)
  /\ WF_vars(AnswerCall /\ UNCHANGED modsVars)
  /\ WF_vars(SearchEnds) /\ WF_vars(VersionsEnd) /\ WF_vars(PostEnds)

Spec == Init /\ [][Next]_vars
FairSpec == Spec /\ Fairness

-----------------------------------------------------------------------------
(* Properties.                                                             *)

(* Every variable keeps to its range, and there is one control per hit.    *)
ModsTypeOK ==
  /\ ListTypeOK
  /\ provider \in Providers /\ searching \in Providers \cup {NoOne}
  /\ hits \subseteq Hits /\ listed \subseteq Hits
  /\ adders \in [hits -> Adders]
  /\ \A p \in posts : p.hit \in Hits /\ p.mine \in BOOLEAN
                      /\ p.version \in Versions \cup {Latest}

(* A mod is added under the provider that named it, though another one may *)
(* have been chosen while the search was on its way, and in a version that *)
(* the provider offered when it was last asked, though the list may have   *)
(* been fetched again since the version was chosen.                        *)
AddsWhatIsOffered ==
  [][\A p \in posts' : p.id \notin {q.id : q \in posts} /\ p.id = clicks' =>
       /\ p.hit \in listed
       /\ p.version \in adders[p.hit].versions \cup {Latest}]_vars

(* At rest the rows, their sides, the count and the page number are what   *)
(* the service has for the filter shown - also after the last row of the   *)
(* last page went away, or left the filter with its new side, or a mod was *)
(* added by a control that a new search removed - unless something failed, *)
(* was overtaken or loaded what is shown no more, and even then after the  *)
(* next load of what is shown.                                             *)
AtRestShowsPack == Quiet /\ ~blurred => ShowsPack

(* Everything comes to rest: every button that was disabled is released,   *)
(* and no two of the loads that a page number, its effect and the          *)
(* service's choice of a page bring about feed each other for ever.        *)
ModsComeToRest == <>[](~loading /\ Quiet)
=============================================================================
