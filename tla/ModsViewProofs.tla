--------------------------- MODULE ModsViewProofs ---------------------------
(***************************************************************************)
(* Proofs about ModsView, for any number of items, providers, hits,        *)
(* versions and clicks, and whatever is chosen, searched, fetched or       *)
(* loaded while another request is on its way.                             *)
(*                                                                         *)
(* OfferInv: what a control has selected is on its list, so that a mod is  *)
(* only added as it was offered.  ViewInv: the types of the list, whose    *)
(* rows are a page of what was filtered for.  FreshInv: as long as the     *)
(* list does not show the pack, something is left that will make it.       *)
(***************************************************************************)
EXTENDS ModsView, FiniteSetTheorems, SequenceTheorems, TLAPS

Posts == [id : Nat, hit : Hits, version : Versions \cup {Latest}, mine : BOOLEAN,
          at : {"posting", "stored"}]

(* What a control has chosen is on its list, and the list it asked for     *)
(* last was asked for with this choice: nothing of a control can be used   *)
(* while it is busy.                                                       *)
Chosen(adder) ==
  /\ adder.selected \in adder.versions \cup {Latest}
  /\ adder.doing = "loading" => adder.asked = adder.selected

OfferInv ==
  /\ clicks \in Nat
  /\ provider \in Providers /\ searching \in Providers \cup {NoOne}
  /\ hits \subseteq listed /\ listed \subseteq Hits
  /\ adders \in [hits -> Adders]
  /\ \A h \in hits : Chosen(adders[h])
  /\ posts \subseteq Posts

-----------------------------------------------------------------------------
LEMMA InitOffer == Init => OfferInv
<1> SUFFICES ASSUME Init PROVE OfferInv
  OBVIOUS
<1>1. clicks \in Nat
  BY DEF Init, ListInit
<1>2. hits \subseteq Hits /\ listed = hits /\ provider \in Providers
  BY ModsAssumption DEF Init, Hits
<1>3. ASSUME NEW h \in hits
      PROVE  [Fresh EXCEPT !.versions = Versions] \in Adders
             /\ Chosen([Fresh EXCEPT !.versions = Versions])
  BY DEF Fresh, Adders, Chosen
<1> QED BY <1>1, <1>2, <1>3 DEF Init, OfferInv

(* The list below knows nothing of the search; it only counts clicks.      *)
LEMMA ListCounts == clicks \in Nat /\ ListNext => clicks' \in Nat
<1> SUFFICES ASSUME clicks \in Nat, ListNext PROVE clicks' \in Nat
  OBVIOUS
<1>1. ASSUME Click PROVE clicks' \in Nat
  BY <1>1 DEF Click
<1>2. CASE ListClicks
  BY <1>1, <1>2 DEF ListClicks, Narrow, Turn, Refresh, Remove, SetSide
<1>3. CASE Fire
  BY <1>3 DEF Fire
<1>4. CASE AnswerLoad
  BY <1>4 DEF AnswerLoad, Serve, Arrive, LoadFails
<1>5. CASE AnswerCall
  BY <1>5 DEF AnswerCall, Store, Answer, CallFails
<1> QED BY <1>2, <1>3, <1>4, <1>5 DEF ListNext

(* A control that is replaced by one that has chosen from its list.        *)
LEMMA SetKeepsOffer ==
  ASSUME OfferInv, NEW h \in hits, NEW adder \in Adders, Chosen(adder), Set(h, adder)
  PROVE  adders' \in [hits -> Adders] /\ \A g \in hits : Chosen(adders'[g])
BY DEF OfferInv, Set

(* Hits of a search are hits their provider named; a control stays with    *)
(* its choice or begins anew.                                              *)
LEMMA ShowKeepsOffer ==
  ASSUME OfferInv, NEW found \in SUBSET Hits, Show(found),
         listed' = listed \cup found
  PROVE  /\ hits' \subseteq listed' /\ listed' \subseteq Hits
         /\ adders' \in [hits' -> Adders]
         /\ \A h \in hits' : Chosen(adders'[h])
         /\ posts' \subseteq Posts
<1>1. Fresh \in Adders /\ Chosen(Fresh)
  BY DEF Fresh, Adders, Chosen
<1>2. \A h \in found : (IF h \in hits THEN adders[h] ELSE Fresh) \in Adders
                       /\ Chosen(IF h \in hits THEN adders[h] ELSE Fresh)
  BY <1>1 DEF OfferInv
<1>3. adders' \in [hits' -> Adders] /\ \A h \in hits' : Chosen(adders'[h])
  BY <1>2 DEF Show
<1>4. posts' \subseteq Posts
  BY DEF Show, OfferInv, Posts
<1> QED BY <1>3, <1>4 DEF Show, OfferInv

LEMMA NextOffer == OfferInv /\ [Next]_vars => OfferInv'
<1> SUFFICES ASSUME OfferInv, [Next]_vars PROVE OfferInv'
  OBVIOUS
<1> USE DEF OfferInv
<1>1. CASE UNCHANGED vars
  BY <1>1 DEF vars, listVars, modsVars, searchVars, Chosen
<1>2. CASE ListNext /\ UNCHANGED modsVars
  BY <1>2, ListCounts DEF modsVars, searchVars
<1>3. ASSUME NEW p \in Providers, ChooseProvider(p) PROVE OfferInv'
  BY <1>3 DEF ChooseProvider, Click
<1>4. CASE Search
  BY <1>4 DEF Search, Click
<1>5. ASSUME NEW h \in hits, LoadVersions(h) PROVE OfferInv'
  <2> DEFINE a == [adders[h] EXCEPT !.asked = adders[h].selected, !.doing = "loading"]
  <2>1. a \in Adders /\ Chosen(a)
    BY DEF Adders, Chosen
  <2> QED BY <1>5, <2>1, SetKeepsOffer DEF LoadVersions, Click, searchVars
<1>6. ASSUME NEW h \in hits, Add(h) PROVE OfferInv'
  <2> DEFINE a == [adders[h] EXCEPT !.doing = "adding"]
  <2>1. a \in Adders /\ Chosen(a)
    BY DEF Adders, Chosen
  <2>2. [id |-> clicks', hit |-> h, version |-> adders[h].selected, mine |-> TRUE,
         at |-> "posting"] \in Posts
    BY <1>6 DEF Add, Click, Posts, Adders
  <2>3. Set(h, a)
    BY <1>6 DEF Add
  <2>4. posts' \subseteq Posts
    BY <1>6, <2>2 DEF Add
  <2>5. clicks' \in Nat /\ UNCHANGED << provider, searching, hits, listed >>
    BY <1>6 DEF Add, Click, searchVars
  <2> HIDE DEF a
  <2> QED BY <2>1, <2>3, <2>4, <2>5, SetKeepsOffer
<1>7. ASSUME NEW h \in hits, NEW v \in Versions \cup {Latest}, Select(h, v) PROVE OfferInv'
  <2> DEFINE a == [adders[h] EXCEPT !.selected = v]
  <2>1. a \in Adders /\ Chosen(a)
    BY <1>7 DEF Adders, Chosen, Select, Idle
  <2> QED BY <1>7, <2>1, SetKeepsOffer DEF Select, Click, searchVars
<1>8. CASE SearchFails
  BY <1>8 DEF SearchFails, listVars
<1>9. ASSUME NEW ids \in SUBSET Ids, SearchAnswered(ids) PROVE OfferInv'
  <2>1. {searching} \X ids \in SUBSET Hits
    BY <1>9 DEF SearchAnswered, Hits
  <2> QED BY <1>9, <2>1, ShowKeepsOffer DEF SearchAnswered, listVars
<1>10. ASSUME NEW h \in hits, VersionsFail(h) PROVE OfferInv'
  <2> DEFINE a == [adders[h] EXCEPT !.asked = Latest, !.doing = "nothing"]
  <2>1. a \in Adders /\ Chosen(a)
    BY DEF Adders, Chosen
  <2> QED BY <1>10, <2>1, SetKeepsOffer DEF VersionsFail, listVars, searchVars
<1>11. ASSUME NEW h \in hits, NEW found \in SUBSET Versions, VersionsAnswered(h, found)
       PROVE  OfferInv'
  <2> DEFINE kept == IF adders[h].asked \in found \cup {Latest} THEN adders[h].selected ELSE Latest
             a == [adders[h] EXCEPT !.versions = found, !.asked = Latest, !.doing = "nothing",
                                    !.selected = kept]
  <2>1. kept \in found \cup {Latest}
    BY <1>11 DEF VersionsAnswered, Chosen
  <2>2. a \in Adders /\ Chosen(a)
    BY <2>1 DEF Adders, Chosen
  <2>3. Set(h, a)
    BY <1>11 DEF VersionsAnswered
  <2> QED BY <1>11, <2>2, <2>3, SetKeepsOffer DEF VersionsAnswered, listVars, searchVars
<1>12. ASSUME NEW p \in posts, StoreMod(p) PROVE OfferInv'
  <2>1. [p EXCEPT !.at = "stored"] \in Posts
    BY DEF Posts
  <2> QED BY <1>12, <2>1 DEF StoreMod, searchVars
<1>13. ASSUME NEW p \in posts, Over(p)
       PROVE  /\ posts' \subseteq Posts
              /\ adders' \in [hits -> Adders] /\ \A h \in hits : Chosen(adders'[h])
  <2> DEFINE a == [adders[p.hit] EXCEPT !.doing = "nothing"]
  <2>1. CASE p.mine /\ p.hit \in hits
    <3>1. a \in Adders /\ Chosen(a)
      BY <2>1 DEF Adders, Chosen
    <3> QED BY <1>13, <2>1, <3>1, SetKeepsOffer DEF Over
  <2>2. CASE ~(p.mine /\ p.hit \in hits)
    <3>1. adders' = adders
      BY <1>13, <2>2 DEF Over, Set
    <3> QED BY <1>13, <3>1 DEF Over
  <2> QED BY <2>1, <2>2
<1>14. ASSUME NEW p \in posts, ModAdded(p) \/ AddFails(p) PROVE OfferInv'
  <2>1. Over(p) /\ UNCHANGED << clicks, provider, searching, hits, listed >>
    BY <1>14 DEF ModAdded, AddFails, searchVars
  <2> QED BY <1>13, <2>1
<1> QED BY <1>1, <1>2, <1>3, <1>4, <1>5, <1>6, <1>7, <1>8, <1>9, <1>10, <1>11, <1>12, <1>14
        DEF Next, ModsClicks, SearchEnds, VersionsEnd, PostEnds, Resting

-----------------------------------------------------------------------------
(* Only a click on "Add" makes a request that was not there.               *)
LEMMA OnlyAddPosts ==
  ASSUME OfferInv, [Next]_vars, NEW p \in posts', p.id \notin {q.id : q \in posts}
  PROVE  \E h \in hits : Add(h) /\ p.hit = h /\ p.version = adders[h].selected
<1>1. posts # posts'
  OBVIOUS
<1>2. ASSUME NEW ids \in SUBSET Ids, SearchAnswered(ids) PROVE FALSE
  <2>1. PICK q \in posts : p = [q EXCEPT !.mine = @ /\ q.hit \in {searching} \X ids]
    BY <1>2 DEF SearchAnswered, Show
  <2>2. p.id = q.id
    BY <2>1 DEF OfferInv, Posts
  <2> QED BY <2>2
<1>3. ASSUME NEW q \in posts, StoreMod(q) PROVE FALSE
  <2>1. [q EXCEPT !.at = "stored"].id = q.id
    BY DEF OfferInv, Posts
  <2> QED BY <1>3, <2>1 DEF StoreMod
<1>4. ASSUME NEW q \in posts, ModAdded(q) \/ AddFails(q) PROVE FALSE
  BY <1>4 DEF ModAdded, AddFails, Over
<1>5. ASSUME NEW h \in hits, Add(h) PROVE p.hit = h /\ p.version = adders[h].selected
  BY <1>5 DEF Add
<1>6. \E h \in hits : Add(h)
  BY <1>1, <1>2, <1>3, <1>4
     DEF Next, ModsClicks, SearchEnds, VersionsEnd, PostEnds, Resting, vars, modsVars,
         ChooseProvider, Search, LoadVersions, Select, SearchFails, VersionsFail,
         VersionsAnswered
<1> QED BY <1>5, <1>6

(* A mod is added under the provider that named it and in a version that   *)
(* the provider offered when it was last asked, for any number of          *)
(* providers, hits and versions.                                           *)
THEOREM ModsAreOffered == Spec => AddsWhatIsOffered
<1>1. ASSUME OfferInv, [Next]_vars,
             NEW p \in posts', p.id \notin {q.id : q \in posts}
      PROVE  p.hit \in listed /\ p.version \in adders[p.hit].versions \cup {Latest}
  <2>1. PICK h \in hits : p.hit = h /\ p.version = adders[h].selected
    BY <1>1, OnlyAddPosts
  <2> QED BY <1>1, <2>1 DEF OfferInv, Chosen
<1>2. OfferInv /\ [Next]_vars =>
        [\A p \in posts' : p.id \notin {q.id : q \in posts} /\ p.id = clicks' =>
           /\ p.hit \in listed
           /\ p.version \in adders[p.hit].versions \cup {Latest}]_vars
  BY <1>1
<1> QED BY <1>2, InitOffer, NextOffer, PTL DEF Spec, AddsWhatIsOffered
-----------------------------------------------------------------------------
(* The list of the mods below the search.  AtRestShowsPack says nothing    *)
(* while anything is under way; FreshInv does: unless something failed,    *)
(* was overtaken or loaded what is shown no more, a load is going to be    *)
(* begun, or the one begun last asks for what is shown and, if it was      *)
(* served already, got what the pack holds now.                            *)
LoadType == [ask : Params, at : {"sent", "read"}, got : Replies]
CallType == [id : Nat, kind : {"side", "remove"}, item : Items, side : Sides \cup {Absent},
             ask : Params, only : BOOLEAN, at : {"posting", "stored"}]

ViewInv ==
  /\ pack \in [Items -> Sides \cup {Absent}]
  /\ page \in Nat \ {0} /\ filter \in Filters
  /\ shown \in Shown /\ total \in Nat
  /\ timer \in BOOLEAN /\ loading \in BOOLEAN /\ blurred \in BOOLEAN
  /\ loads \in Seq(LoadType)
  /\ calls \subseteq CallType
  /\ clicks \in Nat

LastFits ==
  LET l == loads[Len(loads)]
  IN  l.ask = params /\ (l.at = "read" => l.got = Reply(params))

FreshInv ==
  \/ blurred
  \/ timer
  \/ \E c \in calls : c.at = "stored"
  \/ \E p \in posts : p.at = "stored"
  \/ loads = << >> /\ ShowsPack
  \/ loads # << >> /\ LastFits

-----------------------------------------------------------------------------
(* A filter and a page of the view make parameters of a load.              *)
LEMMA ParamsTyped == page \in Nat \ {0} /\ filter \in Filters <=> params \in Params
  BY DEF params, Params

(* No rows, as they are answered and as they are shown.                    *)
LEMMA EmptyIsShown == NoRows \in Shown /\ NoReply \in Replies
<1>1. NoRows \in [{} -> Sides]
  BY DEF NoRows
<1>2. {} \in SUBSET Items
  OBVIOUS
<1>3. << >> \in [{} -> Sides]
  <2>1. << >> = [i \in 1 .. 0 |-> AllSides] /\ 1 .. 0 = {}
    OBVIOUS
  <2> QED BY <2>1
<1>4. NoRows \in Shown /\ << >> \in Shown
  BY <1>1, <1>2, <1>3 DEF Shown
<1>5. NoReply \in Replies
  BY <1>4 DEF Replies, NoReply
<1> QED BY <1>4, <1>5

(* A listing that is not empty has a last page.                            *)
LEMMA PagesCount == ASSUME NEW n \in Nat \ {0} PROVE Pages(n) \in Nat \ {0}
  BY RowsAssumption DEF Pages

(* The service answers with a page that exists, or the one asked for, and  *)
(* with rows that have a side.                                             *)
LEMMA ReplyTyped ==
  ASSUME pack \in [Items -> Sides \cup {Absent}], NEW q \in Params
  PROVE  Reply(q) \in Replies
<1> DEFINE all == Matching(q.filter)
           n == Cardinality(all)
           p == Clamped(q.page, n)
           rank(k) == Cardinality({j \in all : j <= k})
           cut == {Order[k] : k \in {k \in all : rank(k) > (p - 1) * Rows /\ rank(k) <= p * Rows}}
<1>1. IsFiniteSet(all)
  <2>1. Len(Order) \in Nat /\ all \subseteq 1 .. Len(Order)
    BY ItemsAssumption DEF Matching
  <2>2. IsFiniteSet(1 .. Len(Order))
    BY <2>1, FS_Interval
  <2> QED BY <2>1, <2>2, FS_Subset
<1>2. n \in Nat
  BY <1>1, FS_CardinalityType
<1>3. p \in Nat \ {0}
  BY <1>2, PagesCount DEF Clamped, Params
<1>4. \A k \in all : Order[k] \in Items /\ pack[Order[k]] \in Sides
  BY ItemsAssumption DEF Matching
<1>5. cut \subseteq Items /\ \A i \in cut : pack[i] \in Sides
  BY <1>4
<1> HIDE DEF cut
<1>6. [i \in cut |-> pack[i]] \in [cut -> Sides] /\ cut \in SUBSET Items
  BY <1>5
<1>7. [i \in cut |-> pack[i]] \in Shown
  BY <1>6 DEF Shown
<1>8. Reply(q) = [items |-> [i \in cut |-> pack[i]], total |-> n, page |-> p]
  BY DEF Reply, cut
<1> HIDE DEF n, p
<1> QED BY <1>2, <1>3, <1>7, <1>8 DEF Replies

(* What the service lists depends on the pack and on what is asked.        *)
LEMMA ReplySteady ==
  ASSUME pack' = pack, params' = params
  PROVE  Reply(params)' = Reply(params)
BY DEF Reply, Matching, Clamped, Pages

(* A load that has ended leaves the others in their order.                 *)
LEMMA WithoutOne ==
  ASSUME NEW S, NEW s \in Seq(S), NEW k \in DOMAIN s
  PROVE  /\ Without(s, k) \in Seq(S)
         /\ Without(s, k) = << >> => k = 1 /\ Len(s) = 1
         /\ k = 1 /\ Len(s) = 1 => Without(s, k) = << >>
         /\ k # Len(s) => Without(s, k) # << >>
                          /\ Without(s, k)[Len(Without(s, k))] = s[Len(s)]
<1> DEFINE a == SubSeq(s, 1, k - 1)
           b == SubSeq(s, k + 1, Len(s))
<1>1. k \in 1 .. Len(s) /\ Len(s) \in Nat
  OBVIOUS
<1>2. a \in Seq(S) /\ Len(a) = k - 1
  BY <1>1
<1>3. b \in Seq(S) /\ Len(b) = Len(s) - k
  BY <1>1
<1>4. ASSUME k # Len(s) PROVE b[Len(s) - k] = s[Len(s)]
  <2>1. Len(s) - k \in 1 .. (Len(s) + 1 - (k + 1))
    BY <1>1, <1>4
  <2>2. \A i \in 1 .. (Len(s) + 1 - (k + 1)) : SubSeq(s, k + 1, Len(s))[i] = s[k + 1 + i - 1]
    BY <1>1
  <2> HIDE DEF b
  <2>3. b[Len(s) - k] = s[k + 1 + (Len(s) - k) - 1]
    BY <2>1, <2>2 DEF b
  <2>4. k + 1 + (Len(s) - k) - 1 = Len(s)
    BY <1>1
  <2> QED BY <2>3, <2>4
<1>5. Without(s, k) = a \o b
  BY DEF Without
<1> HIDE DEF a, b
<1>6. Without(s, k) \in Seq(S) /\ Len(Without(s, k)) = Len(s) - 1
  BY <1>1, <1>2, <1>3, <1>5
<1>7. ASSUME k # Len(s)
      PROVE  Without(s, k)[Len(s) - 1] = s[Len(s)]
  <2>1. Len(a) \in Nat /\ Len(b) \in Nat /\ Len(s) - k \in 1 .. Len(b)
    BY <1>1, <1>2, <1>3, <1>7
  <2>2. (a \o b)[Len(a) + (Len(s) - k)] = b[Len(s) - k]
    BY ONLY <1>2, <1>3, <2>1, ConcatProperties
  <2>3. Len(a) + (Len(s) - k) = Len(s) - 1
    BY <1>1, <1>2
  <2>4. (a \o b)[Len(s) - 1] = b[Len(s) - k]
    BY <2>2, <2>3
  <2> QED BY <1>4, <1>5, <1>7, <2>4
<1> QED BY <1>1, <1>6, <1>7
-----------------------------------------------------------------------------
(* A load is begun as the last one, and excuses nothing if it asks for     *)
(* what is shown.                                                          *)
LEMMA LoadBegins ==
  ASSUME ViewInv, NEW q \in Params, Load(q)
  PROVE  /\ loads' \in Seq(LoadType) /\ loads' # << >>
         /\ loads'[Len(loads')] = [ask |-> q, at |-> "sent", got |-> NoReply]
         /\ loading' \in BOOLEAN /\ blurred' \in BOOLEAN
         /\ ~blurred' => q = params
<1> DEFINE l == [ask |-> q, at |-> "sent", got |-> NoReply]
<1>1. l \in LoadType
  BY EmptyIsShown DEF LoadType
<1>2. loads \in Seq(LoadType) /\ loads' = Append(loads, l)
  BY DEF ViewInv, Load
<1> HIDE DEF l
<1>3. loads' \in Seq(LoadType) /\ loads' # << >> /\ loads'[Len(loads')] = l
  BY <1>1, <1>2
<1>4. loading' = TRUE /\ blurred' = (q # params)
  BY DEF Load
<1> QED BY <1>3, <1>4 DEF l

(* Another page starts the timer.                                          *)
LEMMA PageShown ==
  ASSUME ViewInv, NEW p \in Nat \ {0}, ShowPage(p)
  PROVE  page' \in Nat \ {0} /\ timer' \in BOOLEAN /\ (timer' \/ page' = page)
BY DEF ViewInv, ShowPage

LEMMA InitView == Init => ViewInv /\ FreshInv
<1> SUFFICES ASSUME Init PROVE ViewInv /\ FreshInv
  OBVIOUS
<1>1. pack \in [Items -> Sides \cup {Absent}]
  BY ItemsAssumption DEF Init, ListInit
<1>2. loads \in Seq(LoadType) /\ shown \in Shown /\ filter \in Filters
  BY EmptyIsShown DEF Init, ListInit, Filters
<1>3. page \in Nat \ {0} /\ total \in Nat /\ clicks \in Nat /\ calls \subseteq CallType
  BY DEF Init, ListInit
<1>4. timer = TRUE /\ loading = FALSE /\ blurred = FALSE
  BY DEF Init, ListInit
<1> QED BY <1>1, <1>2, <1>3, <1>4 DEF ViewInv, FreshInv

-----------------------------------------------------------------------------
(* The steps of the list keep its types.                                   *)
LEMMA ListView == ViewInv /\ ListNext => ViewInv'
<1> SUFFICES ASSUME ViewInv, ListNext PROVE ViewInv'
  OBVIOUS
<1>p. params \in Params
  BY ParamsTyped DEF ViewInv
<1>1. ASSUME NEW f \in Filters, Narrow(f) PROVE ViewInv'
  BY <1>1 DEF Narrow, Click, ViewInv, rowVars, loadVars
<1>2. ASSUME NEW p \in {page - 1, page + 1}, Turn(p) PROVE ViewInv'
  <2>1. p \in Nat \ {0}
    BY <1>2 DEF Turn, ViewInv
  <2> QED BY <1>2, <2>1, PageShown DEF Turn, Click, ViewInv, rowVars, loadVars
<1>3. CASE Refresh
  <2>1. Load(params)
    BY <1>3 DEF Refresh
  <2>2. clicks' \in Nat /\ UNCHANGED << pack, page, filter, timer, shown, total, calls >>
    BY <1>3 DEF Refresh, Click, ViewInv, rowVars, paramVars
  <2> QED BY <1>p, <2>1, <2>2, LoadBegins DEF ViewInv
<1>4. ASSUME NEW i \in Items, NEW s \in Sides, SetSide(i, s) PROVE ViewInv'
  <2>1. Call("side", i, s) \in CallType
    BY <1>p, <1>4 DEF SetSide, Click, Call, CallType, ViewInv
  <2>2. calls' \subseteq CallType
    BY <1>4, <2>1 DEF SetSide, ViewInv
  <2> QED BY <1>4, <2>2 DEF SetSide, Click, ViewInv, rowVars, loadVars, paramVars
<1>5. ASSUME NEW i \in Items, Remove(i) PROVE ViewInv'
  <2>1. Call("remove", i, Absent) \in CallType
    BY <1>p, <1>5 DEF Remove, Click, Call, CallType, ViewInv
  <2>2. calls' \subseteq CallType
    BY <1>5, <2>1 DEF Remove, ViewInv
  <2> QED BY <1>5, <2>2 DEF Remove, Click, ViewInv, rowVars, loadVars, paramVars
<1>6. CASE Fire
  <2>1. Load(params)
    BY <1>6 DEF Fire
  <2> QED BY <1>p, <1>6, <2>1, LoadBegins DEF Fire, ViewInv, rowVars
<1>7. ASSUME NEW k \in DOMAIN loads PROVE loads[k] \in LoadType
  BY DEF ViewInv
<1>8. ASSUME NEW k \in DOMAIN loads, Serve(k) PROVE ViewInv'
  <2> DEFINE l == [loads[k] EXCEPT !.at = "read", !.got = Reply(loads[k].ask)]
  <2>1. loads[k].ask \in Params
    BY <1>7 DEF LoadType
  <2>2. Reply(loads[k].ask) \in Replies
    BY <2>1, ReplyTyped DEF ViewInv
  <2>3. l \in LoadType
    BY <1>7, <2>2 DEF LoadType
  <2>4. loads' = [loads EXCEPT ![k] = l]
    BY <1>8 DEF Serve
  <2> HIDE DEF l
  <2>5. loads' \in Seq(LoadType)
    BY <2>3, <2>4 DEF ViewInv
  <2> QED BY <1>8, <2>5 DEF Serve, ViewInv, rowVars, paramVars
<1>9. ASSUME NEW k \in DOMAIN loads, Arrive(k) PROVE ViewInv'
  <2>1. loads' \in Seq(LoadType)
    BY <1>9, WithoutOne DEF Arrive, ViewInv
  <2>2. loads[k].got \in Replies
    BY <1>7 DEF LoadType
  <2>3. shown' \in Shown /\ total' \in Nat /\ loads[k].got.page \in Nat \ {0}
    BY <1>9, <2>2 DEF Arrive, Replies
  <2>4. page' \in Nat \ {0} /\ timer' \in BOOLEAN
    BY <1>9, <2>3, PageShown DEF Arrive, ViewInv
  <2> QED BY <1>9, <2>1, <2>3, <2>4 DEF Arrive, ViewInv
<1>10. ASSUME NEW k \in DOMAIN loads, LoadFails(k) PROVE ViewInv'
  <2>1. loads' \in Seq(LoadType)
    BY <1>10, WithoutOne DEF LoadFails, ViewInv
  <2> QED BY <1>10, <2>1 DEF LoadFails, ViewInv, paramVars, rowVars
<1>11. ASSUME NEW c \in calls
       PROVE  c \in CallType /\ [pack EXCEPT ![c.item] = c.side] \in [Items -> Sides \cup {Absent}]
  <2>1. c \in CallType
    BY DEF ViewInv
  <2>2. c.item \in Items /\ c.side \in Sides \cup {Absent}
    BY <2>1 DEF CallType
  <2> QED BY <2>1, <2>2 DEF ViewInv
<1>12. ASSUME NEW c \in calls, Store(c) PROVE ViewInv'
  <2>1. [c EXCEPT !.at = "stored"] \in CallType
    BY <1>11 DEF CallType
  <2>2. pack' \in [Items -> Sides \cup {Absent}] /\ calls' \subseteq CallType
    BY <1>11, <1>12, <2>1 DEF Store, ViewInv
  <2> QED BY <1>12, <2>2 DEF Store, ViewInv, paramVars, rowVars, loadVars
<1>13. ASSUME NEW c \in calls, Answer(c) PROVE ViewInv'
  <2>1. c.ask \in Params
    BY <1>11 DEF CallType
  <2>2. calls' \subseteq CallType /\ UNCHANGED << pack, filter, shown, total, clicks >>
    BY <1>13 DEF Answer, ViewInv, rowVars
  <2>3. CASE c.kind = "remove" /\ c.only /\ c.ask.page > 1
    <3>1. c.ask.page - 1 \in Nat \ {0} /\ ShowPage(c.ask.page - 1)
      BY <1>13, <2>1, <2>3 DEF Answer, Params
    <3>2. loads' = loads /\ loading' = loading /\ blurred' \in BOOLEAN
      BY <1>13, <2>3 DEF Answer, ViewInv
    <3> QED BY <2>2, <3>1, <3>2, PageShown DEF ViewInv
  <2>4. CASE ~(c.kind = "remove" /\ c.only /\ c.ask.page > 1)
    <3>1. Load(c.ask) /\ page' = page /\ timer' = timer
      BY <1>13, <2>4 DEF Answer
    <3> QED BY <2>1, <2>2, <3>1, LoadBegins DEF ViewInv
  <2> QED BY <2>3, <2>4
<1>14. ASSUME NEW c \in calls, CallFails(c) PROVE ViewInv'
  <2>1. pack' \in [Items -> Sides \cup {Absent}]
    BY <1>11, <1>14 DEF CallFails, ViewInv
  <2> QED BY <1>14, <2>1 DEF CallFails, ViewInv, paramVars, rowVars
<1> QED BY <1>1, <1>2, <1>3, <1>4, <1>5, <1>6, <1>8, <1>9, <1>10, <1>12, <1>13, <1>14
        DEF ListNext, ListClicks, AnswerLoad, AnswerCall

(* What happens above the list changes nothing of it but the pack and the  *)
(* timer, and counts a click.                                              *)
LEMMA ModsKeepView ==
  ViewInv /\ OfferInv /\ (ModsClicks \/ SearchEnds \/ VersionsEnd \/ PostEnds) => ViewInv'
<1> SUFFICES ASSUME ViewInv, OfferInv, ModsClicks \/ SearchEnds \/ VersionsEnd \/ PostEnds
             PROVE  ViewInv'
  OBVIOUS
<1>1. CASE ModsClicks
  <2>1. clicks' \in Nat
        /\ UNCHANGED << pack, page, filter, timer, shown, total, loading, loads, blurred, calls >>
    <3>1. clicks' \in Nat
      <4>1. Click
        BY <1>1 DEF ModsClicks, ChooseProvider, Search, LoadVersions, Add, Select
      <4> QED BY <4>1 DEF Click, ViewInv
    <3>2. UNCHANGED << pack, paramVars, rowVars, loadVars, calls >>
      BY <1>1 DEF ModsClicks, ChooseProvider, Search, LoadVersions, Add, Select
    <3> QED BY <3>1, <3>2 DEF paramVars, rowVars, loadVars
  <2> QED BY <2>1 DEF ViewInv
<1>2. CASE SearchEnds
  <2>1. UNCHANGED listVars
    BY <1>2 DEF SearchEnds, SearchFails, SearchAnswered
  <2> QED BY <2>1 DEF listVars, paramVars, rowVars, loadVars, ViewInv
<1>3. CASE VersionsEnd
  <2>1. UNCHANGED listVars
    BY <1>3 DEF VersionsEnd, VersionsFail, VersionsAnswered
  <2> QED BY <2>1 DEF listVars, paramVars, rowVars, loadVars, ViewInv
<1>4. ASSUME NEW p \in posts PROVE Added(p) \in [Items -> Sides \cup {Absent}]
  BY ModsAssumption DEF Added, OfferInv, Posts, ViewInv
<1>5. ASSUME NEW p \in posts, StoreMod(p) PROVE ViewInv'
  BY <1>4, <1>5 DEF StoreMod, ViewInv, paramVars, rowVars, loadVars
<1>6. ASSUME NEW p \in posts, ModAdded(p) PROVE ViewInv'
  BY <1>6 DEF ModAdded, ViewInv, rowVars, loadVars
<1>7. ASSUME NEW p \in posts, AddFails(p) PROVE ViewInv'
  <2>1. pack' \in [Items -> Sides \cup {Absent}]
    BY <1>4, <1>7 DEF AddFails, ViewInv
  <2> QED BY <1>7, <2>1 DEF AddFails, ViewInv, paramVars, rowVars
<1> QED BY <1>1, <1>2, <1>3, <1>5, <1>6, <1>7 DEF PostEnds

LEMMA NextView == ViewInv /\ OfferInv /\ [Next]_vars => ViewInv'
<1> SUFFICES ASSUME ViewInv, OfferInv, [Next]_vars PROVE ViewInv'
  OBVIOUS
<1>1. CASE UNCHANGED vars
  BY <1>1 DEF vars, listVars, paramVars, rowVars, loadVars, ViewInv
<1> QED BY <1>1, ListView, ModsKeepView DEF Next, Resting

-----------------------------------------------------------------------------
(* A load that asks for what is shown and is the last, or a change that is *)
(* stored and not yet answered, is as good as a list that is true.         *)

(* Nothing that FreshInv speaks of has changed.                            *)
LEMMA FreshSteady ==
  ASSUME FreshInv, UNCHANGED << pack, page, filter, timer, shown, total, loads, blurred, calls >>,
         \A p \in posts : p.at = "stored" => \E q \in posts' : q.at = "stored"
  PROVE  FreshInv'
<1>1. params' = params
  BY DEF params
<1>2. Reply(params)' = Reply(params)
  BY <1>1, ReplySteady
<1>3. ShowsPack => ShowsPack'
  BY <1>2 DEF ShowsPack
<1>4. LastFits => LastFits'
  BY <1>1, <1>2 DEF LastFits
<1> QED BY <1>3, <1>4 DEF FreshInv

(* One of the loads has ended; if it was not the last, that one still fits. *)
LEMMA FreshWithout ==
  ASSUME ViewInv, FreshInv, NEW k \in DOMAIN loads, loads' = Without(loads, k),
         k # Len(loads),
         UNCHANGED << pack, filter, calls, posts >>,
         blurred => blurred', timer => timer', timer' \/ page' = page
  PROVE  FreshInv'
<1>1. loads' # << >> /\ loads'[Len(loads')] = loads[Len(loads)]
  BY WithoutOne DEF ViewInv
<1>2. CASE page' = page
  <2>1. params' = params
    BY <1>2 DEF params
  <2>2. Reply(params)' = Reply(params)
    BY <2>1, ReplySteady
  <2>3. loads # << >>
    BY DEF ViewInv
  <2>4. LastFits => LastFits'
    BY <1>1, <2>1, <2>2 DEF LastFits
  <2> QED BY <1>1, <2>3, <2>4 DEF FreshInv
<1> QED BY <1>2 DEF FreshInv

LEMMA ListFresh ==
  ViewInv /\ FreshInv /\ ListNext /\ UNCHANGED modsVars => FreshInv'
<1> SUFFICES ASSUME ViewInv, FreshInv, ListNext, UNCHANGED modsVars PROVE FreshInv'
  OBVIOUS
<1>p. posts' = posts
  BY DEF modsVars
<1>q. params \in Params
  BY ParamsTyped DEF ViewInv
<1>b. ASSUME NEW q \in Params, Load(q), params' = params PROVE FreshInv'
  <2>1. loads' # << >> /\ loads'[Len(loads')] = [ask |-> q, at |-> "sent", got |-> NoReply]
        /\ (~blurred' => q = params)
    BY <1>b, LoadBegins
  <2>2. ~blurred' => LastFits'
    BY <1>b, <2>1 DEF LastFits
  <2> QED BY <2>1, <2>2 DEF FreshInv
<1>1. ASSUME NEW f \in Filters, Narrow(f) PROVE FreshInv'
  BY <1>1 DEF Narrow, FreshInv
<1>2. ASSUME NEW p \in {page - 1, page + 1}, Turn(p) PROVE FreshInv'
  <2>1. p # page
    BY <1>2 DEF ViewInv
  <2> QED BY <1>2, <2>1 DEF Turn, ShowPage, FreshInv
<1>3. CASE Refresh
  <2>1. Load(params) /\ params' = params
    BY <1>3 DEF Refresh, paramVars, params
  <2> QED BY <1>b, <1>q, <2>1
<1>4. ASSUME NEW i \in Items, Remove(i) \/ \E s \in Sides : SetSide(i, s) PROVE FreshInv'
  <2>1. /\ UNCHANGED << pack, page, filter, timer, shown, total, loads, blurred >>
        /\ calls \subseteq calls'
    BY <1>4 DEF Remove, SetSide, paramVars, rowVars, loadVars
  <2>2. params' = params
    BY <2>1 DEF params
  <2>3. Reply(params)' = Reply(params)
    BY <2>1, <2>2, ReplySteady
  <2>4. (ShowsPack => ShowsPack') /\ (LastFits => LastFits')
    BY <2>1, <2>2, <2>3 DEF ShowsPack, LastFits
  <2> QED BY <1>p, <2>1, <2>4 DEF FreshInv
<1>5. CASE Fire
  <2>1. Load(params) /\ params' = params
    BY <1>5 DEF Fire, params
  <2> QED BY <1>b, <1>q, <2>1
<1>6. ASSUME NEW k \in DOMAIN loads, Serve(k) PROVE FreshInv'
  <2>1. /\ UNCHANGED << pack, page, filter, timer, shown, total, calls, blurred >>
        /\ loads' = [loads EXCEPT ![k].at = "read", ![k].got = Reply(loads[k].ask)]
    BY <1>6 DEF Serve, paramVars, rowVars
  <2>2. params' = params
    BY <2>1 DEF params
  <2>3. Reply(params)' = Reply(params)
    BY <2>1, <2>2, ReplySteady
  <2>4. Len(loads') = Len(loads) /\ loads # << >> /\ loads' # << >> /\ Len(loads) \in DOMAIN loads
        /\ loads[Len(loads)] \in LoadType
    BY <2>1 DEF ViewInv
  <2>5. ASSUME k = Len(loads), LastFits PROVE LastFits'
    <3>1. loads'[Len(loads')] =
            [loads[Len(loads)] EXCEPT !.at = "read", !.got = Reply(loads[Len(loads)].ask)]
      BY <2>1, <2>4, <2>5
    <3>2. loads'[Len(loads')].ask = params /\ loads'[Len(loads')].got = Reply(params)
      BY <2>4, <2>5, <3>1 DEF LastFits, LoadType
    <3> QED BY <2>2, <2>3, <3>2 DEF LastFits
  <2>6. ASSUME k # Len(loads), LastFits PROVE LastFits'
    <3>1. loads'[Len(loads')] = loads[Len(loads)]
      BY <2>1, <2>4, <2>6
    <3> QED BY <2>2, <2>3, <2>6, <3>1 DEF LastFits
  <2> QED BY <1>p, <2>1, <2>4, <2>5, <2>6 DEF FreshInv
<1>7. ASSUME NEW k \in DOMAIN loads, Arrive(k) PROVE FreshInv'
  <2> DEFINE g == loads[k].got
  <2>1. loads[k] \in LoadType /\ Len(loads) \in Nat /\ loads # << >> /\ k \in 1 .. Len(loads)
    BY DEF ViewInv
  <2>2. g.page \in Nat \ {0}
    BY <2>1 DEF LoadType, Replies
  <2>3. (timer => timer') /\ (timer' \/ page' = page)
    BY <1>7, <2>2, PageShown DEF Arrive, ShowPage
  <2>4. CASE k # Len(loads)
    <3>1. (blurred => blurred') /\ UNCHANGED << pack, filter, calls >>
          /\ loads' = Without(loads, k)
      BY <1>7 DEF Arrive
    <3> QED BY <1>p, <2>3, <2>4, <3>1, FreshWithout
  <2>5. CASE k = Len(loads) /\ k # 1
    BY <1>7, <2>5 DEF Arrive, FreshInv
  <2>6. CASE k = Len(loads) /\ k = 1
    <3>1. loads' = << >>
      BY <1>7, <2>6, WithoutOne DEF Arrive, ViewInv
    <3>2. blurred' = blurred /\ UNCHANGED << pack, filter, calls >>
      BY <1>7, <2>6 DEF Arrive, ViewInv
    <3>3. ASSUME LastFits, ~timer' PROVE ShowsPack'
      <4>1. loads[k].ask = params /\ g = Reply(params)
        BY <1>7, <2>6, <3>3 DEF LastFits, Arrive
      <4>2. page' = page
        BY <2>3, <3>3
      <4>3. g.page = page
        BY <1>7, <2>2, <3>3, <4>1, <4>2 DEF Arrive, ShowPage, params
      <4>4. params' = params
        BY <3>2, <4>2 DEF params
      <4>5. Reply(params)' = Reply(params)
        BY <3>2, <4>4, ReplySteady
      <4>6. shown' = g.items /\ total' = g.total
        BY <1>7 DEF Arrive
      <4>7. g = [items |-> g.items, total |-> g.total, page |-> g.page]
        BY <2>1 DEF LoadType, Replies
      <4> QED BY <4>1, <4>2, <4>3, <4>5, <4>6, <4>7 DEF ShowsPack
    <3> QED BY <1>p, <2>1, <2>3, <3>1, <3>2, <3>3 DEF FreshInv
  <2> QED BY <2>4, <2>5, <2>6
<1>8. ASSUME NEW k \in DOMAIN loads, LoadFails(k) PROVE FreshInv'
  <2>1. (blurred => blurred') /\ UNCHANGED << pack, filter, page, timer, calls >>
        /\ loads' = Without(loads, k)
    BY <1>8 DEF LoadFails, paramVars
  <2>2. CASE k # Len(loads)
    BY <1>p, <2>1, <2>2, FreshWithout
  <2>3. CASE k = Len(loads)
    BY <1>8, <2>3 DEF LoadFails, FreshInv
  <2> QED BY <2>2, <2>3
<1>9. ASSUME NEW c \in calls, Store(c) PROVE FreshInv'
  <2>1. [c EXCEPT !.at = "stored"].at = "stored"
    BY DEF ViewInv, CallType
  <2> QED BY <1>9, <2>1 DEF Store, FreshInv
<1>10. ASSUME NEW c \in calls, Answer(c) PROVE FreshInv'
  <2>1. c.ask \in Params
    BY DEF ViewInv, CallType
  <2>2. CASE c.kind = "remove" /\ c.only /\ c.ask.page > 1
    <3>1. c.ask.page - 1 # page => timer'
      BY <1>10, <2>2 DEF Answer, ShowPage
    <3>2. c.ask.page - 1 = page => blurred'
      BY <1>10, <2>2 DEF Answer
    <3> QED BY <3>1, <3>2 DEF FreshInv
  <2>3. CASE ~(c.kind = "remove" /\ c.only /\ c.ask.page > 1)
    <3>1. Load(c.ask) /\ params' = params
      BY <1>10, <2>3 DEF Answer, params
    <3> QED BY <1>b, <2>1, <3>1
  <2> QED BY <2>2, <2>3
<1>11. ASSUME NEW c \in calls, CallFails(c) PROVE FreshInv'
  BY <1>11 DEF CallFails, FreshInv
<1> QED BY <1>1, <1>2, <1>3, <1>4, <1>5, <1>6, <1>7, <1>8, <1>9, <1>10, <1>11
        DEF ListNext, ListClicks, AnswerLoad, AnswerCall

(* What happens above the list: a mod that is stored is told of, and until *)
(* then its request is on its way.                                         *)
LEMMA ModsFresh ==
  ViewInv /\ OfferInv /\ FreshInv /\ (ModsClicks \/ SearchEnds \/ VersionsEnd \/ PostEnds)
    => FreshInv'
<1> SUFFICES ASSUME ViewInv, OfferInv, FreshInv,
                    ModsClicks \/ SearchEnds \/ VersionsEnd \/ PostEnds
             PROVE  FreshInv'
  OBVIOUS
<1>1. CASE ModsClicks
  <2>1. UNCHANGED << pack, page, filter, timer, shown, total, loads, blurred, calls >>
        /\ posts \subseteq posts'
    BY <1>1 DEF ModsClicks, ChooseProvider, Search, LoadVersions, Add, Select,
       paramVars, rowVars, loadVars
  <2> QED BY <2>1, FreshSteady
<1>2. ASSUME NEW ids \in SUBSET Ids, SearchAnswered(ids) PROVE FreshInv'
  <2>1. UNCHANGED << pack, page, filter, timer, shown, total, loads, blurred, calls >>
    BY <1>2 DEF SearchAnswered, listVars, paramVars, rowVars, loadVars
  <2>2. ASSUME NEW p \in posts, p.at = "stored"
        PROVE  \E q \in posts' : q.at = "stored"
    <3> DEFINE q == [p EXCEPT !.mine = @ /\ p.hit \in {searching} \X ids]
    <3>1. q \in posts'
      BY <1>2 DEF SearchAnswered, Show
    <3>2. q.at = p.at
      BY DEF OfferInv, Posts
    <3> QED BY <2>2, <3>1, <3>2
  <2> QED BY <2>1, <2>2, FreshSteady
<1>3. CASE SearchFails \/ VersionsEnd
  <2>1. UNCHANGED << pack, page, filter, timer, shown, total, loads, blurred, calls, posts >>
    BY <1>3 DEF SearchFails, VersionsEnd, VersionsFail, VersionsAnswered, listVars,
       paramVars, rowVars, loadVars
  <2> QED BY <2>1, FreshSteady
<1>4. ASSUME NEW p \in posts, StoreMod(p) PROVE FreshInv'
  <2>1. [p EXCEPT !.at = "stored"].at = "stored"
    BY DEF OfferInv, Posts
  <2> QED BY <1>4, <2>1 DEF StoreMod, FreshInv
<1>5. ASSUME NEW p \in posts, ModAdded(p) \/ AddFails(p) PROVE FreshInv'
  BY <1>5 DEF ModAdded, AddFails, FreshInv
<1> QED BY <1>1, <1>2, <1>3, <1>4, <1>5 DEF SearchEnds, PostEnds

LEMMA NextFresh == ViewInv /\ OfferInv /\ FreshInv /\ [Next]_vars => FreshInv'
<1> SUFFICES ASSUME ViewInv, OfferInv, FreshInv, [Next]_vars PROVE FreshInv'
  OBVIOUS
<1>1. CASE UNCHANGED vars
  BY <1>1, FreshSteady DEF vars, listVars, modsVars, paramVars, rowVars, loadVars
<1> QED BY <1>1, ListFresh, ModsFresh DEF Next, Resting

-----------------------------------------------------------------------------
(* Types, and one control for every hit that is shown.                     *)
THEOREM ModsTypeCorrect == Spec => []ModsTypeOK
<1>1. Init => ViewInv /\ OfferInv
  BY InitView, InitOffer
<1>2. ViewInv /\ OfferInv /\ [Next]_vars => (ViewInv /\ OfferInv)'
  BY NextView, NextOffer
<1>3. ViewInv /\ OfferInv => ModsTypeOK
  <2> SUFFICES ASSUME ViewInv, OfferInv PROVE ModsTypeOK
    OBVIOUS
  <2>1. ASSUME NEW k \in DOMAIN loads
        PROVE  loads[k] \in [ask : Params, at : {"sent", "read"}, got : Replies]
    <3>1. loads[k] \in LoadType
      BY DEF ViewInv
    <3> QED BY <3>1 DEF LoadType
  <2>2. \A c \in calls : c.item \in Items /\ c.side \in Sides \cup {Absent} /\ c.ask \in Params
    BY DEF ViewInv, CallType
  <2>3. ListTypeOK
    BY <2>1, <2>2, ParamsTyped DEF ListTypeOK, ViewInv
  <2>4. \A p \in posts : p.hit \in Hits /\ p.mine \in BOOLEAN
                         /\ p.version \in Versions \cup {Latest}
    BY DEF OfferInv, Posts
  <2> QED BY <2>3, <2>4 DEF ModsTypeOK, OfferInv
<1> QED BY <1>1, <1>2, <1>3, PTL DEF Spec

(* At rest the rows, their sides, the count and the page number are what   *)
(* the service has, for a list of any length on pages of any size, any     *)
(* number of changes and additions and any order of their answers - unless *)
(* something failed, was overtaken or loaded what is shown no more since   *)
(* the last load of what is shown was begun.                               *)
THEOREM ListIsPack == Spec => []AtRestShowsPack
<1>1. Init => ViewInv /\ OfferInv /\ FreshInv
  BY InitView, InitOffer
<1>2. ViewInv /\ OfferInv /\ FreshInv /\ [Next]_vars => (ViewInv /\ OfferInv /\ FreshInv)'
  BY NextView, NextOffer, NextFresh
<1>3. FreshInv => AtRestShowsPack
  BY DEF FreshInv, AtRestShowsPack, Quiet, ListQuiet
<1> QED BY <1>1, <1>2, <1>3, PTL DEF Spec
=============================================================================
