--------------------------- MODULE RouteViewProofs ---------------------------
(***************************************************************************)
(* Proofs about RouteView, for any number of packs, names, revisions and   *)
(* clicks, and any order in which requests and listings are answered.      *)
(*                                                                         *)
(* Five inductive invariants.  BaseInv: what there can be at all, and that *)
(* each handler that waits has its one listing on its way.  FrameInv: what *)
(* will have the frame show what the service has.  EmptyInv: while the     *)
(* form for a first pack is shown nothing else is under way, so that no    *)
(* pack appears behind a section without a handler of that section.        *)
(* SettingsInv and ReleasesInv: what will have the switcher and the        *)
(* history follow.                                                         *)
(*                                                                         *)
(* The order of a listing is chosen among those that sort the packs; that  *)
(* there is one is proved for every finite number of packs, by taking the  *)
(* fewest that could not be sorted.                                        *)
(***************************************************************************)
EXTENDS RouteView, FiniteSetTheorems, SequenceTheorems, WellFoundedInduction, TLAPS

-----------------------------------------------------------------------------
(* The order of a listing.                                                 *)
Sorted(S, s) ==
  /\ s \in [1 .. Cardinality(S) -> S]
  /\ \A j, k \in DOMAIN s : j < k => s[j] # s[k] /\ Before(s[j], s[k])

(* Every set of numbers has a least one.                                   *)
LEMMA LeastNumber ==
  ASSUME NEW T \in SUBSET Nat, T # {}
  PROVE  \E n \in T : \A m \in T : n <= m
<1>1. PICK n \in T : \A m \in T : ~ (<< m, n >> \in OpToRel(<, Nat))
  BY NatLessThanWellFounded, WFMin
<1>2. \A m \in T : ~(m < n)
  BY <1>1 DEF OpToRel
<1> QED BY <1>2

(* Some pack comes before all others: the selected one, or one with the    *)
(* least name.                                                             *)
LEMMA SomeFirst ==
  ASSUME name \in [Packs -> Names], NEW S \in SUBSET Packs, S # {}
  PROVE  \E m \in S : \A p \in S : Before(m, p)
<1>1. CASE cookie \in S
  BY <1>1 DEF Before
<1>2. CASE cookie \notin S
  <2>a. \A p \in S : name[p] \in Nat
    BY RouteAssumption
  <2>1. {name[p] : p \in S} \in SUBSET Nat /\ {name[p] : p \in S} # {}
    BY <2>a
  <2>2. PICK n \in {name[p] : p \in S} : \A m \in {name[p] : p \in S} : n <= m
    BY <2>1, LeastNumber
  <2>3. PICK m \in S : name[m] = n
    OBVIOUS
  <2> QED BY <1>2, <2>2, <2>3 DEF Before
<1> QED BY <1>1, <1>2

(* Finitely many packs can be listed: if not, take the fewest that cannot, *)
(* and put their first before a listing of the others.                     *)
LEMMA SortedExists ==
  ASSUME name \in [Packs -> Names], NEW S \in SUBSET Packs, IsFiniteSet(S)
  PROVE  \E s : Sorted(S, s)
<1> DEFINE Bad == {n \in Nat : \E R \in SUBSET S : Cardinality(R) = n /\ ~ \E s : Sorted(R, s)}
<1>1. CASE Bad = {}
  <2>1. Cardinality(S) \in Nat
    BY FS_CardinalityType
  <2> QED BY <1>1, <2>1
<1>2. CASE Bad # {}
  <2>1. PICK n \in Bad : \A m \in Bad : n <= m
    BY <1>2, LeastNumber
  <2>2. PICK R \in SUBSET S : Cardinality(R) = n /\ ~ \E s : Sorted(R, s)
    OBVIOUS
  <2>3. IsFiniteSet(R) /\ n \in Nat
    BY <2>2, FS_Subset
  <2>4. R # {}
    <3>1. ASSUME R = {} PROVE Sorted(R, [k \in 1 .. 0 |-> k])
      <4>1. Cardinality(R) = 0
        BY <3>1, FS_EmptySet
      <4>2. 1 .. 0 = {}
        OBVIOUS
      <4> QED BY <4>1, <4>2 DEF Sorted
    <3> QED BY <2>2, <3>1
  <2>5. PICK m \in R : \A p \in R : Before(m, p)
    BY <2>4, SomeFirst
  <2> DEFINE Q == R \ {m}
  <2>6. IsFiniteSet(Q) /\ Cardinality(Q) = n - 1
    BY <2>2, <2>3, FS_RemoveElement
  <2>7. n - 1 \in Nat
    BY <2>6, FS_CardinalityType
  <2>8. PICK s : Sorted(Q, s)
    <3>1. n - 1 \notin Bad
      BY <2>1, <2>3
    <3> QED BY <2>6, <2>7, <3>1
  <2> DEFINE t == [k \in 1 .. n |-> IF k = 1 THEN m ELSE s[k - 1]]
  <2>9. s \in [1 .. (n - 1) -> Q] /\ \A j, k \in 1 .. (n - 1) : j < k => s[j] # s[k] /\ Before(s[j], s[k])
    BY <2>6, <2>8 DEF Sorted
  <2> HIDE DEF Bad
  <2>10. t \in [1 .. n -> R]
    BY <2>3, <2>9
  <2>11. ASSUME NEW j \in 1 .. n, NEW k \in 1 .. n, j < k
         PROVE  t[j] # t[k] /\ Before(t[j], t[k])
    <3>1. k - 1 \in 1 .. (n - 1) /\ t[k] = s[k - 1] /\ t[k] \in Q
      BY <2>3, <2>9, <2>11
    <3>2. CASE j = 1
      BY <2>5, <3>1, <3>2
    <3>3. CASE j # 1
      <4>1. j - 1 \in 1 .. (n - 1) /\ t[j] = s[j - 1] /\ j - 1 < k - 1
        BY <2>3, <2>11, <3>3
      <4> QED BY <2>9, <3>1, <4>1
    <3> QED BY <3>2, <3>3
  <2>12. Sorted(R, t)
    BY <2>2, <2>10, <2>11 DEF Sorted
  <2> QED BY <2>2, <2>12
<1> QED BY <1>1, <1>2

(* The service lists the packs it has.                                     *)
Entry == [id : Packs, name : Names, current : Nat]

Known(list, R) ==
  /\ list \in Seq(Entry) /\ list # << >>
  /\ \A k \in DOMAIN list : list[k].id \in R

ServiceInv ==
  /\ roster \subseteq Packs /\ IsFiniteSet(roster)
  /\ name \in [Packs -> Names]
  /\ revisions \in [Packs -> Nat] /\ current \in [Packs -> Nat]
  /\ \A p \in Packs : current[p] \in 0 .. revisions[p]
  /\ cookie = wanted /\ cookie \in roster \cup {NoPack}

(* The order of a listing is one that exists.                              *)
LEMMA OrderSorted ==
  ASSUME ServiceInv
  PROVE  Order \in [1 .. Cardinality(roster) -> roster]
         /\ \A j, k \in DOMAIN Order : j < k => Order[j] # Order[k] /\ Before(Order[j], Order[k])
<1>1. \E s : Sorted(roster, s)
  BY SortedExists DEF ServiceInv
<1>2. \E s \in [1 .. Cardinality(roster) -> roster] :
        \A j, k \in DOMAIN s : j < k => s[j] # s[k] /\ Before(s[j], s[k])
  BY <1>1 DEF Sorted
<1> QED BY <1>2 DEF Order

(* A listing has entries of the packs there are, and some when there are   *)
(* some.                                                                   *)
LEMMA ListedKnown ==
  ASSUME ServiceInv
  PROVE  /\ roster # {} => Known(Listed, roster)
         /\ roster = {} => Listed = << >>
<1> DEFINE n == Cardinality(roster)
<1>1. n \in Nat /\ (n = 0 <=> roster = {})
  BY FS_CardinalityType, FS_EmptySet DEF ServiceInv
<1>2. DOMAIN Order = 1 .. n /\ \A k \in 1 .. n : Order[k] \in roster
  BY OrderSorted
<1>3. \A k \in 1 .. n : [id |-> Order[k], name |-> name[Order[k]], current |-> current[Order[k]]] \in Entry
  BY <1>2 DEF ServiceInv, Entry
<1>4. Listed = [k \in 1 .. n |->
                  [id |-> Order[k], name |-> name[Order[k]], current |-> current[Order[k]]]]
  BY <1>2 DEF Listed
<1> HIDE DEF n
<1>5. Listed \in [1 .. n -> Entry] /\ \A k \in 1 .. n : Listed[k].id = Order[k]
  BY <1>3, <1>4
<1>6. Listed \in Seq(Entry) /\ Len(Listed) = n
  BY <1>1, <1>5
<1> QED BY <1>1, <1>2, <1>5, <1>6 DEF Known

(* The selected pack is the first that is listed.                          *)
LEMMA SelectedIsFirst ==
  ASSUME ServiceInv, cookie \in roster
  PROVE  Listed # << >> /\ Listed[1].id = cookie
<1> DEFINE n == Cardinality(roster)
<1>1. n \in Nat /\ n # 0 /\ IsFiniteSet(roster)
  BY FS_CardinalityType, FS_EmptySet DEF ServiceInv
<1>2. Order \in [1 .. n -> roster]
      /\ \A j, k \in 1 .. n : j < k => Order[j] # Order[k] /\ Before(Order[j], Order[k])
  BY OrderSorted
<1>3. Order \in Injection(1 .. n, roster)
  BY <1>1, <1>2 DEF Injection, IsInjective
<1>4. \E k \in 1 .. n : Order[k] = cookie
  <2>1. IsFiniteSet(1 .. n) /\ Cardinality(1 .. n) = n
    BY <1>1, FS_Interval
  <2>2. Order \in Surjection(1 .. n, roster)
    BY ONLY <1>1, <1>3, <2>1, FS_Injection
  <2> QED BY <2>2 DEF Surjection
<1>5. Order[1] = cookie
  <2>1. PICK k \in 1 .. n : Order[k] = cookie
    BY <1>4
  <2>2. 1 \in 1 .. n
    BY <1>1
  <2> QED BY <1>2, <2>1, <2>2 DEF Before
<1> QED BY <1>1, <1>2, <1>5 DEF Listed

(* What is listed depends on the packs, their names and live revisions,    *)
(* and the cookie.                                                         *)
LEMMA ListedSteady ==
  ASSUME UNCHANGED << roster, name, current, cookie >>
  PROVE  Listed' = Listed
BY DEF Listed, Order, Before

-----------------------------------------------------------------------------
(* Types, and who waits for what.  A handler that waits has one listing on *)
(* its way, which carries its number: those of imports the switcher, those *)
(* of the others the frame or a history.  What is listed once stays.       *)
Histories == [of : Packs \cup {NoPack}, n : Nat]
GetType == [what : {"projects", "rows", "choices"}, of : Packs \cup {NoPack}, for : Nat,
            here : BOOLEAN, at : {"sent", "read"}, got : Histories \cup Seq(Entry) \cup SUBSET Packs]
CallType == [id : Nat, kind : {"create", "save", "publish", "rollback", "import", "replace"},
             pack : Packs, arg : Nat, at : {"posting", "stored", "reloading"},
             here : BOOLEAN, lost : BOOLEAN]

Sound(g, R) ==
  /\ g.what = "rows" => g.of \in Packs
  /\ g.what = "projects" => R # {}
  /\ g.at = "read" =>
       /\ g.what = "projects" => Known(g.got, R)
       /\ g.what = "rows" => g.got \in Histories /\ g.got.of = g.of
       /\ g.what = "choices" => g.got \subseteq R

TabInv ==
  /\ projects = << >> \/ Known(projects, roster)
  /\ active \in Sections /\ (active # "Overview" => projects # << >>)
  /\ rows \in Histories /\ page \in 1 .. Last(rows.n)
  /\ choices \subseteq roster
  /\ loading \in BOOLEAN /\ reboot \in BOOLEAN /\ (reboot => roster # {})
  /\ blurred \subseteq {"frame", "section"} /\ clicks \in Nat

CallSound(c, R, n) ==
  /\ c.id \in 1 .. n
  /\ c.kind \in {"create", "save", "import", "replace"} => c.arg \in Names
  /\ c.kind \notin {"create", "import"} => c.pack \in R
  /\ c.at # "posting" => c.pack \in R /\ ~c.lost
  /\ c.at = "reloading" => c.kind # "save"

NetInv ==
  /\ gets \in Seq(GetType) /\ \A k \in DOMAIN gets : Sound(gets[k], roster)
  /\ calls \subseteq CallType /\ \A c \in calls : CallSound(c, roster, clicks)

OneFor(q) == \A j, k \in DOMAIN q : q[j].for = q[k].for /\ q[j].for # 0 => j = k

Waits(c, g) ==
  c.id = g.for /\ c.at = "reloading" /\ (g.what = "choices" <=> c.kind \in {"import", "replace"})

IdsInv ==
  /\ \A c, d \in calls : c.id = d.id => c = d
  /\ OneFor(gets)
  /\ \A k \in DOMAIN gets : gets[k].for # 0 => \E c \in calls : Waits(c, gets[k])
  /\ \A c \in calls : c.at = "reloading" => \E k \in DOMAIN gets : gets[k].for = c.id

BaseInv == ServiceInv /\ TabInv /\ NetInv /\ IdsInv

-----------------------------------------------------------------------------
(* Listings are added at the end and taken out anywhere.                   *)
LEMMA GetTyped ==
  ASSUME NEW what \in {"projects", "rows", "choices"}, NEW of \in Packs \cup {NoPack},
         NEW for \in Nat
  PROVE  /\ Get(what, of, for) \in GetType
         /\ Get(what, of, for).what = what /\ Get(what, of, for).of = of
         /\ Get(what, of, for).for = for /\ Get(what, of, for).here = TRUE
         /\ Get(what, of, for).at = "sent"
BY DEF Get, GetType, Histories, NoRows

(* Adding a list of one is appending; adding none changes nothing.         *)
LEMMA ConcatOne ==
  ASSUME NEW S, NEW q \in Seq(S), NEW x \in S
  PROVE  q \o << x >> = Append(q, x) /\ q \o << >> = q
OBVIOUS

(* What appending does, place by place.                                    *)
LEMMA Appended ==
  ASSUME NEW S, NEW q \in Seq(S), NEW x \in S
  PROVE  /\ Append(q, x) \in Seq(S) /\ Len(Append(q, x)) = Len(q) + 1
         /\ DOMAIN Append(q, x) = DOMAIN q \cup {Len(q) + 1}
         /\ Append(q, x)[Len(q) + 1] = x
         /\ \A k \in DOMAIN q : Append(q, x)[k] = q[k]
OBVIOUS

(* Taking a listing out moves those after it one place forward.            *)
LEMMA WithoutOne ==
  ASSUME gets \in Seq(GetType), NEW k \in DOMAIN gets
  PROVE  /\ Without(k) \in Seq(GetType) /\ Len(Without(k)) = Len(gets) - 1
         /\ DOMAIN Without(k) = 1 .. (Len(gets) - 1)
         /\ \A j \in 1 .. (Len(gets) - 1) :
              Without(k)[j] = IF j < k THEN gets[j] ELSE gets[j + 1]
<1> DEFINE a == SubSeq(gets, 1, k - 1)
           b == SubSeq(gets, k + 1, Len(gets))
<1>1. k \in 1 .. Len(gets) /\ Len(gets) \in Nat
  OBVIOUS
<1>2. a \in Seq(GetType) /\ Len(a) = k - 1 /\ \A j \in 1 .. (k - 1) : a[j] = gets[j]
  BY <1>1
<1>3. b \in Seq(GetType) /\ Len(b) = Len(gets) - k
      /\ \A j \in 1 .. (Len(gets) - k) : b[j] = gets[k + j]
  BY <1>1
<1>4. Without(k) = a \o b
  BY DEF Without
<1> HIDE DEF a, b
<1>5. /\ a \o b \in Seq(GetType) /\ Len(a \o b) = Len(a) + Len(b)
      /\ \A i \in 1 .. Len(a) + Len(b) :
           (a \o b)[i] = IF i <= Len(a) THEN a[i] ELSE b[i - Len(a)]
  BY ONLY <1>2, <1>3, ConcatProperties
<1>6. Len(a) + Len(b) = Len(gets) - 1
  BY <1>1, <1>2, <1>3
<1>7. ASSUME NEW j \in 1 .. (Len(gets) - 1)
      PROVE  Without(k)[j] = IF j < k THEN gets[j] ELSE gets[j + 1]
  <2>1. Without(k)[j] = IF j <= Len(a) THEN a[j] ELSE b[j - Len(a)]
    BY <1>4, <1>5, <1>6, <1>7
  <2>2. CASE j < k
    <3>1. j <= Len(a) /\ j \in 1 .. (k - 1)
      BY <1>1, <1>2, <2>2
    <3> QED BY <1>2, <2>1, <2>2, <3>1
  <2>3. CASE ~(j < k)
    <3>1. ~(j <= Len(a)) /\ j - Len(a) = j - (k - 1) /\ j - (k - 1) \in 1 .. (Len(gets) - k)
      BY <1>1, <1>2, <2>3
    <3>2. b[j - (k - 1)] = gets[k + (j - (k - 1))]
      BY ONLY <1>3, <3>1
    <3>3. k + (j - (k - 1)) = j + 1
      BY <1>1
    <3> QED BY <2>1, <2>3, <3>1, <3>2, <3>3
  <2> QED BY <2>2, <2>3
<1>8. Without(k) \in Seq(GetType) /\ Len(Without(k)) = Len(gets) - 1
  BY <1>4, <1>5, <1>6
<1>9. DOMAIN Without(k) = 1 .. (Len(gets) - 1)
  BY <1>8
<1> QED BY <1>7, <1>8, <1>9

(* The other listings are what is left.                                    *)
LEMMA WithoutMembers ==
  ASSUME gets \in Seq(GetType), NEW k \in DOMAIN gets
  PROVE  /\ \A j \in DOMAIN Without(k) : \E i \in DOMAIN gets \ {k} : Without(k)[j] = gets[i]
         /\ \A i \in DOMAIN gets \ {k} : \E j \in DOMAIN Without(k) : Without(k)[j] = gets[i]
<1>1. DOMAIN gets = 1 .. Len(gets) /\ Len(gets) \in Nat /\ k \in 1 .. Len(gets)
  OBVIOUS
<1>2. /\ DOMAIN Without(k) = 1 .. (Len(gets) - 1)
      /\ \A j \in 1 .. (Len(gets) - 1) :
           Without(k)[j] = IF j < k THEN gets[j] ELSE gets[j + 1]
  BY WithoutOne
<1>3. ASSUME NEW j \in DOMAIN Without(k)
      PROVE  \E i \in DOMAIN gets \ {k} : Without(k)[j] = gets[i]
  <2>1. CASE j < k
    BY <1>1, <1>2, <2>1
  <2>2. CASE ~(j < k)
    <3>1. j + 1 \in DOMAIN gets \ {k}
      BY <1>1, <1>2, <2>2
    <3> QED BY <1>2, <2>2, <3>1
  <2> QED BY <2>1, <2>2
<1>4. ASSUME NEW i \in DOMAIN gets \ {k}
      PROVE  \E j \in DOMAIN Without(k) : Without(k)[j] = gets[i]
  <2>1. CASE i < k
    <3>1. i \in 1 .. (Len(gets) - 1)
      BY <1>1, <2>1
    <3> QED BY <1>2, <2>1, <3>1
  <2>2. CASE ~(i < k)
    <3>1. i - 1 \in 1 .. (Len(gets) - 1) /\ ~(i - 1 < k) /\ (i - 1) + 1 = i
      BY <1>1, <2>2
    <3> QED BY <1>2, <3>1
  <2> QED BY <2>1, <2>2
<1> QED BY <1>3, <1>4

(* Without its listing, a number is awaited no more.                       *)
LEMMA WithoutFor ==
  ASSUME gets \in Seq(GetType), OneFor(gets), NEW k \in DOMAIN gets
  PROVE  /\ OneFor(Without(k))
         /\ gets[k].for # 0 => \A j \in DOMAIN Without(k) : Without(k)[j].for # gets[k].for
<1>1. DOMAIN gets = 1 .. Len(gets) /\ Len(gets) \in Nat /\ k \in 1 .. Len(gets)
  OBVIOUS
<1>2. /\ DOMAIN Without(k) = 1 .. (Len(gets) - 1)
      /\ \A j \in 1 .. (Len(gets) - 1) :
           Without(k)[j] = IF j < k THEN gets[j] ELSE gets[j + 1]
  BY WithoutOne
<1>3. ASSUME NEW i \in DOMAIN Without(k), NEW j \in DOMAIN Without(k),
             Without(k)[i].for = Without(k)[j].for, Without(k)[i].for # 0
      PROVE  i = j
  <2> DEFINE p == IF i < k THEN i ELSE i + 1
             q == IF j < k THEN j ELSE j + 1
  <2>1. p \in DOMAIN gets /\ q \in DOMAIN gets
    BY <1>1, <1>2
  <2>2. Without(k)[i] = gets[p] /\ Without(k)[j] = gets[q]
    BY <1>2
  <2>3. p = q
    BY <1>3, <2>1, <2>2 DEF OneFor
  <2> QED BY <1>1, <1>2, <2>3
<1>4. \A j \in DOMAIN Without(k) : gets[k].for # 0 => Without(k)[j].for # gets[k].for
  BY WithoutMembers DEF OneFor
<1> QED BY <1>3, <1>4 DEF OneFor

(* A number that was not awaited may be awaited once.                      *)
LEMMA AppendFor ==
  ASSUME NEW q \in Seq(GetType), NEW x \in GetType, OneFor(q),
         x.for # 0 => \A j \in DOMAIN q : q[j].for # x.for
  PROVE  OneFor(Append(q, x))
BY Appended DEF OneFor

-----------------------------------------------------------------------------
(* What is true of the packs stays so when there are more of them.         *)
LEMMA SoundGrows ==
  ASSUME NEW R, NEW Q, R \subseteq Q
  PROVE  /\ \A list : Known(list, R) => Known(list, Q)
         /\ \A g : Sound(g, R) => Sound(g, Q)
<1>1. \A list : Known(list, R) => Known(list, Q)
  BY DEF Known
<1> QED BY <1>1 DEF Sound

(* The pack that is shown is one of the packs.                             *)
LEMMA ProjectKnown ==
  ASSUME ServiceInv, TabInv, projects # << >>
  PROVE  project \in roster /\ project \in Packs
<1>1. 1 \in DOMAIN projects
  BY DEF TabInv, Known
<1> QED BY <1>1 DEF TabInv, Known, project, ServiceInv

(* There is always a page to show.                                         *)
LEMMA LastPage == ASSUME NEW n \in Nat PROVE Last(n) \in Nat \ {0}
  BY RouteAssumption DEF Last

(* What a section loads when it is opened.                                 *)
LEMMA MountedGets ==
  ASSUME ServiceInv, TabInv, projects # << >>, NEW s \in Sections
  PROVE  \/ Mounted(s) = << >> /\ s = "Overview"
         \/ Mounted(s) = << Get("rows", project, 0) >> /\ s = "Releases"
         \/ Mounted(s) = << Get("choices", NoPack, 0) >> /\ s = "Settings"
BY DEF Mounted, Sections

(* A listing that was not read yet promises nothing.                       *)
LEMMA SentSound ==
  ASSUME NEW what \in {"projects", "rows", "choices"}, NEW of \in Packs \cup {NoPack},
         NEW for \in Nat, NEW R,
         what = "rows" => of \in Packs, what = "projects" => R # {}
  PROVE  Sound(Get(what, of, for), R)
<1> DEFINE g == Get(what, of, for)
<1>1. g.what = what /\ g.of = of /\ g.at = "sent"
  BY DEF Get
<1> HIDE DEF g
<1>2. Sound(g, R)
  BY <1>1 DEF Sound
<1> QED BY <1>2 DEF g

(* The page as it was loaded.                                              *)
LEMMA InitBase == Init => BaseInv
<1> SUFFICES ASSUME Init PROVE BaseInv
  OBVIOUS
<1>1. ServiceInv
  BY RouteAssumption, RostersAssumption DEF Init, ServiceInv
<1>2. roster # {} => projects # << >>
  BY <1>1, ListedKnown DEF Init, Known
<1>3. TabInv
  <2>1. projects = << >> \/ Known(projects, roster)
    BY <1>1, ListedKnown DEF Init
  <2>2. rows \in Histories /\ page \in 1 .. Last(rows.n)
    BY LastPage DEF Init, NoRows, Histories
  <2>3. active \in Sections /\ (active # "Overview" => projects # << >>)
    BY <1>2 DEF Init, Sections
  <2> QED BY <2>1, <2>2, <2>3 DEF TabInv, Init
<1>4. calls = {} /\ gets = Mounted(active)
  BY DEF Init
<1>5. CASE active = "Overview"
  <2>1. gets = << >>
    BY <1>4, <1>5 DEF Mounted
  <2> QED BY <1>1, <1>3, <1>4, <2>1 DEF BaseInv, NetInv, IdsInv, OneFor
<1>6. CASE active # "Overview"
  <2>1. projects # << >> /\ active \in Sections
    BY <1>3, <1>6 DEF TabInv
  <2>2. project \in Packs
    BY <1>1, <1>3, <2>1, ProjectKnown
  <2>3. \E what \in {"rows", "choices"}, of \in Packs \cup {NoPack} :
          gets = << Get(what, of, 0) >> /\ (what = "rows" => of \in Packs)
    BY <1>1, <1>3, <1>4, <1>6, <2>1, <2>2, MountedGets
  <2>4. PICK what \in {"rows", "choices"}, of \in Packs \cup {NoPack} :
          gets = << Get(what, of, 0) >> /\ (what = "rows" => of \in Packs)
    BY <2>3
  <2>5. Get(what, of, 0) \in GetType /\ Sound(Get(what, of, 0), roster) /\ Get(what, of, 0).for = 0
    <3>1. 0 \in Nat /\ what \in {"projects", "rows", "choices"} /\ what # "projects"
      OBVIOUS
    <3>2. Get(what, of, 0) \in GetType /\ Get(what, of, 0).for = 0
      BY <2>4, <3>1 DEF Get, GetType, Histories, NoRows
    <3>3. Sound(Get(what, of, 0), roster)
      BY <2>4, <3>1, SentSound
    <3> QED BY <3>2, <3>3
  <2>6. gets \in Seq(GetType) /\ \A k \in DOMAIN gets : k = 1 /\ gets[k] = Get(what, of, 0)
    BY <2>4, <2>5
  <2>7. NetInv
    BY <1>4, <2>5, <2>6 DEF NetInv
  <2>8. IdsInv
    BY <1>4, <2>5, <2>6 DEF IdsInv, OneFor
  <2> QED BY <1>1, <1>3, <2>7, <2>8 DEF BaseInv
<1> QED BY <1>5, <1>6

-----------------------------------------------------------------------------
(* The steps.                                                              *)
LEMMA ServeBase ==
  ASSUME BaseInv, NEW k \in DOMAIN gets, Serve(k)
  PROVE  BaseInv'
<1> DEFINE got == CASE gets[k].what = "projects" -> Listed
                    [] gets[k].what = "rows" -> History(gets[k].of)
                    [] gets[k].what = "choices" -> roster
           l == [gets[k] EXCEPT !.at = "read", !.got = got]
<1>1. gets[k] \in GetType /\ Sound(gets[k], roster) /\ gets \in Seq(GetType)
  BY DEF BaseInv, NetInv
<1>2. ASSUME NEW x, x \in Histories \cup Seq(Entry) \cup SUBSET Packs,
             gets[k].what = "projects" => Known(x, roster),
             gets[k].what = "rows" => x \in Histories /\ x.of = gets[k].of,
             gets[k].what = "choices" => x \subseteq roster
      PROVE  LET m == [gets[k] EXCEPT !.at = "read", !.got = x]
             IN  m \in GetType /\ Sound(m, roster) /\ m.for = gets[k].for
                 /\ m.what = gets[k].what
  <2> DEFINE m == [gets[k] EXCEPT !.at = "read", !.got = x]
  <2>1. m \in GetType /\ m.for = gets[k].for /\ m.what = gets[k].what /\ m.of = gets[k].of
        /\ m.got = x
    BY <1>1, <1>2 DEF GetType
  <2> HIDE DEF m
  <2>2. Sound(m, roster)
    BY <1>1, <1>2, <2>1 DEF Sound
  <2> QED BY <2>1, <2>2 DEF m
<1>3. /\ got \in Histories \cup Seq(Entry) \cup SUBSET Packs
      /\ gets[k].what = "projects" => Known(got, roster)
      /\ gets[k].what = "rows" => got \in Histories /\ got.of = gets[k].of
      /\ gets[k].what = "choices" => got \subseteq roster
  <2>1. CASE gets[k].what = "projects"
    <3>1. got = Listed /\ Known(Listed, roster)
      BY <1>1, <2>1, ListedKnown DEF BaseInv, Sound
    <3>2. Listed \in Seq(Entry)
      BY <3>1 DEF Known
    <3> HIDE DEF got
    <3> QED BY <2>1, <3>1, <3>2
  <2>2. CASE gets[k].what = "rows"
    <3>1. gets[k].of \in Packs /\ got = [of |-> gets[k].of, n |-> revisions[gets[k].of]]
      BY <1>1, <2>2 DEF Sound, History
    <3>2. revisions[gets[k].of] \in Nat
      BY <3>1 DEF BaseInv, ServiceInv
    <3> HIDE DEF got
    <3>3. got \in Histories /\ got.of = gets[k].of
      BY <3>1, <3>2 DEF Histories
    <3> QED BY <2>2, <3>3
  <2>3. CASE gets[k].what = "choices"
    <3>1. got = roster /\ roster \in SUBSET Packs
      BY <2>3 DEF BaseInv, ServiceInv
    <3> HIDE DEF got
    <3> QED BY <2>3, <3>1
  <2> QED BY <1>1, <2>1, <2>2, <2>3 DEF GetType
<1> HIDE DEF got
<1>5. l \in GetType /\ Sound(l, roster) /\ l.for = gets[k].for /\ l.what = gets[k].what
  BY <1>2, <1>3
<1>6. gets' = [gets EXCEPT ![k] = l]
  <2>1. gets' = [gets EXCEPT ![k].at = "read", ![k].got = got]
    BY DEF Serve, got
  <2> QED BY <1>1, <2>1
<1>7. UNCHANGED << serviceVars, cookie, frameVars, sectionVars, calls, reboot, historyVars >>
  BY DEF Serve
<1> HIDE DEF l
<1>8. /\ gets' \in Seq(GetType) /\ DOMAIN gets' = DOMAIN gets
      /\ \A j \in DOMAIN gets : gets'[j] = IF j = k THEN l ELSE gets[j]
  BY <1>1, <1>5, <1>6
<1>9. \A j \in DOMAIN gets : gets'[j].for = gets[j].for /\ gets'[j].what = gets[j].what
  BY <1>5, <1>8
<1>10. ServiceInv' /\ TabInv'
  BY <1>7 DEF BaseInv, ServiceInv, TabInv, Known, serviceVars, frameVars, sectionVars, historyVars
<1>11. NetInv'
  BY <1>5, <1>7, <1>8 DEF BaseInv, NetInv, CallSound, serviceVars, historyVars
<1>12. IdsInv'
  BY <1>7, <1>8, <1>9 DEF BaseInv, IdsInv, OneFor, Waits
<1> QED BY <1>10, <1>11, <1>12 DEF BaseInv

(* A request carries a number of its own.                                  *)
LEMMA PostBase ==
  ASSUME BaseInv,
         NEW kind \in {"create", "save", "publish", "rollback", "import", "replace"},
         NEW p \in Packs, NEW arg \in Nat,
         kind \in {"create", "save", "import", "replace"} => arg \in Names,
         kind \notin {"create", "import"} => p \in roster,
         Post(kind, p, arg)
  PROVE  BaseInv'
<1> DEFINE c == [id |-> clicks', kind |-> kind, pack |-> p, arg |-> arg,
                 at |-> "posting", here |-> TRUE, lost |-> FALSE]
<1>1. clicks' = clicks + 1 /\ clicks \in Nat
  BY DEF Post, Click, BaseInv, TabInv
<1>2. c \in CallType /\ c.id = clicks + 1 /\ c.at = "posting"
  BY <1>1 DEF CallType
<1>3. CallSound(c, roster', clicks')
  BY <1>1 DEF CallSound, Post, serviceVars
<1>4. UNCHANGED << roster, name, revisions, current, cookie, projects, loading, active, rows,
                   page, choices, gets, reboot, wanted, blurred >>
  BY DEF Post, serviceVars, frameVars, sectionVars
<1>5. calls' = calls \cup {c}
  BY DEF Post
<1> HIDE DEF c
<1>6. ServiceInv'
  BY <1>4 DEF BaseInv, ServiceInv
<1>7. TabInv'
  BY <1>1, <1>4 DEF BaseInv, TabInv
<1>8. \A d \in calls : CallSound(d, roster', clicks')
  BY <1>1, <1>4 DEF BaseInv, NetInv, CallSound
<1>9. NetInv'
  BY <1>2, <1>3, <1>4, <1>5, <1>8 DEF BaseInv, NetInv
<1>10. \A d \in calls : d.id # c.id
  BY <1>1, <1>2 DEF BaseInv, NetInv, CallSound
<1>11. IdsInv'
  BY <1>2, <1>4, <1>5, <1>10 DEF BaseInv, IdsInv
<1> QED BY <1>6, <1>7, <1>9, <1>11 DEF BaseInv

(* A section that is left takes nothing with it but who listens.           *)
LEMMA SwitchBase ==
  ASSUME BaseInv, NEW s \in Sections, SwitchTo(s)
  PROVE  BaseInv'
<1> DEFINE q == [k \in DOMAIN gets |-> [gets[k] EXCEPT !.here = FALSE]]
<1>1. projects # << >> /\ project \in Packs
  BY ProjectKnown DEF SwitchTo, BaseInv
<1>2. gets \in Seq(GetType) /\ \A k \in DOMAIN gets : gets[k] \in GetType /\ Sound(gets[k], roster)
  BY DEF BaseInv, NetInv
<1>3. \A k \in DOMAIN gets :
        /\ [gets[k] EXCEPT !.here = FALSE] \in GetType
        /\ [gets[k] EXCEPT !.here = FALSE].for = gets[k].for
        /\ [gets[k] EXCEPT !.here = FALSE].what = gets[k].what
        /\ [gets[k] EXCEPT !.here = FALSE].of = gets[k].of
        /\ [gets[k] EXCEPT !.here = FALSE].at = gets[k].at
        /\ [gets[k] EXCEPT !.here = FALSE].got = gets[k].got
  BY <1>2 DEF GetType
<1>4. q \in Seq(GetType) /\ DOMAIN q = DOMAIN gets
  BY <1>2, <1>3
<1>5. \A k \in DOMAIN gets : Sound(q[k], roster) /\ q[k].for = gets[k].for /\ q[k].what = gets[k].what
  BY <1>2, <1>3 DEF Sound
<1>6. gets' = q \o Mounted(s)
  BY DEF SwitchTo
<1>7. /\ UNCHANGED << roster, name, revisions, current, cookie, projects, loading, reboot, wanted >>
      /\ active' = s /\ rows' = NoRows /\ page' = 1 /\ choices' = {}
      /\ blurred' = blurred \ {"section"} /\ clicks' = clicks + 1
      /\ calls' = {[c EXCEPT !.here = FALSE] : c \in calls}
  BY DEF SwitchTo, Click, serviceVars, frameVars
<1> HIDE DEF q
<1>8. ServiceInv'
  BY <1>7 DEF BaseInv, ServiceInv
<1>9. TabInv'
  <2>1. rows' \in Histories /\ page' \in 1 .. Last(rows'.n)
    BY <1>7, LastPage DEF NoRows, Histories
  <2> QED BY <1>1, <1>7, <2>1 DEF BaseInv, TabInv
<1>10. gets' = q \/ \E x \in GetType : /\ gets' = Append(q, x) /\ Sound(x, roster) /\ x.for = 0
  <2>1. CASE s = "Overview"
    BY <1>4, <1>6, <2>1, ConcatOne DEF Mounted
  <2>2. CASE s # "Overview"
    <3>1. PICK what \in {"rows", "choices"}, of \in Packs \cup {NoPack} :
            Mounted(s) = << Get(what, of, 0) >> /\ (what = "rows" => of \in Packs)
      BY <1>1, <2>2, MountedGets DEF BaseInv
    <3>2. what \in {"projects", "rows", "choices"} /\ what # "projects"
      OBVIOUS
    <3>3. Get(what, of, 0) \in GetType /\ Get(what, of, 0).for = 0
      BY <3>1, <3>2 DEF Get, GetType, Histories, NoRows
    <3>4. Sound(Get(what, of, 0), roster)
      BY <3>1, <3>2, SentSound
    <3> QED BY <1>4, <1>6, <3>1, <3>3, <3>4, ConcatOne
  <2> QED BY <2>1, <2>2
<1>11. \A c \in calls : /\ [c EXCEPT !.here = FALSE] \in CallType
                        /\ [c EXCEPT !.here = FALSE].id = c.id
                        /\ [c EXCEPT !.here = FALSE].kind = c.kind
                        /\ [c EXCEPT !.here = FALSE].at = c.at
                        /\ [c EXCEPT !.here = FALSE].pack = c.pack
                        /\ [c EXCEPT !.here = FALSE].arg = c.arg
                        /\ [c EXCEPT !.here = FALSE].lost = c.lost
  BY DEF BaseInv, NetInv, CallType
<1>12. /\ gets' \in Seq(GetType) /\ OneFor(gets')
       /\ DOMAIN gets \subseteq DOMAIN gets'
       /\ \A k \in DOMAIN gets : gets'[k].for = gets[k].for /\ gets'[k].what = gets[k].what
       /\ \A k \in DOMAIN gets' : Sound(gets'[k], roster)
       /\ \A k \in DOMAIN gets' \ DOMAIN gets : gets'[k].for = 0
  <2>1. OneFor(q)
    BY <1>4, <1>5 DEF OneFor, BaseInv, IdsInv
  <2>2. CASE gets' = q
    BY <1>4, <1>5, <2>1, <2>2
  <2>3. ASSUME NEW x \in GetType, gets' = Append(q, x), Sound(x, roster), x.for = 0
        PROVE  <1>12!:
    <3>1. OneFor(gets')
      BY <1>4, <2>1, <2>3, AppendFor
    <3>2. /\ gets' \in Seq(GetType) /\ DOMAIN gets' = DOMAIN q \cup {Len(q) + 1}
          /\ gets'[Len(q) + 1] = x /\ \A k \in DOMAIN q : gets'[k] = q[k]
      BY <1>4, <2>3, Appended
    <3> QED BY <1>4, <1>5, <2>3, <3>1, <3>2
  <2> QED BY <1>10, <2>2, <2>3
<1>13. NetInv'
  <2>1. calls' \subseteq CallType
    BY <1>7, <1>11
  <2>2. \A c \in calls : CallSound([c EXCEPT !.here = FALSE], roster', clicks')
    BY <1>7, <1>11 DEF BaseInv, NetInv, CallSound, TabInv
  <2> QED BY <1>7, <1>12, <2>1, <2>2 DEF NetInv
<1>14. IdsInv'
  <2>1. ASSUME NEW c \in calls', NEW d \in calls', c.id = d.id PROVE c = d
    <3>1. PICK a \in calls : c = [a EXCEPT !.here = FALSE]
      BY <1>7
    <3>2. PICK b \in calls : d = [b EXCEPT !.here = FALSE]
      BY <1>7
    <3>3. a = b
      BY <1>11, <2>1, <3>1, <3>2 DEF BaseInv, IdsInv
    <3> QED BY <3>1, <3>2, <3>3
  <2>2. ASSUME NEW k \in DOMAIN gets', gets'[k].for # 0
        PROVE  \E c \in calls' : Waits(c, gets'[k])
    <3>1. k \in DOMAIN gets /\ gets'[k].for = gets[k].for /\ gets'[k].what = gets[k].what
      BY <1>12, <2>2
    <3>2. PICK c \in calls : Waits(c, gets[k])
      BY <2>2, <3>1 DEF BaseInv, IdsInv
    <3>3. Waits([c EXCEPT !.here = FALSE], gets'[k])
      BY <1>11, <3>1, <3>2 DEF Waits
    <3> QED BY <1>7, <3>3
  <2>3. ASSUME NEW c \in calls', c.at = "reloading"
        PROVE  \E k \in DOMAIN gets' : gets'[k].for = c.id
    <3>1. PICK d \in calls : c = [d EXCEPT !.here = FALSE]
      BY <1>7
    <3>2. d.at = "reloading" /\ d.id = c.id
      BY <1>11, <2>3, <3>1
    <3>3. PICK k \in DOMAIN gets : gets[k].for = d.id
      BY <3>2 DEF BaseInv, IdsInv
    <3> QED BY <1>12, <3>2, <3>3
  <2> QED BY <1>12, <2>1, <2>2, <2>3 DEF IdsInv
<1> QED BY <1>8, <1>9, <1>13, <1>14 DEF BaseInv

(* The page is loaded: nobody waits any more.                              *)
LEMMA BootBase ==
  ASSUME BaseInv, Boot, UNCHANGED serviceVars, roster # {},
         cookie' = wanted' /\ cookie' \in roster \cup {NoPack}, clicks' \in {clicks, clicks + 1}
  PROVE  BaseInv'
<1> DEFINE x == Get("projects", NoPack, 0)
<1>1. x \in GetType /\ x.for = 0 /\ Sound(x, roster)
  <2>1. x \in GetType /\ x.for = 0
    BY DEF Get, GetType, Histories, NoRows
  <2>2. Sound(x, roster)
    BY DEF Get, Sound
  <2> QED BY <2>1, <2>2
<1>2. UNCHANGED << roster, name, revisions, current >>
  BY DEF serviceVars
<1>3. gets' = << x >>
  BY DEF Boot
<1> HIDE DEF x
<1>4. ServiceInv'
  BY <1>2 DEF BaseInv, ServiceInv
<1>5. TabInv'
  <2>1. rows' = NoRows /\ page' = 1 /\ projects' = << >> /\ loading' = TRUE /\ active' = "Overview"
        /\ choices' = {} /\ reboot' = FALSE /\ blurred' = {}
    BY DEF Boot
  <2>2. rows' \in Histories /\ page' \in 1 .. Last(rows'.n)
    BY <2>1, LastPage DEF NoRows, Histories
  <2>3. clicks' \in Nat
    BY DEF BaseInv, TabInv
  <2> QED BY <2>1, <2>2, <2>3 DEF TabInv, Sections
<1>6. ASSUME NEW c \in calls'
      PROVE  \E d \in calls : /\ c = [d EXCEPT !.here = FALSE, !.lost = TRUE] /\ c \in CallType
                              /\ c.id = d.id /\ c.kind = d.kind /\ c.arg = d.arg
                              /\ c.pack = d.pack /\ c.at = "posting"
  BY DEF Boot, BaseInv, NetInv, CallType
<1>7. ASSUME NEW c \in calls' PROVE c \in CallType /\ CallSound(c, roster', clicks')
  <2>1. PICK d \in calls : /\ c \in CallType /\ c.id = d.id /\ c.kind = d.kind /\ c.arg = d.arg
                           /\ c.pack = d.pack /\ c.at = "posting"
    BY <1>6
  <2>2. CallSound(d, roster, clicks) /\ clicks \in Nat
    BY DEF BaseInv, NetInv, TabInv
  <2> QED BY <1>2, <2>1, <2>2 DEF CallSound
<1>8. NetInv'
  BY <1>1, <1>2, <1>3, <1>7 DEF NetInv
<1>9. IdsInv'
  <2>1. ASSUME NEW c \in calls', NEW d \in calls', c.id = d.id PROVE c = d
    <3>1. PICK a \in calls : c = [a EXCEPT !.here = FALSE, !.lost = TRUE] /\ c.id = a.id
      BY <1>6
    <3>2. PICK b \in calls : d = [b EXCEPT !.here = FALSE, !.lost = TRUE] /\ d.id = b.id
      BY <1>6
    <3>3. a = b
      BY <2>1, <3>1, <3>2 DEF BaseInv, IdsInv
    <3> QED BY <3>1, <3>2, <3>3
  <2>2. OneFor(gets') /\ \A k \in DOMAIN gets' : gets'[k].for = 0
    BY <1>1, <1>3 DEF OneFor
  <2> QED BY <1>6, <2>1, <2>2 DEF IdsInv
<1> QED BY <1>4, <1>5, <1>8, <1>9 DEF BaseInv

(* The pack that is chosen was in the switcher, so the service has it.     *)
LEMMA ChooseBase == ASSUME BaseInv, NEW p \in Packs, Choose(p) PROVE BaseInv'
<1>1. p \in roster
  BY DEF Choose, BaseInv, TabInv
<1> QED BY <1>1, BootBase DEF Choose, Click

(* The timer of an import loads the page as choosing does.                 *)
LEMMA RebootBase == ASSUME BaseInv, Reboot PROVE BaseInv'
<1>1. roster # {} /\ cookie' = wanted' /\ cookie' \in roster \cup {NoPack}
  BY DEF Reboot, BaseInv, TabInv, ServiceInv
<1> QED BY <1>1, BootBase DEF Reboot

(* What the service does for a request.                                    *)
LEMMA DoneBase ==
  ASSUME BaseInv, NEW c \in calls, Allowed(c), Done(c)
  PROVE  /\ roster' \subseteq Packs /\ IsFiniteSet(roster') /\ roster \subseteq roster'
         /\ c.pack \in roster'
         /\ name' \in [Packs -> Names]
         /\ revisions' \in [Packs -> Nat] /\ current' \in [Packs -> Nat]
         /\ \A p \in Packs : current'[p] \in 0 .. revisions'[p]
<1>1. c \in CallType /\ CallSound(c, roster, clicks)
  BY DEF BaseInv, NetInv
<1>2. c.pack \in Packs /\ c.arg \in Nat
  BY <1>1 DEF CallType
<1>3. roster' = roster \cup {c.pack}
  BY DEF Done
<1>4. roster' \subseteq Packs /\ IsFiniteSet(roster') /\ roster \subseteq roster' /\ c.pack \in roster'
  BY <1>2, <1>3, FS_AddElement DEF BaseInv, ServiceInv
<1>5. name' \in [Packs -> Names]
  <2>1. CASE c.kind \in {"publish", "rollback"}
    BY <2>1 DEF Done, BaseInv, ServiceInv
  <2>2. CASE c.kind \notin {"publish", "rollback"}
    <3>1. c.arg \in Names
      BY <1>1, <2>2 DEF CallType, CallSound
    <3>2. name' = [name EXCEPT ![c.pack] = c.arg]
      BY <2>2 DEF Done
    <3> QED BY <3>1, <3>2 DEF BaseInv, ServiceInv
  <2> QED BY <2>1, <2>2
<1>6. CASE c.kind = "publish"
  <2>1. revisions' = [revisions EXCEPT ![c.pack] = revisions[c.pack] + 1]
        /\ current' = [current EXCEPT ![c.pack] = revisions[c.pack] + 1]
    BY <1>6 DEF Done
  <2>2. revisions[c.pack] \in Nat
    BY <1>2 DEF BaseInv, ServiceInv
  <2> QED BY <1>2, <1>4, <1>5, <2>1, <2>2 DEF BaseInv, ServiceInv
<1>7. CASE c.kind = "rollback"
  <2>1. revisions' = revisions /\ current' = [current EXCEPT ![c.pack] = c.arg]
    BY <1>7 DEF Done
  <2>2. c.arg \in 0 .. revisions[c.pack]
    BY <1>2, <1>7 DEF Allowed, BaseInv, ServiceInv
  <2> QED BY <1>2, <1>4, <1>5, <2>1, <2>2 DEF BaseInv, ServiceInv
<1>8. CASE c.kind \notin {"publish", "rollback"}
  <2>1. revisions' = revisions /\ current' = current
    BY <1>8 DEF Done
  <2> QED BY <1>4, <1>5, <2>1 DEF BaseInv, ServiceInv
<1> QED BY <1>6, <1>7, <1>8

(* Requests that are over, or stored, leave the listings as they are.      *)
LEMMA CallOverBase ==
  ASSUME BaseInv, NEW c \in calls, c.at # "reloading",
         \/ Allowed(c) /\ Done(c)
         \/ UNCHANGED serviceVars,
         \/ calls' = calls \ {c}
         \/ Allowed(c) /\ Done(c) /\ ~c.lost /\ calls' = (calls \ {c}) \cup {[c EXCEPT !.at = "stored"]},
         UNCHANGED << cookie, frameVars, sectionVars, gets, reboot, wanted, clicks >>,
         blurred' \subseteq {"frame", "section"}
  PROVE  BaseInv'
<1>1. /\ roster' \subseteq Packs /\ IsFiniteSet(roster') /\ roster \subseteq roster'
      /\ name' \in [Packs -> Names]
      /\ revisions' \in [Packs -> Nat] /\ current' \in [Packs -> Nat]
      /\ \A p \in Packs : current'[p] \in 0 .. revisions'[p]
  <2>1. CASE UNCHANGED serviceVars
    BY <2>1 DEF serviceVars, BaseInv, ServiceInv
  <2> QED BY <2>1, DoneBase
<1>2. UNCHANGED << cookie, projects, loading, active, rows, page, choices, gets, reboot, wanted, clicks >>
  BY DEF frameVars, sectionVars
<1>3. ServiceInv'
  BY <1>1, <1>2 DEF BaseInv, ServiceInv
<1>4. TabInv'
  <2>1. projects' = << >> \/ Known(projects', roster')
    BY <1>1, <1>2, SoundGrows DEF BaseInv, TabInv
  <2>2. choices' \subseteq roster' /\ (reboot' => roster' # {})
    BY <1>1, <1>2 DEF BaseInv, TabInv
  <2> QED BY <1>2, <2>1, <2>2 DEF BaseInv, TabInv
<1>5. c \in CallType /\ CallSound(c, roster, clicks)
  BY DEF BaseInv, NetInv
<1>6. \A d \in calls : CallSound(d, roster', clicks')
  BY <1>1, <1>2 DEF BaseInv, NetInv, CallSound
<1> DEFINE e == [c EXCEPT !.at = "stored"]
<1>7. e \in CallType /\ e.id = c.id /\ e.at = "stored" /\ e.kind = c.kind
      /\ e.pack = c.pack /\ e.arg = c.arg /\ e.lost = c.lost
  BY <1>5 DEF CallType
<1>8. calls' = calls \ {c} \/ (c.pack \in roster' /\ ~c.lost /\ calls' = (calls \ {c}) \cup {e})
  BY DoneBase
<1> HIDE DEF e
<1>9. c.pack \in roster' /\ ~c.lost => CallSound(e, roster', clicks')
  BY <1>6, <1>7 DEF CallSound
<1>10. NetInv'
  <2>1. calls' \subseteq CallType /\ \A d \in calls' : CallSound(d, roster', clicks')
    BY <1>6, <1>7, <1>8, <1>9 DEF BaseInv, NetInv
  <2> QED BY <1>1, <1>2, <2>1, SoundGrows DEF BaseInv, NetInv
<1>11. IdsInv'
  <2>1. \A d \in calls : d.at = "reloading" => d \in calls'
    BY <1>8
  <2>2. \A d \in calls' : d \in calls \/ (d = e /\ c \notin calls')
    BY <1>7, <1>8
  <2>3. \A d, f \in calls' : d.id = f.id => d = f
    BY <1>7, <2>2 DEF BaseInv, IdsInv
  <2>4. \A d \in calls' : d.at = "reloading" => d \in calls
    BY <1>7, <2>2
  <2> QED BY <1>2, <2>1, <2>3, <2>4 DEF BaseInv, IdsInv, Waits
<1> QED BY <1>3, <1>4, <1>10, <1>11 DEF BaseInv

(* The service does what was asked, or cannot say that it did.             *)
LEMMA StoreBase == ASSUME BaseInv, NEW c \in calls, Store(c) PROVE BaseInv'
<1>1. blurred' \subseteq {"frame", "section"}
  BY DEF Store, BaseInv, TabInv
<1> QED BY <1>1, CallOverBase DEF Store

LEMMA CallFailsBase == ASSUME BaseInv, NEW c \in calls, CallFails(c) PROVE BaseInv'
  BY CallOverBase DEF CallFails

(* The answer begins one listing, for the handler if it waits.             *)
LEMMA AnswerBase == ASSUME BaseInv, NEW c \in calls, Answer(c) PROVE BaseInv'
<1> DEFINE x == CASE c.kind = "save" -> Get("projects", NoPack, 0)
                  [] c.kind \in {"import", "replace"} -> [Get("choices", NoPack, c.id) EXCEPT !.here = c.here]
                  [] OTHER -> Get("projects", NoPack, c.id)
           e == [c EXCEPT !.at = "reloading"]
<1>1. c \in CallType /\ CallSound(c, roster, clicks) /\ c.at = "stored" /\ clicks \in Nat
  BY DEF BaseInv, NetInv, TabInv, Answer
<1>2. c.id \in Nat \ {0} /\ c.pack \in roster /\ c.pack \in Packs /\ ~c.lost
  BY <1>1 DEF CallSound, CallType
<1>3. /\ x \in GetType /\ x.at = "sent" /\ x.what \in {"projects", "choices"}
      /\ x.for = (IF c.kind = "save" THEN 0 ELSE c.id)
      /\ x.what = (IF c.kind \in {"import", "replace"} THEN "choices" ELSE "projects")
  <2>1. CASE c.kind = "save"
    BY <2>1 DEF Get, GetType, Histories, NoRows
  <2>2. CASE c.kind \in {"import", "replace"}
    BY <1>1, <1>2, <2>2 DEF Get, GetType, Histories, NoRows, CallType
  <2>3. CASE c.kind \notin {"save", "import", "replace"}
    BY <1>1, <1>2, <2>3 DEF Get, GetType, Histories, NoRows
  <2> QED BY <2>1, <2>2, <2>3
<1>4. gets' = Append(gets, x)
  BY DEF Answer
<1>5. /\ UNCHANGED << roster, name, revisions, current, projects, loading, active, rows, choices, reboot, clicks >>
      /\ page' = (IF c.kind = "publish" /\ c.here THEN 1 ELSE page)
      /\ blurred' = blurred \cup IF c.kind = "publish" /\ ~c.here THEN {"section"} ELSE {}
      /\ (cookie' = c.pack /\ wanted' = c.pack) \/ UNCHANGED << cookie, wanted >>
  BY DEF Answer, serviceVars, frameVars
<1>6. e \in CallType /\ e.id = c.id /\ e.at = "reloading" /\ e.kind = c.kind
      /\ e.pack = c.pack /\ e.arg = c.arg /\ e.lost = c.lost
  BY <1>1 DEF CallType
<1>7. calls' = (calls \ {c}) \cup IF c.kind = "save" THEN {} ELSE {e}
  BY DEF Answer
<1> HIDE DEF x, e
<1>8. ServiceInv'
  BY <1>2, <1>5 DEF BaseInv, ServiceInv
<1>9. TabInv'
  <2>1. page' \in 1 .. Last(rows'.n)
    <3>1. rows.n \in Nat /\ rows' = rows /\ page \in 1 .. Last(rows.n)
      BY <1>5 DEF BaseInv, TabInv, Histories
    <3>2. Last(rows.n) \in Nat \ {0}
      BY <3>1, LastPage
    <3> QED BY <1>5, <3>1, <3>2
  <2>2. blurred' \subseteq {"frame", "section"}
    BY <1>5 DEF BaseInv, TabInv
  <2> QED BY <1>5, <2>1, <2>2 DEF BaseInv, TabInv
<1>10. Sound(x, roster)
  BY <1>2, <1>3 DEF Sound
<1>11. gets \in Seq(GetType) /\ \A k \in DOMAIN gets : Sound(gets[k], roster)
  BY DEF BaseInv, NetInv
<1>12. /\ gets' \in Seq(GetType) /\ DOMAIN gets' = DOMAIN gets \cup {Len(gets) + 1}
       /\ gets'[Len(gets) + 1] = x /\ \A k \in DOMAIN gets : gets'[k] = gets[k]
  BY <1>3, <1>4, <1>11, Appended
<1>13. \A k \in DOMAIN gets' : Sound(gets'[k], roster)
  BY <1>10, <1>11, <1>12
<1>14. CallSound(e, roster, clicks) \/ c.kind = "save"
  BY <1>1, <1>6 DEF CallSound
<1>15. NetInv'
  <2>1. calls' \subseteq CallType /\ \A d \in calls' : CallSound(d, roster, clicks)
    BY <1>6, <1>7, <1>14 DEF BaseInv, NetInv
  <2> QED BY <1>5, <1>12, <1>13, <2>1 DEF NetInv
<1>16. \A k \in DOMAIN gets : gets[k].for # c.id
  <2>1. ASSUME NEW k \in DOMAIN gets, gets[k].for = c.id PROVE FALSE
    <3>1. PICK d \in calls : Waits(d, gets[k])
      BY <1>2, <2>1 DEF BaseInv, IdsInv
    <3>2. d = c
      BY <2>1, <3>1 DEF BaseInv, IdsInv, Waits
    <3> QED BY <1>1, <3>1, <3>2 DEF Waits
  <2> QED BY <2>1
<1>17. IdsInv'
  <2>1. \A d, f \in calls' : d.id = f.id => d = f
    BY <1>6, <1>7 DEF BaseInv, IdsInv
  <2>2. OneFor(gets')
    <3>1. x.for # 0 => \A j \in DOMAIN gets : gets[j].for # x.for
      BY <1>3, <1>16
    <3>2. OneFor(gets)
      BY DEF BaseInv, IdsInv
    <3> QED BY <1>3, <1>4, <1>11, <3>1, <3>2, AppendFor
  <2>3. ASSUME NEW k \in DOMAIN gets', gets'[k].for # 0 PROVE \E d \in calls' : Waits(d, gets'[k])
    <3>1. CASE k \in DOMAIN gets
      <4>1. PICK d \in calls : Waits(d, gets[k])
        BY <1>12, <2>3, <3>1 DEF BaseInv, IdsInv
      <4>2. d # c
        BY <1>1, <4>1 DEF Waits
      <4> QED BY <1>7, <1>12, <3>1, <4>1, <4>2
    <3>2. CASE k = Len(gets) + 1
      <4>1. gets'[k] = x /\ c.kind # "save"
        BY <1>3, <1>12, <2>3, <3>2
      <4>2. Waits(e, x) /\ e \in calls'
        BY <1>3, <1>6, <1>7, <4>1 DEF Waits
      <4> QED BY <4>1, <4>2
    <3> QED BY <1>12, <3>1, <3>2
  <2>4. ASSUME NEW d \in calls', d.at = "reloading" PROVE \E k \in DOMAIN gets' : gets'[k].for = d.id
    <3>1. CASE d \in calls
      BY <1>12, <2>4, <3>1 DEF BaseInv, IdsInv
    <3>2. CASE d \notin calls
      <4>1. d = e /\ c.kind # "save"
        BY <1>7, <3>2
      <4> QED BY <1>3, <1>6, <1>12, <4>1
    <3> QED BY <3>1, <3>2
  <2> QED BY <2>1, <2>2, <2>3, <2>4 DEF IdsInv
<1> QED BY <1>8, <1>9, <1>15, <1>17 DEF BaseInv

(* A handler that goes on is over, or begins the history of its pack.      *)
Ends(g) == calls' = {c \in calls : c.id # g.for}
GoesOnToRows(g, c) ==
  /\ g.what = "projects" /\ c.id = g.for /\ c.at = "reloading"
  /\ c.kind \in {"publish", "rollback"} /\ c.here
  /\ Follows(g) = << Get("rows", c.pack, c.id) >> /\ calls' = calls /\ reboot' = reboot

(* A handler whose listing came off is over, loads the frame after the     *)
(* switcher of an import, or loads a history after the frame of a          *)
(* publication or rollback.                                                *)
LEMMA FollowsCases ==
  ASSUME BaseInv, NEW k \in DOMAIN gets, GoesOn(gets[k])
  PROVE  \/ /\ Follows(gets[k]) = << >> /\ Ends(gets[k]) /\ reboot' = reboot
            /\ gets[k].what = "choices" => gets[k].for = 0
            /\ \A c \in calls : c.id = gets[k].for /\ gets[k].what = "projects"
                                  => ~(c.kind = "publish" /\ c.here)
         \/ /\ gets[k].what = "choices" /\ gets[k].for # 0
            /\ Follows(gets[k]) = << Get("projects", NoPack, 0) >> /\ Ends(gets[k])
            /\ reboot' = TRUE /\ roster # {}
         \/ \E c \in calls : GoesOnToRows(gets[k], c)
<1> DEFINE g == gets[k]
<1>1. g \in GetType /\ calls \subseteq CallType /\ \A c \in calls : CallSound(c, roster, clicks)
  BY DEF BaseInv, NetInv
<1>2. \A c, d \in calls : c.id = d.id => c = d
  BY DEF BaseInv, IdsInv
<1>3. \A c \in calls : c.id # 0
  BY <1>1 DEF CallSound
<1>4. g.for # 0 => \E c \in calls : Waits(c, g)
  BY DEF BaseInv, IdsInv
<1>5. /\ calls' = (calls \ Waiting(g)) \cup {c \in calls : \E j \in DOMAIN Follows(g) : Follows(g)[j].for = c.id}
      /\ reboot' = (reboot \/ (g.what = "choices" /\ Waiting(g) # {}))
  BY DEF GoesOn
<1>6. calls \ Waiting(g) = {c \in calls : c.id # g.for}
  BY DEF Waiting
<1>r. reboot \in BOOLEAN
  BY DEF BaseInv, TabInv
<1> HIDE DEF g
<1>7. CASE g.for = 0
  <2>1. Waiting(g) = {}
    BY <1>3, <1>7 DEF Waiting
  <2>2. Follows(g) = << >>
    BY <2>1 DEF Follows
  <2>3. calls' = calls \ Waiting(g) /\ reboot' = reboot
    BY <1>5, <1>r, <2>1, <2>2
  <2>4. Ends(g)
    BY <1>6, <2>3 DEF Ends
  <2> QED BY <1>3, <1>7, <2>2, <2>3, <2>4 DEF g
<1>8. CASE g.for # 0
  <2>1. PICK c \in calls : Waits(c, g)
    BY <1>4, <1>8
  <2>2. c.id = g.for /\ c.at = "reloading" /\ (g.what = "choices" <=> c.kind \in {"import", "replace"})
    BY <2>1 DEF Waits
  <2>3. Waiting(g) = {c} /\ Waiting(g) # {}
    BY <1>2, <2>2 DEF Waiting
  <2>4. (CHOOSE d \in calls : d.id = g.for) = c
    BY <1>2, <2>2
  <2>5. Follows(g) = CASE g.what = "choices" -> << Get("projects", NoPack, 0) >>
                       [] g.what = "projects" /\ c.kind \in {"publish", "rollback"} /\ c.here
                            -> << Get("rows", c.pack, c.id) >>
                       [] OTHER -> << >>
    BY <2>3, <2>4 DEF Follows
  <2>6. CASE g.what = "choices"
    <3>1. Follows(g) = << Get("projects", NoPack, 0) >>
      BY <2>5, <2>6
    <3>2. Follows(g)[1].for = 0 /\ DOMAIN Follows(g) = {1}
      BY <3>1 DEF Get
    <3>3. calls' = calls \ Waiting(g) /\ reboot' = TRUE
      BY <1>3, <1>5, <2>3, <2>6, <3>2
    <3>4. c.pack \in roster
      BY <1>1, <2>2, <2>6 DEF CallSound
    <3> QED BY <1>6, <1>8, <2>6, <3>1, <3>3, <3>4 DEF Ends, g
  <2>7. CASE g.what = "projects" /\ c.kind \in {"publish", "rollback"} /\ c.here
    <3>1. Follows(g) = << Get("rows", c.pack, c.id) >>
      BY <2>5, <2>7
    <3>2. Follows(g)[1].for = c.id /\ DOMAIN Follows(g) = {1}
      BY <3>1 DEF Get
    <3>3. calls' = calls
      BY <1>2, <1>5, <2>3, <3>2
    <3>4. reboot' = reboot
      BY <1>5, <1>r, <2>7
    <3> QED BY <2>2, <2>7, <3>1, <3>3, <3>4 DEF GoesOnToRows, g
  <2>8. CASE g.what # "choices" /\ ~(g.what = "projects" /\ c.kind \in {"publish", "rollback"} /\ c.here)
    <3>1. Follows(g) = << >>
      BY <2>5, <2>8
    <3>2. calls' = calls \ Waiting(g) /\ reboot' = reboot
      BY <1>5, <1>r, <2>8, <3>1
    <3>3. Ends(g)
      BY <1>6, <3>2 DEF Ends
    <3>4. \A d \in calls : d.id = g.for => d = c
      BY <1>2, <2>2
    <3> QED BY <2>8, <3>1, <3>2, <3>3, <3>4 DEF g
  <2> QED BY <2>6, <2>7, <2>8
<1> QED BY <1>7, <1>8

(* Listings and handlers go together: who waits has its listing, and what  *)
(* is awaited has its handler.                                             *)
Matched(s, cs) ==
  /\ s \in Seq(GetType) /\ OneFor(s) /\ \A j \in DOMAIN s : Sound(s[j], roster)
  /\ \A j \in DOMAIN s : s[j].for # 0 => \E c \in cs : Waits(c, s[j])
  /\ \A c \in cs : c.at = "reloading" => \E j \in DOMAIN s : s[j].for = c.id

(* A listing nobody waits for may always be begun.                         *)
LEMMA MatchedGrows ==
  ASSUME NEW s, NEW cs, Matched(s, cs), NEW x \in GetType, Sound(x, roster), x.for = 0
  PROVE  Matched(Append(s, x), cs)
<1>1. s \in Seq(GetType) /\ OneFor(s)
  BY DEF Matched
<1>2. OneFor(Append(s, x))
  BY <1>1, AppendFor
<1>3. /\ Append(s, x) \in Seq(GetType) /\ DOMAIN Append(s, x) = DOMAIN s \cup {Len(s) + 1}
      /\ Append(s, x)[Len(s) + 1] = x /\ \A j \in DOMAIN s : Append(s, x)[j] = s[j]
  BY <1>1, Appended
<1> QED BY <1>2, <1>3 DEF Matched

(* A listing comes off, and its handler goes on.                           *)
LEMMA ListsBase ==
  ASSUME BaseInv, NEW k \in DOMAIN gets, GoesOn(gets[k]), NEW l,
         l = << >> \/ \E p \in Packs : l = << Get("rows", p, 0) >>,
         gets' = Without(k) \o Follows(gets[k]) \o l, UNCHANGED << roster, clicks >>
  PROVE  NetInv' /\ IdsInv' /\ reboot' \in BOOLEAN /\ (reboot' => roster # {})
<1> DEFINE g == gets[k]
           q == Without(k)
           f == Follows(g)
<1>1. /\ gets \in Seq(GetType) /\ g \in GetType /\ \A j \in DOMAIN gets : Sound(gets[j], roster)
      /\ calls \subseteq CallType /\ \A c \in calls : CallSound(c, roster, clicks)
  BY DEF BaseInv, NetInv
<1>2. /\ \A c, d \in calls : c.id = d.id => c = d
      /\ \A j \in DOMAIN gets : gets[j].for # 0 => \E c \in calls : Waits(c, gets[j])
      /\ \A c \in calls : c.at = "reloading" => \E j \in DOMAIN gets : gets[j].for = c.id
  BY DEF BaseInv, IdsInv
<1>3. /\ q \in Seq(GetType) /\ OneFor(q)
      /\ g.for # 0 => \A j \in DOMAIN q : q[j].for # g.for
      /\ \A j \in DOMAIN q : \E i \in DOMAIN gets \ {k} : q[j] = gets[i]
      /\ \A i \in DOMAIN gets \ {k} : \E j \in DOMAIN q : q[j] = gets[i]
  BY <1>1, WithoutOne, WithoutFor, WithoutMembers DEF BaseInv, IdsInv
<1> HIDE DEF q
<1>4. \A c \in calls : c.id # 0
  BY <1>1 DEF CallSound
<1>5. \A j \in DOMAIN q : Sound(q[j], roster)
  BY <1>1, <1>3
<1>6. reboot \in BOOLEAN /\ (reboot => roster # {})
  BY DEF BaseInv, TabInv
<1>7. ASSUME Ends(g) PROVE Matched(q, calls') /\ calls' \subseteq calls
  <2>1. calls' = {c \in calls : c.id # g.for}
    BY <1>7 DEF Ends
  <2>2. ASSUME NEW j \in DOMAIN q, q[j].for # 0 PROVE \E c \in calls' : Waits(c, q[j])
    <3>1. PICK c \in calls : Waits(c, q[j])
      BY <1>2, <1>3, <2>2
    <3>2. c.id # g.for
      BY <1>3, <2>2, <3>1 DEF Waits
    <3> QED BY <2>1, <3>1, <3>2
  <2>3. ASSUME NEW c \in calls', c.at = "reloading" PROVE \E j \in DOMAIN q : q[j].for = c.id
    <3>1. PICK i \in DOMAIN gets : gets[i].for = c.id
      BY <1>2, <2>1, <2>3
    <3>2. i # k
      BY <2>1, <3>1
    <3> QED BY <1>3, <3>1, <3>2
  <2> QED BY <1>3, <1>5, <2>1, <2>2, <2>3 DEF Matched
<1>8. /\ Matched(q \o f, calls') /\ calls' \subseteq calls
      /\ reboot' \in BOOLEAN /\ (reboot' => roster # {})
  <2>1. CASE f = << >> /\ Ends(g) /\ reboot' = reboot
    <3>1. q \o f = q
      BY <1>3, <2>1
    <3> QED BY <1>6, <1>7, <2>1, <3>1
  <2>2. CASE f = << Get("projects", NoPack, 0) >> /\ Ends(g) /\ reboot' = TRUE /\ roster # {}
    <3> DEFINE x == Get("projects", NoPack, 0)
    <3>1. x \in GetType /\ x.for = 0
      BY DEF Get, GetType, Histories, NoRows
    <3>2. Sound(x, roster)
      BY <2>2 DEF Get, Sound
    <3>3. f = << x >>
      BY <2>2
    <3> HIDE DEF x, f
    <3>4. q \o f = Append(q, x)
      BY <1>3, <3>1, <3>3, ConcatOne
    <3> QED BY <1>7, <2>2, <3>1, <3>2, <3>4, MatchedGrows
  <2>3. ASSUME NEW c \in calls, GoesOnToRows(g, c)
        PROVE  <1>8!:
    <3> DEFINE x == Get("rows", c.pack, c.id)
    <3>1. c.pack \in Packs /\ c.id \in Nat \ {0} /\ c.id = g.for
      BY <1>1, <2>3 DEF CallType, CallSound, GoesOnToRows
    <3>2. x \in GetType /\ x.for = c.id /\ x.what = "rows" /\ x.of = c.pack /\ x.at = "sent"
      BY <3>1 DEF Get, GetType, Histories, NoRows
    <3>3. f = << x >> /\ calls' = calls /\ reboot' = reboot
      BY <2>3 DEF GoesOnToRows
    <3> HIDE DEF x, f
    <3>4. Sound(x, roster)
      BY <3>1, <3>2 DEF Sound
    <3>5. q \o f = Append(q, x)
      BY <1>3, <3>2, <3>3, ConcatOne
    <3>6. \A j \in DOMAIN q : q[j].for # x.for
      BY <1>3, <3>1, <3>2
    <3>7. OneFor(Append(q, x))
      BY <1>3, <3>2, <3>6, AppendFor
    <3>8. /\ Append(q, x) \in Seq(GetType) /\ DOMAIN Append(q, x) = DOMAIN q \cup {Len(q) + 1}
          /\ Append(q, x)[Len(q) + 1] = x /\ \A j \in DOMAIN q : Append(q, x)[j] = q[j]
      BY <1>3, <3>2, Appended
    <3>9. Waits(c, x)
      BY <2>3, <3>2 DEF Waits, GoesOnToRows
    <3>10. ASSUME NEW d \in calls, d.at = "reloading"
           PROVE  \E j \in DOMAIN Append(q, x) : Append(q, x)[j].for = d.id
      <4>1. PICK i \in DOMAIN gets : gets[i].for = d.id
        BY <1>2, <3>10
      <4>2. CASE i = k
        BY <3>1, <3>2, <3>8, <4>1, <4>2
      <4>3. CASE i # k
        BY <1>3, <3>8, <4>1, <4>3
      <4> QED BY <4>2, <4>3
    <3>11. \A j \in DOMAIN Append(q, x) : Sound(Append(q, x)[j], roster)
      BY <1>5, <3>4, <3>8
    <3>12. \A j \in DOMAIN Append(q, x) : Append(q, x)[j].for # 0 => \E d \in calls : Waits(d, Append(q, x)[j])
      BY <1>2, <1>3, <3>8, <3>9
    <3> QED BY <1>6, <3>3, <3>5, <3>7, <3>8, <3>10, <3>11, <3>12 DEF Matched
  <2> QED BY <2>1, <2>2, <2>3, FollowsCases
<1>9. gets' = (q \o f) \o l
  BY DEF q
<1> HIDE DEF f
<1>10. Matched(gets', calls')
  <2>0. q \o f \in Seq(GetType)
    BY <1>8 DEF Matched
  <2>1. CASE l = << >>
    <3>1. gets' = q \o f
      BY <1>9, <2>0, <2>1
    <3> QED BY <1>8, <3>1
  <2>2. ASSUME NEW p \in Packs, l = << Get("rows", p, 0) >> PROVE Matched(gets', calls')
    <3> DEFINE x == Get("rows", p, 0)
    <3>1. x \in GetType /\ x.for = 0
      BY DEF Get, GetType, Histories, NoRows
    <3>2. Sound(x, roster)
      BY DEF Get, Sound
    <3>3. l = << x >>
      BY <2>2
    <3> HIDE DEF x
    <3>4. gets' = Append(q \o f, x)
      BY <1>9, <2>0, <3>1, <3>3, ConcatOne
    <3> QED BY <1>8, <3>1, <3>2, <3>4, MatchedGrows
  <2> QED BY <2>1, <2>2
<1>11. NetInv'
  BY <1>1, <1>8, <1>10 DEF Matched, NetInv
<1>12. IdsInv'
  BY <1>2, <1>8, <1>10 DEF Matched, IdsInv
<1> QED BY <1>8, <1>11, <1>12

(* What a new list of packs, or a failure, adds.                           *)
LEMMA ArriveReloads ==
  ASSUME BaseInv, NEW k \in DOMAIN gets, gets[k].at = "read"
  PROVE  LET l == IF gets[k].what = "projects" THEN Reloads(gets[k].got) ELSE << >>
         IN  l = << >> \/ \E p \in Packs : l = << Get("rows", p, 0) >>
<1> DEFINE g == gets[k]
           l == IF g.what = "projects" THEN Reloads(g.got) ELSE << >>
<1>1. Sound(g, roster)
  BY DEF BaseInv, NetInv
<1>2. CASE g.what = "projects"
  <2>1. Known(g.got, roster)
    BY <1>1, <1>2 DEF Sound
  <2>2. g.got \in Seq(Entry) /\ 1 \in DOMAIN g.got
    BY <2>1 DEF Known
  <2>3. g.got[1] \in Entry
    BY <2>2, ElementOfSeq
  <2>4. g.got[1].id \in Packs
    BY <2>3 DEF Entry
  <2> QED BY <1>2, <2>4 DEF Reloads
<1> QED BY <1>2

(* A listing that fails adds what its handler goes on with.                *)
LEMMA FailsGets ==
  ASSUME BaseInv, NEW k \in DOMAIN gets, GetFails(k)
  PROVE  gets' = Without(k) \o Follows(gets[k]) \o << >>
<1> DEFINE S == GetType \cup {Get("projects", NoPack, 0)} \cup {Get("rows", c.pack, c.id) : c \in calls}
<1>1. Without(k) \in Seq(S)
  BY WithoutOne DEF BaseInv, NetInv
<1>2. \/ Follows(gets[k]) = << >> \/ Follows(gets[k]) = << Get("projects", NoPack, 0) >>
      \/ \E c \in calls : Follows(gets[k]) = << Get("rows", c.pack, c.id) >>
  BY FollowsCases DEF GetFails, GoesOnToRows
<1>3. Follows(gets[k]) = << >> \/ \E x \in S : Follows(gets[k]) = << x >>
  BY <1>2
<1> HIDE DEF S
<1>4. Follows(gets[k]) \in Seq(S)
  <2>1. \A x \in S : << x >> \in Seq(S)
    OBVIOUS
  <2>2. << >> \in Seq(S)
    OBVIOUS
  <2> QED BY ONLY <1>3, <2>1, <2>2
<1>5. Without(k) \o Follows(gets[k]) \in Seq(S)
  BY <1>1, <1>4, ConcatProperties
<1> QED BY <1>5 DEF GetFails


(* A listing that arrives is shown, and its handler goes on.               *)
LEMMA ArriveBase == ASSUME BaseInv, NEW k \in DOMAIN gets, Arrive(k) PROVE BaseInv'
<1> DEFINE g == gets[k]
           l == IF g.what = "projects" THEN Reloads(g.got) ELSE << >>
<1>1. g \in GetType /\ Sound(g, roster) /\ g.at = "read"
  BY DEF BaseInv, NetInv, Arrive
<1>2. GoesOn(g) /\ gets' = Without(k) \o Follows(g) \o l
  BY DEF Arrive
<1>3. /\ UNCHANGED << roster, name, revisions, current, cookie, active, wanted, clicks >>
      /\ IF g.what = "projects" THEN projects' = g.got /\ loading' = FALSE
         ELSE UNCHANGED << projects, loading >>
      /\ IF g.what = "rows" /\ g.here
         THEN rows' = g.got /\ page' = IF page > Last(g.got.n) THEN Last(g.got.n) ELSE page
         ELSE UNCHANGED << rows, page >>
      /\ choices' = IF g.what = "choices" /\ g.here THEN g.got ELSE choices
      /\ blurred' = blurred \cup IF Overtakes(k) \/ Misses(k) THEN View(g) ELSE {}
  BY DEF Arrive, serviceVars, frameVars
<1>4. l = << >> \/ \E p \in Packs : l = << Get("rows", p, 0) >>
  BY <1>1, ArriveReloads
<1> HIDE DEF l
<1>5. NetInv' /\ IdsInv' /\ reboot' \in BOOLEAN /\ (reboot' => roster # {})
  BY <1>2, <1>3, <1>4, ListsBase
<1>6. ServiceInv'
  BY <1>3 DEF BaseInv, ServiceInv
<1>7. TabInv'
  <2>1. projects' = << >> \/ Known(projects', roster)
    BY <1>1, <1>3 DEF Sound, BaseInv, TabInv
  <2>2. projects = << >> \/ projects' # << >>
    BY <1>1, <1>3 DEF Sound, Known
  <2>3. rows' \in Histories /\ page' \in 1 .. Last(rows'.n)
    <3>0. rows \in Histories /\ page \in 1 .. Last(rows.n) /\ rows.n \in Nat
      BY DEF BaseInv, TabInv, Histories
    <3>1. CASE g.what = "rows" /\ g.here
      <4>1. g.got \in Histories /\ g.got.n \in Nat
        BY <1>1, <3>1 DEF Sound, Histories
      <4>2. Last(g.got.n) \in Nat \ {0} /\ Last(rows.n) \in Nat
        BY <3>0, <4>1, LastPage
      <4> QED BY <1>3, <3>0, <3>1, <4>1, <4>2
    <3>2. CASE ~(g.what = "rows" /\ g.here)
      BY <1>3, <3>0, <3>2
    <3> QED BY <3>1, <3>2
  <2>4. choices' \subseteq roster
    BY <1>1, <1>3 DEF Sound, BaseInv, TabInv
  <2>5. blurred' \subseteq {"frame", "section"}
    BY <1>3 DEF View, BaseInv, TabInv
  <2>6. loading' \in BOOLEAN
    BY <1>3 DEF BaseInv, TabInv
  <2> QED BY <1>3, <1>5, <2>1, <2>2, <2>3, <2>4, <2>5, <2>6 DEF BaseInv, TabInv
<1> QED BY <1>5, <1>6, <1>7 DEF BaseInv

(* A listing that fails is not shown, but its handler goes on all the      *)
(* same.                                                                   *)
LEMMA GetFailsBase == ASSUME BaseInv, NEW k \in DOMAIN gets, GetFails(k) PROVE BaseInv'
<1> DEFINE g == gets[k]
<1>1. g \in GetType /\ gets \in Seq(GetType)
  BY DEF BaseInv, NetInv
<1>2. GoesOn(g) /\ gets' = Without(k) \o Follows(g)
  BY DEF GetFails
<1>3. /\ UNCHANGED << roster, name, revisions, current, cookie, projects, active, rows, page, choices, wanted, clicks >>
      /\ loading' = (loading /\ g.what # "projects")
      /\ blurred' = blurred \cup View(g)
  BY DEF GetFails, serviceVars, sectionVars
<1>4. gets' = Without(k) \o Follows(g) \o << >>
  BY FailsGets
<1>5. NetInv' /\ IdsInv' /\ reboot' \in BOOLEAN /\ (reboot' => roster # {})
  BY <1>2, <1>3, <1>4, ListsBase
<1>6. ServiceInv'
  BY <1>3 DEF BaseInv, ServiceInv
<1>7. TabInv'
  <2>1. blurred' \subseteq {"frame", "section"}
    BY <1>3 DEF View, BaseInv, TabInv
  <2>2. loading' \in BOOLEAN
    BY <1>3 DEF BaseInv, TabInv
  <2> QED BY <1>3, <1>5, <2>1, <2>2 DEF BaseInv, TabInv
<1> QED BY <1>5, <1>6, <1>7 DEF BaseInv

(* Turning the page and refreshing ask for no change.                      *)
LEMMA TurnBase == ASSUME BaseInv, NEW p \in {page - 1, page + 1}, Turn(p) PROVE BaseInv'
<1>1. /\ UNCHANGED << roster, name, revisions, current, cookie, projects, loading, active, rows,
                      choices, gets, calls, reboot, wanted, blurred >>
      /\ page' \in 1 .. Last(rows.n) /\ clicks' = clicks + 1
  BY DEF Turn, Click, serviceVars, frameVars
<1>2. ServiceInv' /\ TabInv' /\ IdsInv'
  BY <1>1 DEF BaseInv, ServiceInv, TabInv, IdsInv
<1>3. \A c \in calls : CallSound(c, roster, clicks + 1)
  BY DEF BaseInv, NetInv, TabInv, CallSound
<1>4. NetInv'
  BY <1>1, <1>3 DEF BaseInv, NetInv
<1> QED BY <1>2, <1>4 DEF BaseInv

LEMMA RefreshBase == ASSUME BaseInv, Refresh PROVE BaseInv'
<1> DEFINE x == Get("rows", project, 0)
<1>1. project \in Packs
  BY ProjectKnown DEF Refresh, BaseInv, TabInv
<1>2. x \in GetType /\ x.for = 0
  BY <1>1 DEF Get, GetType, Histories, NoRows
<1>3. Sound(x, roster)
  BY <1>1 DEF Get, Sound
<1>4. /\ UNCHANGED << roster, name, revisions, current, cookie, projects, loading, active, rows, page,
                      choices, calls, reboot, wanted, blurred >>
      /\ gets' = Append(gets, x) /\ clicks' = clicks + 1
  BY DEF Refresh, Click, serviceVars, frameVars, sectionVars
<1> HIDE DEF x
<1>5. ServiceInv' /\ TabInv'
  BY <1>4 DEF BaseInv, ServiceInv, TabInv
<1>6. \A c \in calls : CallSound(c, roster, clicks + 1)
  BY DEF BaseInv, NetInv, TabInv, CallSound
<1>7. Matched(gets, calls)
  BY DEF Matched, BaseInv, NetInv, IdsInv
<1>8. Matched(gets', calls)
  BY <1>2, <1>3, <1>4, <1>7, MatchedGrows
<1>9. NetInv'
  BY <1>4, <1>6, <1>8 DEF BaseInv, NetInv, Matched
<1>10. IdsInv'
  BY <1>4, <1>8 DEF BaseInv, IdsInv, Matched
<1> QED BY <1>5, <1>9, <1>10 DEF BaseInv

(* What the user asks of the service.                                      *)
Posts ==
  \/ Publish \/ \E r \in Visible : Rollback(r)
  \/ \E n \in Names : Save(n)
  \/ \E p \in Packs, n \in Names : Import("import", p, n) \/ Import("replace", p, n) \/ Create(p, n)

(* The pack that is changed is the one shown, which is one of the packs.   *)
LEMMA PostsBase == ASSUME BaseInv, Posts PROVE BaseInv'
<1>0. 0 \in Nat /\ Names \subseteq Nat
  BY RouteAssumption
<1>1. active # "Overview" => project \in roster /\ project \in Packs
  BY ProjectKnown DEF BaseInv, TabInv
<1>2. CASE Publish
  BY <1>0, <1>1, <1>2, PostBase DEF Publish
<1>3. ASSUME NEW r \in Visible, Rollback(r) PROVE BaseInv'
  <2>1. r \in Nat
    BY DEF Visible
  <2> QED BY <1>1, <1>3, <2>1, PostBase DEF Rollback
<1>4. ASSUME NEW n \in Names, Save(n) PROVE BaseInv'
  BY <1>0, <1>1, <1>4, PostBase DEF Save
<1>5. ASSUME NEW p \in Packs, NEW n \in Names, Import("import", p, n) PROVE BaseInv'
  BY <1>0, <1>5, PostBase DEF Import
<1>6. ASSUME NEW p \in Packs, NEW n \in Names, Import("replace", p, n) PROVE BaseInv'
  BY <1>0, <1>1, <1>6, PostBase DEF Import
<1>7. ASSUME NEW p \in Packs, NEW n \in Names, Create(p, n) PROVE BaseInv'
  BY <1>0, <1>7, PostBase DEF Create
<1> QED BY <1>2, <1>3, <1>4, <1>5, <1>6, <1>7 DEF Posts

(* The steps, as the proofs below take them.                               *)
LEMMA Steps ==
  ASSUME [Next]_vars
  PROVE  \/ Posts
         \/ \E s \in Sections : SwitchTo(s)
         \/ Refresh
         \/ \E p \in {page - 1, page + 1} : Turn(p)
         \/ \E p \in Packs : Choose(p)
         \/ Reboot
         \/ \E k \in DOMAIN gets : Serve(k) \/ Arrive(k) \/ GetFails(k)
         \/ \E c \in calls : Store(c) \/ Answer(c) \/ CallFails(c)
         \/ UNCHANGED vars
BY DEF Next, UserActs, ReleaseClicks, SettingsClicks, AnswerGet, AnswerCall, Resting, Posts

(* Every step keeps the types and the bookkeeping.                         *)
LEMMA NextBase == BaseInv /\ [Next]_vars => BaseInv'
<1> SUFFICES ASSUME BaseInv, [Next]_vars PROVE BaseInv'
  OBVIOUS
<1>1. CASE UNCHANGED vars
  BY <1>1 DEF BaseInv, ServiceInv, TabInv, NetInv, IdsInv, vars, serviceVars, frameVars, sectionVars,
              historyVars
<1> QED BY <1>1, Steps, PostsBase, SwitchBase, RefreshBase, TurnBase, ChooseBase, RebootBase, ServeBase,
           ArriveBase, GetFailsBase, StoreBase, AnswerBase, CallFailsBase

LEMMA BaseHolds == Spec => []BaseInv
  BY InitBase, NextBase, PTL DEF Spec

(* The types the runs check follow.                                        *)
LEMMA BaseTypeOK == BaseInv => RouteTypeOK
<1> SUFFICES ASSUME BaseInv PROVE RouteTypeOK
  OBVIOUS
<1>1. \A k \in DOMAIN projects : projects[k].id \in Packs /\ projects[k].name \in Names
  <2>1. projects = << >> \/ projects \in Seq(Entry)
    BY DEF BaseInv, TabInv, Known
  <2>2. \A k \in DOMAIN projects : projects[k] \in Entry
    BY <2>1
  <2> QED BY <2>2 DEF Entry
<1>2. {c.id : c \in {c \in calls : c.at = "reloading"}} = {gets[k].for : k \in DOMAIN gets} \ {0}
  <2>1. ASSUME NEW c \in calls, c.at = "reloading"
        PROVE  c.id # 0 /\ c.id \in {gets[k].for : k \in DOMAIN gets}
    BY <2>1 DEF BaseInv, IdsInv, NetInv, CallSound
  <2>2. ASSUME NEW k \in DOMAIN gets, gets[k].for # 0
        PROVE  \E c \in calls : c.at = "reloading" /\ c.id = gets[k].for
    BY <2>2 DEF BaseInv, IdsInv, Waits
  <2> QED BY <2>1, <2>2
<1>3. page \in Nat \ {0}
  <2>1. rows.n \in Nat /\ page \in 1 .. Last(rows.n)
    BY DEF BaseInv, TabInv, Histories
  <2>2. Last(rows.n) \in Nat
    BY <2>1, LastPage
  <2> QED BY <2>1, <2>2
<1>4. roster \subseteq Packs /\ cookie \in Packs \cup {NoPack} /\ wanted \in Packs \cup {NoPack}
      /\ choices \subseteq Packs
  BY DEF BaseInv, ServiceInv, TabInv
<1>5. name \in [Packs -> Names] /\ revisions \in [Packs -> Nat]
      /\ \A p \in Packs : current[p] \in 0 .. revisions[p]
  BY DEF BaseInv, ServiceInv
<1>6. active \in Sections /\ (active # "Overview" => projects # << >>)
      /\ blurred \subseteq {"frame", "section"} /\ rows \in [of : Packs \cup {NoPack}, n : Nat]
      /\ loading \in BOOLEAN /\ reboot \in BOOLEAN /\ clicks \in Nat
  BY DEF BaseInv, TabInv, Histories
<1> QED BY <1>1, <1>2, <1>3, <1>4, <1>5, <1>6 DEF RouteTypeOK

(* The tab always shows something that can be shown: a list of packs of    *)
(* the service, a section only when there is a pack, a page of the         *)
(* history that exists; and a handler waits (its button disabled) exactly  *)
(* when a listing it awaits is on its way, for any number of them.         *)
THEOREM RouteTypeCorrect == Spec => []RouteTypeOK
  BY BaseHolds, BaseTypeOK, PTL

-----------------------------------------------------------------------------
(* The listing that comes last decides what is shown.                      *)
None(s, w) == \A j \in DOMAIN s : s[j].what # w
LastGet(s, w, x) ==
  \E k \in DOMAIN s : s[k] = x /\ x.what = w /\ \A j \in DOMAIN s : j > k => s[j].what # w

(* A listing that is begun comes last of its kind, and of no other.        *)
LEMMA LastAppended ==
  ASSUME NEW s \in Seq(GetType), NEW x \in GetType
  PROVE  /\ LastGet(Append(s, x), x.what, x)
         /\ \A w : w # x.what =>
              /\ None(s, w) => None(Append(s, x), w)
              /\ \A y : LastGet(s, w, y) => LastGet(Append(s, x), w, y)
<1>1. /\ DOMAIN Append(s, x) = DOMAIN s \cup {Len(s) + 1} /\ Append(s, x)[Len(s) + 1] = x
      /\ \A j \in DOMAIN s : Append(s, x)[j] = s[j]
  BY Appended
<1>2. DOMAIN s = 1 .. Len(s) /\ Len(s) \in Nat
  OBVIOUS
<1>3. LastGet(Append(s, x), x.what, x)
  BY <1>1, <1>2 DEF LastGet
<1>4. ASSUME NEW w, w # x.what, None(s, w) PROVE None(Append(s, x), w)
  BY <1>1, <1>4 DEF None
<1>5. ASSUME NEW w, w # x.what, NEW y, LastGet(s, w, y) PROVE LastGet(Append(s, x), w, y)
  BY <1>1, <1>5 DEF LastGet
<1> QED BY <1>3, <1>4, <1>5

(* When a listing comes off, the last of a kind stays the last, or was     *)
(* that very one: then none of its kind is left, unless it overtook one.   *)
LEMMA LastWithout ==
  ASSUME gets \in Seq(GetType), NEW k \in DOMAIN gets, NEW w
  PROVE  /\ None(gets, w) => None(Without(k), w)
         /\ \A y : LastGet(gets, w, y) =>
              \/ LastGet(Without(k), w, y)
              \/ /\ y = gets[k] /\ y.what = w /\ (Overtakes(k) \/ None(Without(k), w))
                 /\ \A j \in DOMAIN gets : j > k => gets[j].what # w
<1>1. DOMAIN gets = 1 .. Len(gets) /\ Len(gets) \in Nat /\ k \in 1 .. Len(gets)
  OBVIOUS
<1>2. /\ DOMAIN Without(k) = 1 .. (Len(gets) - 1)
      /\ \A j \in 1 .. (Len(gets) - 1) :
           Without(k)[j] = IF j < k THEN gets[j] ELSE gets[j + 1]
  BY WithoutOne
<1>3. None(gets, w) => None(Without(k), w)
  BY WithoutMembers DEF None
<1>4. ASSUME NEW y, LastGet(gets, w, y)
      PROVE  \/ LastGet(Without(k), w, y)
             \/ /\ y = gets[k] /\ y.what = w /\ (Overtakes(k) \/ None(Without(k), w))
                /\ \A j \in DOMAIN gets : j > k => gets[j].what # w
  <2>1. PICK i \in DOMAIN gets : gets[i] = y /\ y.what = w /\ \A j \in DOMAIN gets : j > i => gets[j].what # w
    BY <1>4 DEF LastGet
  <2>2. CASE i = k
    <3>1. ASSUME ~Overtakes(k), NEW j \in DOMAIN Without(k) PROVE Without(k)[j].what # w
      <4>1. CASE j < k
        <5>1. j \in 1 .. (k - 1) /\ Without(k)[j] = gets[j]
          BY <1>1, <1>2, <4>1
        <5> QED BY <2>1, <2>2, <3>1, <5>1 DEF Overtakes
      <4>2. CASE ~(j < k)
        <5>1. j + 1 \in DOMAIN gets /\ j + 1 > k /\ Without(k)[j] = gets[j + 1]
          BY <1>1, <1>2, <4>2
        <5> QED BY <2>1, <2>2, <5>1
      <4> QED BY <4>1, <4>2
    <3> QED BY <2>1, <2>2, <3>1 DEF None
  <2>3. CASE i < k
    <3>1. i \in DOMAIN Without(k) /\ Without(k)[i] = y
      BY <1>1, <1>2, <2>1, <2>3
    <3>2. ASSUME NEW j \in DOMAIN Without(k), j > i PROVE Without(k)[j].what # w
      <4>1. CASE j < k
        BY <1>1, <1>2, <2>1, <3>2, <4>1
      <4>2. CASE ~(j < k)
        <5>1. j + 1 \in DOMAIN gets /\ j + 1 > i /\ Without(k)[j] = gets[j + 1]
          BY <1>1, <1>2, <2>3, <4>2
        <5> QED BY <2>1, <5>1
      <4> QED BY <4>1, <4>2
    <3> QED BY <2>1, <3>1, <3>2 DEF LastGet
  <2>4. CASE i > k
    <3>1. i - 1 \in DOMAIN Without(k) /\ Without(k)[i - 1] = y
      <4>1. i - 1 \in 1 .. (Len(gets) - 1) /\ ~(i - 1 < k) /\ (i - 1) + 1 = i
        BY <1>1, <2>4
      <4> QED BY <1>2, <2>1, <4>1
    <3>2. ASSUME NEW j \in DOMAIN Without(k), j > i - 1 PROVE Without(k)[j].what # w
      <4>1. j + 1 \in DOMAIN gets /\ j + 1 > i /\ ~(j < k)
        BY <1>1, <1>2, <2>4, <3>2
      <4> QED BY <1>2, <2>1, <4>1
    <3> QED BY <2>1, <3>1, <3>2 DEF LastGet
  <2>5. i < k \/ i = k \/ i > k
    BY <1>1, <2>1
  <2> QED BY <2>2, <2>3, <2>4, <2>5
<1> QED BY <1>3, <1>4

(* A listing that goes on does so at the end: the frame after the switcher *)
(* of an import, a history after the frame of a publication or a renaming. *)
LEMMA ListsLast ==
  ASSUME BaseInv, NEW k \in DOMAIN gets, GoesOn(gets[k]), NEW l,
         l = << >> \/ \E p \in Packs : l = << Get("rows", p, 0) >>,
         gets' = Without(k) \o Follows(gets[k]) \o l
  PROVE  /\ IF gets[k].what = "choices" /\ gets[k].for # 0
            THEN LastGet(gets', "projects", Get("projects", NoPack, 0)) \/ l # << >>
            ELSE /\ None(Without(k), "projects") => None(gets', "projects")
                 /\ \A y : LastGet(Without(k), "projects", y) => LastGet(gets', "projects", y)
         /\ None(Without(k), "choices") => None(gets', "choices")
         /\ \A y : LastGet(Without(k), "choices", y) => LastGet(gets', "choices", y)
         /\ \/ l # << >> /\ LastGet(gets', "rows", l[1])
            \/ l = << >> /\ \E c \in calls : /\ GoesOnToRows(gets[k], c)
                                             /\ LastGet(gets', "rows", Get("rows", c.pack, c.id))
            \/ /\ l = << >> /\ ~ \E c \in calls : GoesOnToRows(gets[k], c)
               /\ None(Without(k), "rows") => None(gets', "rows")
               /\ \A y : LastGet(Without(k), "rows", y) => LastGet(gets', "rows", y)
<1> DEFINE g == gets[k]
           q == Without(k)
           f == Follows(g)
<1>1. gets \in Seq(GetType) /\ g \in GetType /\ calls \subseteq CallType
      /\ \A c \in calls : CallSound(c, roster, clicks)
  BY DEF BaseInv, NetInv
<1>2. q \in Seq(GetType)
  BY <1>1, WithoutOne
<1>3. gets' = (q \o f) \o l
  OBVIOUS
<1>4. \/ f = << >> /\ ~(g.what = "choices" /\ g.for # 0) /\ ~ \E c \in calls : GoesOnToRows(g, c)
      \/ /\ f = << Get("projects", NoPack, 0) >> /\ g.what = "choices" /\ g.for # 0
         /\ ~ \E c \in calls : GoesOnToRows(g, c)
      \/ \E c \in calls : GoesOnToRows(g, c) /\ g.what # "choices" /\ f = << Get("rows", c.pack, c.id) >>
  <2>1. ASSUME f = << >> PROVE ~ \E c \in calls : GoesOnToRows(g, c)
    BY <2>1 DEF GoesOnToRows
  <2> QED BY <2>1, FollowsCases DEF GoesOnToRows
<1> HIDE DEF q, f, g
<1> DEFINE s == q \o f
<1>5. /\ s \in Seq(GetType)
      /\ IF g.what = "choices" /\ g.for # 0
         THEN LastGet(s, "projects", Get("projects", NoPack, 0))
         ELSE /\ None(q, "projects") => None(s, "projects")
              /\ \A y : LastGet(q, "projects", y) => LastGet(s, "projects", y)
      /\ None(q, "choices") => None(s, "choices")
      /\ \A y : LastGet(q, "choices", y) => LastGet(s, "choices", y)
      /\ \/ \E c \in calls : GoesOnToRows(g, c) /\ LastGet(s, "rows", Get("rows", c.pack, c.id))
         \/ /\ ~ \E c \in calls : GoesOnToRows(g, c)
            /\ None(q, "rows") => None(s, "rows")
            /\ \A y : LastGet(q, "rows", y) => LastGet(s, "rows", y)
  <2>1. CASE f = << >> /\ ~(g.what = "choices" /\ g.for # 0) /\ ~ \E c \in calls : GoesOnToRows(g, c)
    <3>1. s = q
      BY <1>2, <2>1
    <3> QED BY <1>2, <2>1, <3>1
  <2>2. CASE /\ f = << Get("projects", NoPack, 0) >> /\ g.what = "choices" /\ g.for # 0
             /\ ~ \E c \in calls : GoesOnToRows(g, c)
    <3> DEFINE x == Get("projects", NoPack, 0)
    <3>1. x \in GetType /\ x.what = "projects"
      BY DEF Get, GetType, Histories, NoRows
    <3>2. f = << x >>
      BY <2>2
    <3> HIDE DEF x
    <3>3. s = Append(q, x) /\ s \in Seq(GetType)
      BY <1>2, <3>1, <3>2, ConcatOne, Appended
    <3> HIDE DEF s
    <3>4. /\ LastGet(s, "projects", x)
          /\ \A w \in {"rows", "choices"} : (None(q, w) => None(s, w))
                                            /\ \A y : LastGet(q, w, y) => LastGet(s, w, y)
      BY <1>2, <3>1, <3>3, LastAppended
    <3> QED BY <2>2, <3>3, <3>4 DEF x
  <2>3. ASSUME NEW c \in calls, GoesOnToRows(g, c), g.what # "choices", f = << Get("rows", c.pack, c.id) >>
        PROVE  <1>5!:
    <3> DEFINE x == Get("rows", c.pack, c.id)
    <3>0. c.pack \in Packs /\ c.id \in Nat
      BY <1>1 DEF CallType
    <3>1. x \in GetType /\ x.what = "rows"
      BY <3>0 DEF Get, GetType, Histories, NoRows
    <3>2. f = << x >>
      BY <2>3
    <3> HIDE DEF x
    <3>3. s = Append(q, x) /\ s \in Seq(GetType)
      BY <1>2, <3>1, <3>2, ConcatOne, Appended
    <3> HIDE DEF s
    <3>4. /\ LastGet(s, "rows", x)
          /\ \A w \in {"projects", "choices"} : (None(q, w) => None(s, w))
                                            /\ \A y : LastGet(q, w, y) => LastGet(s, w, y)
      BY <1>2, <3>1, <3>3, LastAppended
    <3> QED BY <2>3, <3>3, <3>4 DEF x
  <2> QED BY <1>4, <2>1, <2>2, <2>3
<1>6. gets' = s \o l
  BY <1>3
<1> HIDE DEF s
<1>7. CASE l = << >>
  <2>1. gets' = s
    BY <1>5, <1>6, <1>7
  <2> QED BY <1>5, <1>7, <2>1 DEF g, q
<1>8. ASSUME NEW p \in Packs, l = << Get("rows", p, 0) >>
      PROVE  /\ l # << >> /\ LastGet(gets', "rows", l[1])
             /\ \A w \in {"projects", "choices"} :
                  (None(s, w) => None(gets', w)) /\ \A y : LastGet(s, w, y) => LastGet(gets', w, y)
  <2> DEFINE x == Get("rows", p, 0)
  <2>1. x \in GetType /\ x.what = "rows"
    BY DEF Get, GetType, Histories, NoRows
  <2>2. l = << x >>
    BY <1>8
  <2> HIDE DEF x
  <2>3. gets' = Append(s, x)
    BY <1>5, <1>6, <2>1, <2>2, ConcatOne
  <2>4. l # << >> /\ l[1] = x
    BY <2>2
  <2> QED BY <1>5, <2>1, <2>3, <2>4, LastAppended
<1>9. ASSUME NEW p \in Packs, l = << Get("rows", p, 0) >>
      PROVE  /\ IF g.what = "choices" /\ g.for # 0
                THEN l # << >>
                ELSE /\ None(q, "projects") => None(gets', "projects")
                     /\ \A y : LastGet(q, "projects", y) => LastGet(gets', "projects", y)
             /\ None(q, "choices") => None(gets', "choices")
             /\ \A y : LastGet(q, "choices", y) => LastGet(gets', "choices", y)
             /\ l # << >> /\ LastGet(gets', "rows", l[1])
  BY <1>5, <1>8, <1>9
<1> QED BY <1>7, <1>9 DEF g, q

(* The other listings stay on their way.                                   *)
LEMMA ListsStay ==
  ASSUME BaseInv, NEW k \in DOMAIN gets, GoesOn(gets[k]), NEW l,
         l = << >> \/ \E p \in Packs : l = << Get("rows", p, 0) >>,
         gets' = Without(k) \o Follows(gets[k]) \o l,
         NEW i \in DOMAIN gets, i # k
  PROVE  \E j \in DOMAIN gets' : gets'[j] = gets[i]
<1> DEFINE q == Without(k)
           f == Follows(gets[k])
<1>1. gets \in Seq(GetType)
  BY DEF BaseInv, NetInv
<1>2. q \in Seq(GetType)
  BY <1>1, WithoutOne
<1>3. PICK j \in DOMAIN q : q[j] = gets[i]
  BY <1>1, WithoutMembers
<1>4. f = << >> \/ \E x : f = << x >>
  BY FollowsCases DEF GoesOnToRows
<1> HIDE DEF q, f
<1>5. j \in DOMAIN (q \o f) /\ (q \o f)[j] = q[j] /\ \E S : q \o f \in Seq(S)
  <2>1. CASE f = << >>
    BY <1>2, <2>1
  <2>2. ASSUME NEW x, f = << x >> PROVE <1>5!:
    <3>1. q \in Seq(GetType \cup {x}) /\ << x >> \in Seq(GetType \cup {x})
      BY <1>2
    <3>2. /\ q \o f \in Seq(GetType \cup {x}) /\ Len(q \o f) = Len(q) + 1
          /\ \A m \in 1 .. Len(q) + 1 : (q \o f)[m] = IF m <= Len(q) THEN q[m] ELSE << x >>[m - Len(q)]
      BY <2>2, <3>1
    <3> QED BY <1>2, <3>2
  <2> QED BY <1>4, <2>1, <2>2
<1>6. gets' = (q \o f) \o l
  BY DEF q, f
<1>7. PICK S : q \o f \in Seq(S)
  BY <1>5
<1> DEFINE s == q \o f
<1>8. s \in Seq(S) /\ j \in DOMAIN s /\ s[j] = q[j] /\ gets' = s \o l
  BY <1>5, <1>6, <1>7
<1> HIDE DEF s
<1>9. CASE l = << >>
  BY <1>3, <1>8, <1>9
<1>10. ASSUME NEW x, l = << x >> PROVE j \in DOMAIN (s \o l) /\ (s \o l)[j] = s[j]
  <2>1. s \in Seq(S \cup {x}) /\ << x >> \in Seq(S \cup {x})
    BY <1>8
  <2>2. /\ s \o l \in Seq(S \cup {x}) /\ Len(s \o l) = Len(s) + 1
        /\ \A m \in 1 .. Len(s) + 1 : (s \o l)[m] = IF m <= Len(s) THEN s[m] ELSE << x >>[m - Len(s)]
    BY <1>10, <2>1
  <2> QED BY <1>8, <2>2
<1> QED BY <1>3, <1>8, <1>9, <1>10

-----------------------------------------------------------------------------
(* The frame.  Unless it was spoilt, either an answer is to come that will *)
(* have it loaded, or the switcher is loaded for an import, whose handler  *)
(* loads the frame next, or the last listing of the frame lists what the   *)
(* service has - also when it was read a while ago: whatever changes the   *)
(* packs, or the cookie, is on the way to one of the others.               *)
FrameInv ==
  \/ "frame" \in blurred
  \/ \E c \in calls : c.at = "stored"
  \/ \E k \in DOMAIN gets : gets[k].what = "choices" /\ gets[k].for # 0
  \/ None(gets, "projects") /\ projects = Listed
  \/ \E x \in GetType : LastGet(gets, "projects", x) /\ (x.at = "read" => x.got = Listed)

(* The frame, step by step.  What the user asks changes no list, and no    *)
(* pack before the service has stored it.                                  *)
LEMMA InitFrame == Init => FrameInv
<1> SUFFICES ASSUME Init PROVE FrameInv
  OBVIOUS
<1>1. gets = Mounted(active) /\ active \in Sections /\ projects = Listed
  BY DEF Init, Sections
<1>2. None(gets, "projects")
  BY <1>1 DEF Mounted, Sections, None, Get
<1> QED BY <1>1, <1>2 DEF FrameInv

LEMMA PostFrame ==
  ASSUME BaseInv, FrameInv, NEW kind, NEW p, NEW arg, Post(kind, p, arg)
  PROVE  FrameInv'
<1>1. UNCHANGED << roster, name, current, cookie, projects, gets, blurred >> /\ calls \subseteq calls'
  BY DEF Post, serviceVars, frameVars
<1>2. Listed' = Listed
  BY <1>1, ListedSteady
<1> QED BY <1>1, <1>2 DEF FrameInv

LEMMA PostsFrame == ASSUME BaseInv, FrameInv, Posts PROVE FrameInv'
  BY PostFrame DEF Posts, Publish, Rollback, Save, Import, Create

LEMMA TurnFrame == ASSUME BaseInv, FrameInv, NEW p, Turn(p) PROVE FrameInv'
<1>1. UNCHANGED << roster, name, current, cookie, projects, gets, blurred, calls >>
  BY DEF Turn, serviceVars, frameVars
<1>2. Listed' = Listed
  BY <1>1, ListedSteady
<1> QED BY <1>1, <1>2 DEF FrameInv

LEMMA RefreshFrame == ASSUME BaseInv, FrameInv, Refresh PROVE FrameInv'
<1> DEFINE x == Get("rows", project, 0)
<1>1. project \in Packs
  BY ProjectKnown DEF Refresh, BaseInv, TabInv
<1>2. x \in GetType /\ x.what = "rows"
  BY <1>1 DEF Get, GetType, Histories, NoRows
<1>3. UNCHANGED << roster, name, current, cookie, projects, blurred, calls >> /\ gets' = Append(gets, x)
  BY DEF Refresh, serviceVars, frameVars
<1> HIDE DEF x
<1>4. Listed' = Listed
  BY <1>3, ListedSteady
<1>5. gets \in Seq(GetType)
  BY DEF BaseInv, NetInv
<1>6. /\ None(gets, "projects") => None(gets', "projects")
      /\ \A y : LastGet(gets, "projects", y) => LastGet(gets', "projects", y)
  BY <1>2, <1>3, <1>5, LastAppended
<1>7. DOMAIN gets \subseteq DOMAIN gets' /\ \A k \in DOMAIN gets : gets'[k] = gets[k]
  BY <1>2, <1>3, <1>5, Appended
<1> QED BY <1>3, <1>4, <1>6, <1>7 DEF FrameInv

(* A section that is opened adds a listing of its own.                     *)
LEMMA SwitchGets ==
  ASSUME BaseInv, NEW s \in Sections, SwitchTo(s)
  PROVE  \E q \in Seq(GetType) :
           /\ DOMAIN q = DOMAIN gets /\ \A k \in DOMAIN gets : q[k] = [gets[k] EXCEPT !.here = FALSE]
           /\ \/ s = "Overview" /\ gets' = q
              \/ s = "Releases" /\ gets' = Append(q, Get("rows", project, 0)) /\ Get("rows", project, 0) \in GetType
              \/ s = "Settings" /\ gets' = Append(q, Get("choices", NoPack, 0)) /\ Get("choices", NoPack, 0) \in GetType
<1> DEFINE q == [k \in DOMAIN gets |-> [gets[k] EXCEPT !.here = FALSE]]
<1>1. projects # << >> /\ project \in Packs
  BY ProjectKnown DEF SwitchTo, BaseInv
<1>2. gets \in Seq(GetType)
  BY DEF BaseInv, NetInv
<1>3. \A k \in DOMAIN gets : gets[k] \in GetType
  BY <1>2
<1>4. \A k \in DOMAIN gets : [gets[k] EXCEPT !.here = FALSE] \in GetType
  BY <1>3 DEF GetType
<1>5. q \in Seq(GetType) /\ DOMAIN q = DOMAIN gets
  BY <1>2, <1>4
<1>6. gets' = q \o Mounted(s) /\ \A k \in DOMAIN gets : q[k] = [gets[k] EXCEPT !.here = FALSE]
  BY DEF SwitchTo
<1> HIDE DEF q
<1>7. ASSUME s = "Overview" PROVE gets' = q
  BY <1>5, <1>6, <1>7, ConcatOne DEF Mounted
<1>8. ASSUME s = "Releases"
      PROVE  gets' = Append(q, Get("rows", project, 0)) /\ Get("rows", project, 0) \in GetType
  <2>1. Get("rows", project, 0) \in GetType
    BY <1>1 DEF Get, GetType, Histories, NoRows
  <2>2. gets' = q \o << Get("rows", project, 0) >>
    BY <1>6, <1>8 DEF Mounted
  <2> QED BY <1>5, <2>1, <2>2, ConcatOne
<1>9. ASSUME s = "Settings"
      PROVE  gets' = Append(q, Get("choices", NoPack, 0)) /\ Get("choices", NoPack, 0) \in GetType
  <2>1. Get("choices", NoPack, 0) \in GetType
    BY DEF Get, GetType, Histories, NoRows
  <2>2. gets' = q \o << Get("choices", NoPack, 0) >>
    BY <1>6, <1>9 DEF Mounted
  <2> QED BY <1>5, <2>1, <2>2, ConcatOne
<1> QED BY <1>5, <1>6, <1>7, <1>8, <1>9 DEF Sections

(* Leaving a section takes no listing of the frame with it.                *)
LEMMA SwitchFrame == ASSUME BaseInv, FrameInv, NEW s \in Sections, SwitchTo(s) PROVE FrameInv'
<1>1. PICK q \in Seq(GetType) :
           /\ DOMAIN q = DOMAIN gets /\ \A k \in DOMAIN gets : q[k] = [gets[k] EXCEPT !.here = FALSE]
           /\ gets' = q \/ \E x \in GetType : gets' = Append(q, x) /\ x.what # "projects"
  BY SwitchGets DEF Get
<1>2. /\ UNCHANGED << roster, name, current, cookie, projects >> /\ blurred' = blurred \ {"section"}
      /\ calls' = {[c EXCEPT !.here = FALSE] : c \in calls}
  BY DEF SwitchTo, serviceVars, frameVars
<1>3. Listed' = Listed
  BY <1>2, ListedSteady
<1>4. \A k \in DOMAIN gets : /\ gets[k] \in GetType /\ q[k] \in GetType
                             /\ q[k].what = gets[k].what /\ q[k].for = gets[k].for
                             /\ q[k].at = gets[k].at /\ q[k].got = gets[k].got
  <2>1. \A k \in DOMAIN gets : gets[k] \in GetType
    BY DEF BaseInv, NetInv
  <2> QED BY <1>1, <2>1 DEF GetType
<1>5. /\ None(q, "projects") => None(gets', "projects")
      /\ \A y : LastGet(q, "projects", y) => LastGet(gets', "projects", y)
      /\ \A k \in DOMAIN q : k \in DOMAIN gets' /\ gets'[k] = q[k]
  <2>1. CASE gets' = q
    BY <2>1
  <2>2. ASSUME NEW x \in GetType, gets' = Append(q, x), x.what # "projects" PROVE <1>5!:
    BY <2>2, LastAppended, Appended
  <2> QED BY <1>1, <2>1, <2>2
<1>6. CASE "frame" \in blurred
  BY <1>2, <1>6 DEF FrameInv
<1>7. ASSUME NEW c \in calls, c.at = "stored" PROVE FrameInv'
  <2>1. [c EXCEPT !.here = FALSE].at = "stored"
    BY <1>7 DEF BaseInv, NetInv, CallType
  <2> QED BY <1>2, <2>1 DEF FrameInv
<1>8. ASSUME NEW k \in DOMAIN gets, gets[k].what = "choices" /\ gets[k].for # 0 PROVE FrameInv'
  BY <1>1, <1>4, <1>5, <1>8 DEF FrameInv
<1>9. CASE None(gets, "projects") /\ projects = Listed
  <2>1. None(q, "projects")
    BY <1>1, <1>4, <1>9 DEF None
  <2> QED BY <1>2, <1>3, <1>5, <1>9, <2>1 DEF FrameInv
<1>10. ASSUME NEW x \in GetType, LastGet(gets, "projects", x), x.at = "read" => x.got = Listed
       PROVE  FrameInv'
  <2>1. PICK k \in DOMAIN gets : gets[k] = x /\ \A j \in DOMAIN gets : j > k => gets[j].what # "projects"
    BY <1>10 DEF LastGet
  <2>2. LastGet(q, "projects", q[k])
    BY <1>1, <1>4, <1>10, <2>1 DEF LastGet
  <2>3. q[k] \in GetType /\ (q[k].at = "read" => q[k].got = Listed)
    BY <1>4, <1>10, <2>1
  <2> QED BY <1>3, <1>5, <2>2, <2>3 DEF FrameInv
<1> QED BY <1>6, <1>7, <1>8, <1>9, <1>10 DEF FrameInv

(* Loading the page begins with the listing of the frame.                  *)
LEMMA BootFrame == ASSUME Boot PROVE FrameInv'
<1> DEFINE x == Get("projects", NoPack, 0)
<1>1. x \in GetType /\ x.what = "projects" /\ x.at = "sent"
  BY DEF Get, GetType, Histories, NoRows
<1>2. gets' = << x >>
  BY DEF Boot
<1> HIDE DEF x
<1>3. LastGet(gets', "projects", x)
  BY <1>1, <1>2 DEF LastGet
<1> QED BY <1>1, <1>3 DEF FrameInv

(* A listing is read: what it finds is what the service has.               *)
LEMMA ServeGets ==
  ASSUME BaseInv, NEW k \in DOMAIN gets, Serve(k)
  PROVE  /\ gets' \in Seq(GetType) /\ DOMAIN gets' = DOMAIN gets
         /\ \A j \in DOMAIN gets : j # k => gets'[j] = gets[j]
         /\ gets'[k].what = gets[k].what /\ gets'[k].of = gets[k].of /\ gets'[k].for = gets[k].for
         /\ gets'[k].here = gets[k].here /\ gets'[k].at = "read"
         /\ gets[k].what = "projects" => gets'[k].got = Listed
         /\ gets[k].what = "rows" => gets'[k].got = History(gets[k].of)
         /\ gets[k].what = "choices" => gets'[k].got = roster
<1> DEFINE got == CASE gets[k].what = "projects" -> Listed
                    [] gets[k].what = "rows" -> History(gets[k].of)
                    [] gets[k].what = "choices" -> roster
<1>1. gets \in Seq(GetType) /\ gets[k] \in GetType
  BY DEF BaseInv, NetInv
<1>2. gets' = [gets EXCEPT ![k].at = "read", ![k].got = got]
  BY DEF Serve
<1>3. BaseInv'
  BY ServeBase
<1>4. gets' \in Seq(GetType)
  BY <1>3 DEF BaseInv, NetInv
<1>5. /\ gets[k].what = "projects" => got = Listed
      /\ gets[k].what = "rows" => got = History(gets[k].of)
      /\ gets[k].what = "choices" => got = roster
  OBVIOUS
<1> HIDE DEF got
<1>6. DOMAIN gets' = DOMAIN gets /\ \A j \in DOMAIN gets : j # k => gets'[j] = gets[j]
  BY <1>1, <1>2
<1>7. gets'[k] = [gets[k] EXCEPT !.at = "read", !.got = got]
  BY <1>1, <1>2
<1>8. /\ gets'[k].what = gets[k].what /\ gets'[k].of = gets[k].of /\ gets'[k].for = gets[k].for
      /\ gets'[k].here = gets[k].here /\ gets'[k].at = "read" /\ gets'[k].got = got
  BY <1>1, <1>7 DEF GetType
<1> QED BY <1>4, <1>5, <1>6, <1>8

(* A listing that is read is up to date at that moment.                    *)
LEMMA ServeFrame == ASSUME BaseInv, FrameInv, NEW k \in DOMAIN gets, Serve(k) PROVE FrameInv'
<1>1. UNCHANGED << roster, name, current, cookie, projects, blurred, calls >>
  BY DEF Serve, serviceVars, frameVars, historyVars
<1>2. Listed' = Listed
  BY <1>1, ListedSteady
<1>3. /\ gets' \in Seq(GetType) /\ DOMAIN gets' = DOMAIN gets
      /\ \A j \in DOMAIN gets : j # k => gets'[j] = gets[j]
      /\ gets'[k].what = gets[k].what /\ gets'[k].for = gets[k].for
      /\ gets[k].what = "projects" => gets'[k].got = Listed
  BY ServeGets
<1>4. \A j \in DOMAIN gets : gets'[j].what = gets[j].what /\ gets'[j].for = gets[j].for
  BY <1>3
<1>5. CASE "frame" \in blurred \/ \E c \in calls : c.at = "stored"
  BY <1>1, <1>5 DEF FrameInv
<1>6. CASE \E j \in DOMAIN gets : gets[j].what = "choices" /\ gets[j].for # 0
  BY <1>3, <1>4, <1>6 DEF FrameInv
<1>7. CASE None(gets, "projects") /\ projects = Listed
  BY <1>1, <1>2, <1>3, <1>4, <1>7 DEF FrameInv, None
<1>8. ASSUME NEW x \in GetType, LastGet(gets, "projects", x), x.at = "read" => x.got = Listed
      PROVE  FrameInv'
  <2>1. PICK i \in DOMAIN gets : gets[i] = x /\ x.what = "projects"
                                 /\ \A j \in DOMAIN gets : j > i => gets[j].what # "projects"
    BY <1>8 DEF LastGet
  <2>2. gets'[i] \in GetType /\ LastGet(gets', "projects", gets'[i])
    BY <1>3, <1>4, <2>1 DEF LastGet
  <2>3. gets'[i].at = "read" => gets'[i].got = Listed
    BY <1>3, <1>8, <2>1
  <2> QED BY <1>2, <2>2, <2>3 DEF FrameInv
<1> QED BY <1>5, <1>6, <1>7, <1>8 DEF FrameInv

(* What was stored will be answered, and its answer has the frame loaded.  *)
LEMMA StoreFrame == ASSUME BaseInv, FrameInv, NEW c \in calls, Store(c) PROVE FrameInv'
<1>1. CASE c.lost
  BY <1>1 DEF Store, FrameInv
<1>2. CASE ~c.lost
  <2>1. [c EXCEPT !.at = "stored"] \in calls' /\ [c EXCEPT !.at = "stored"].at = "stored"
    BY <1>2 DEF Store, BaseInv, NetInv, CallType
  <2> QED BY <2>1 DEF FrameInv
<1> QED BY <1>1, <1>2

LEMMA CallFailsFrame == ASSUME NEW c \in calls, CallFails(c) PROVE FrameInv'
  BY DEF CallFails, FrameInv

(* An answer has the frame loaded, at once or, after an import, after the  *)
(* switcher.                                                               *)
LEMMA AnswerFrame == ASSUME BaseInv, NEW c \in calls, Answer(c) PROVE FrameInv'
<1> DEFINE x == CASE c.kind = "save" -> Get("projects", NoPack, 0)
                  [] c.kind \in {"import", "replace"} -> [Get("choices", NoPack, c.id) EXCEPT !.here = c.here]
                  [] OTHER -> Get("projects", NoPack, c.id)
<1>1. gets' = Append(gets, x) /\ gets \in Seq(GetType)
  BY DEF Answer, BaseInv, NetInv
<1>2. c \in CallType /\ c.id \in Nat \ {0}
  BY DEF BaseInv, NetInv, CallSound, CallType
<1>3. x \in GetType /\ x.at = "sent"
      /\ (IF c.kind \in {"import", "replace"} THEN x.what = "choices" /\ x.for = c.id
          ELSE x.what = "projects")
  <2>1. CASE c.kind = "save"
    BY <2>1 DEF Get, GetType, Histories, NoRows
  <2>2. CASE c.kind \in {"import", "replace"}
    BY <1>2, <2>2 DEF Get, GetType, Histories, NoRows, CallType
  <2>3. CASE c.kind \notin {"save", "import", "replace"}
    BY <1>2, <2>3 DEF Get, GetType, Histories, NoRows
  <2> QED BY <2>1, <2>2, <2>3
<1> HIDE DEF x
<1>4. CASE c.kind \in {"import", "replace"}
  <2>1. Len(gets) + 1 \in DOMAIN gets' /\ gets'[Len(gets) + 1] = x
    BY <1>1, <1>3, Appended
  <2> QED BY <1>2, <1>3, <1>4, <2>1 DEF FrameInv
<1>5. CASE c.kind \notin {"import", "replace"}
  <2>1. LastGet(gets', "projects", x)
    BY <1>1, <1>3, <1>5, LastAppended
  <2> QED BY <1>3, <2>1 DEF FrameInv
<1> QED BY <1>4, <1>5

(* Only handlers that wait end, and only with their listing.               *)
LEMMA StoredStay ==
  ASSUME BaseInv, NEW k \in DOMAIN gets, GoesOn(gets[k]), NEW c \in calls, c.at # "reloading"
  PROVE  c \in calls'
<1>1. c.id # gets[k].for
  <2>1. ASSUME c.id = gets[k].for PROVE FALSE
    <3>1. gets[k].for # 0
      BY <2>1 DEF BaseInv, NetInv, CallSound
    <3>2. PICK d \in calls : Waits(d, gets[k])
      BY <3>1 DEF BaseInv, IdsInv
    <3>3. d = c
      BY <2>1, <3>2 DEF Waits, BaseInv, IdsInv
    <3> QED BY <3>2, <3>3 DEF Waits
  <2> QED BY <2>1
<1> QED BY <1>1, FollowsCases DEF Ends, GoesOnToRows

(* The frame when a listing comes off.                                     *)
LEMMA ListsFrame ==
  ASSUME BaseInv, FrameInv, NEW k \in DOMAIN gets, GoesOn(gets[k]), NEW l,
         l = << >> \/ \E p \in Packs : l = << Get("rows", p, 0) >>,
         gets' = Without(k) \o Follows(gets[k]) \o l,
         UNCHANGED << roster, name, current, cookie, clicks >>,
         gets[k].what = "choices" => l = << >>,
         gets[k].what # "projects" => projects' = projects,
         blurred \subseteq blurred',
         gets[k].what = "projects" =>
           \/ "frame" \in blurred'
           \/ gets[k].at = "read" /\ projects' = gets[k].got /\ ~Overtakes(k)
  PROVE  FrameInv'
<1>1. gets \in Seq(GetType) /\ gets[k] \in GetType
  BY DEF BaseInv, NetInv
<1>2. Listed' = Listed
  BY ListedSteady
<1>4. IF gets[k].what = "choices" /\ gets[k].for # 0
      THEN LastGet(gets', "projects", Get("projects", NoPack, 0))
      ELSE /\ None(Without(k), "projects") => None(gets', "projects")
           /\ \A y : LastGet(Without(k), "projects", y) => LastGet(gets', "projects", y)
  BY ListsLast
<1>5. CASE "frame" \in blurred'
  BY <1>5 DEF FrameInv
<1>6. ASSUME NEW c \in calls, c.at = "stored" PROVE FrameInv'
  BY <1>6, StoredStay DEF FrameInv
<1>7. CASE gets[k].what = "choices" /\ gets[k].for # 0
  <2>1. Get("projects", NoPack, 0) \in GetType /\ Get("projects", NoPack, 0).at = "sent"
    BY DEF Get, GetType, Histories, NoRows
  <2> QED BY <1>4, <1>7, <2>1 DEF FrameInv
<1>8. ASSUME ~(gets[k].what = "choices" /\ gets[k].for # 0),
             NEW i \in DOMAIN gets, gets[i].what = "choices" /\ gets[i].for # 0
      PROVE  FrameInv'
  <2>1. i # k
    BY <1>8
  <2>2. \E j \in DOMAIN gets' : gets'[j] = gets[i]
    BY <2>1, ListsStay
  <2> QED BY <1>8, <2>2 DEF FrameInv
<1>9. ASSUME ~(gets[k].what = "choices" /\ gets[k].for # 0), None(gets, "projects"), projects = Listed
      PROVE  FrameInv'
  <2>1. None(Without(k), "projects")
    BY <1>1, <1>9, LastWithout
  <2>2. gets[k].what # "projects"
    BY <1>9 DEF None
  <2> QED BY <1>2, <1>4, <1>9, <2>1, <2>2 DEF FrameInv
<1>10. ASSUME ~(gets[k].what = "choices" /\ gets[k].for # 0), "frame" \notin blurred',
              NEW x \in GetType, LastGet(gets, "projects", x), x.at = "read" => x.got = Listed
       PROVE  FrameInv'
  <2>1. \/ LastGet(Without(k), "projects", x)
        \/ x = gets[k] /\ x.what = "projects" /\ (Overtakes(k) \/ None(Without(k), "projects"))
    BY <1>1, <1>10, LastWithout
  <2>2. CASE LastGet(Without(k), "projects", x)
    BY <1>2, <1>4, <1>10, <2>2 DEF FrameInv
  <2>3. CASE x = gets[k] /\ x.what = "projects" /\ (Overtakes(k) \/ None(Without(k), "projects"))
    <3>1. None(gets', "projects")
      BY <1>4, <1>10, <2>3
    <3>2. projects' = Listed
      BY <1>10, <2>3
    <3> QED BY <1>2, <3>1, <3>2 DEF FrameInv
  <2> QED BY <2>1, <2>2, <2>3
<1> QED BY <1>5, <1>6, <1>7, <1>8, <1>9, <1>10 DEF FrameInv

LEMMA ArriveFrame == ASSUME BaseInv, FrameInv, NEW k \in DOMAIN gets, Arrive(k) PROVE FrameInv'
<1> DEFINE g == gets[k]
           l == IF g.what = "projects" THEN Reloads(g.got) ELSE << >>
<1>1. g \in GetType /\ Sound(g, roster) /\ g.at = "read"
  BY DEF BaseInv, NetInv, Arrive
<1>2. GoesOn(g) /\ gets' = Without(k) \o Follows(g) \o l
  BY DEF Arrive
<1>3. /\ UNCHANGED << roster, name, current, cookie, clicks >>
      /\ IF g.what = "projects" THEN projects' = g.got ELSE projects' = projects
      /\ blurred' = blurred \cup IF Overtakes(k) \/ Misses(k) THEN View(g) ELSE {}
  BY DEF Arrive, serviceVars, frameVars
<1>4. l = << >> \/ \E p \in Packs : l = << Get("rows", p, 0) >>
  BY <1>1, ArriveReloads
<1>5. g.what = "choices" => l = << >>
  OBVIOUS
<1>6. g.what = "projects" => ("frame" \in blurred' \/ ~Overtakes(k))
  BY <1>3 DEF View
<1> HIDE DEF l
<1> QED BY <1>1, <1>2, <1>3, <1>4, <1>5, <1>6, ListsFrame

LEMMA GetFailsFrame == ASSUME BaseInv, FrameInv, NEW k \in DOMAIN gets, GetFails(k) PROVE FrameInv'
<1> DEFINE l == << >>
<1>1. GoesOn(gets[k]) /\ gets' = Without(k) \o Follows(gets[k]) \o << >>
  BY FailsGets DEF GetFails
<1>2. UNCHANGED << roster, name, current, cookie, projects, clicks >> /\ blurred' = blurred \cup View(gets[k])
  BY DEF GetFails, serviceVars
<1>3. gets[k].what = "projects" => "frame" \in blurred'
  BY <1>2 DEF View
<1>4. l = << >> /\ gets' = Without(k) \o Follows(gets[k]) \o l
  BY <1>1
<1> HIDE DEF l
<1> QED BY <1>1, <1>2, <1>3, <1>4, ListsFrame

(* Every step keeps the frame on its way to what the service has.          *)
LEMMA NextFrame == BaseInv /\ FrameInv /\ [Next]_vars => FrameInv'
<1> SUFFICES ASSUME BaseInv, FrameInv, [Next]_vars PROVE FrameInv'
  OBVIOUS
<1>1. CASE UNCHANGED vars
  <2>1. UNCHANGED << roster, name, current, cookie, projects, gets, calls, blurred >>
    BY <1>1 DEF vars, serviceVars, frameVars, historyVars
  <2>2. Listed' = Listed
    BY <2>1, ListedSteady
  <2> QED BY <2>1, <2>2 DEF FrameInv
<1>2. ASSUME NEW p \in Packs, Choose(p) PROVE FrameInv'
  BY <1>2, BootFrame DEF Choose
<1>3. CASE Reboot
  BY <1>3, BootFrame DEF Reboot
<1> QED BY <1>1, <1>2, <1>3, Steps, PostsFrame, SwitchFrame, RefreshFrame, TurnFrame, ServeFrame,
           ArriveFrame, GetFailsFrame, StoreFrame, AnswerFrame, CallFailsFrame

(* "After import it becomes the selected project": whatever was renamed,   *)
(* left, loaded again or answered in any order in the meantime, the pack   *)
(* that was imported or chosen last is the one shown at rest, unless the   *)
(* frame was spoilt.                                                       *)
THEOREM SelectedPackStaysShown == Spec => []SelectedPackIsShown
<1>1. BaseInv /\ FrameInv => SelectedPackIsShown
  <2> SUFFICES ASSUME BaseInv, FrameInv, Quiet, "frame" \notin blurred, wanted # NoPack
               PROVE  projects # << >> /\ project = wanted
    BY DEF SelectedPackIsShown
  <2>1. gets = << >> /\ calls = {}
    BY DEF Quiet
  <2>2. projects = Listed
    BY <2>1 DEF FrameInv, LastGet
  <2>3. ServiceInv /\ cookie = wanted /\ cookie \in roster
    BY DEF BaseInv, ServiceInv
  <2> QED BY <2>2, <2>3, SelectedIsFirst DEF project
<1>2. Spec => [](BaseInv /\ FrameInv)
  BY InitBase, NextBase, InitFrame, NextFrame, PTL DEF Spec
<1> QED BY <1>1, <1>2, PTL

-----------------------------------------------------------------------------
(* The form for a first pack.  It is shown only when nothing else can be   *)
(* under way, and when the frame has a pack, its request is over: nobody   *)
(* creates a pack behind the back of a section.                            *)
EmptyInv ==
  /\ \A c \in calls : c.kind = "create" /\ ~c.lost => projects = << >>
  /\ projects = << >> =>
       /\ ~reboot
       /\ \A c, d \in calls : ~c.lost /\ ~d.lost => c = d
       /\ \A c \in calls : ~c.lost => c.kind = "create" /\ c.here /\ ~loading
                                      /\ (gets # << >> => c.at = "reloading")
       /\ gets # << >> => Len(gets) = 1 /\ (loading \/ \E c \in calls : c.at = "reloading")

(* The form, step by step.                                                 *)
LEMMA InitEmpty == Init => EmptyInv
<1> SUFFICES ASSUME Init PROVE EmptyInv
  OBVIOUS
<1>1. calls = {} /\ reboot = FALSE /\ projects = Listed /\ gets = Mounted(active)
  BY DEF Init
<1>2. projects = << >> => active = "Overview"
  BY InitBase DEF BaseInv, TabInv
<1>3. projects = << >> => gets = << >>
  BY <1>1, <1>2 DEF Mounted
<1> QED BY <1>1, <1>3 DEF EmptyInv

(* While the frame has a pack, only creations matter, and none is begun.   *)
LEMMA EmptyKept ==
  ASSUME EmptyInv, projects # << >>, projects' # << >>,
         \A c \in calls' : c.kind = "create" /\ ~c.lost => \E d \in calls : d.kind = "create" /\ ~d.lost
  PROVE  EmptyInv'
BY DEF EmptyInv

LEMMA PostEmpty ==
  ASSUME EmptyInv, NEW kind, NEW p, NEW arg, Post(kind, p, arg),
         kind # "create", projects # << >>
  PROVE  EmptyInv'
<1>1. projects' # << >> /\ \A c \in calls' : c.kind = "create" => c \in calls
  BY DEF Post, frameVars
<1> QED BY <1>1, EmptyKept

(* The form is submitted once, and only when nothing is under way.         *)
LEMMA CreateEmpty ==
  ASSUME BaseInv, EmptyInv, NEW p \in Packs, NEW n \in Names, Create(p, n)
  PROVE  EmptyInv'
<1>1. projects = << >> /\ ~loading /\ ~Busy({"create"}) /\ Post("create", p, n)
  BY DEF Create
<1>2. \A c \in calls : c.lost
  BY <1>1 DEF EmptyInv, Busy, BaseInv, NetInv, CallType
<1>3. gets = << >>
  BY <1>1, <1>2 DEF EmptyInv, BaseInv, NetInv, CallSound
<1> DEFINE x == [id |-> clicks', kind |-> "create", pack |-> p, arg |-> n,
                 at |-> "posting", here |-> TRUE, lost |-> FALSE]
<1>4. calls' = calls \cup {x} /\ UNCHANGED << projects, loading, reboot, gets >>
  BY <1>1 DEF Post, frameVars
<1>5. x.kind = "create" /\ x.here /\ ~x.lost
  OBVIOUS
<1> HIDE DEF x
<1> QED BY <1>1, <1>2, <1>3, <1>4, <1>5 DEF EmptyInv

LEMMA PostsEmpty == ASSUME BaseInv, EmptyInv, Posts PROVE EmptyInv'
<1>1. active # "Overview" => projects # << >>
  BY DEF BaseInv, TabInv
<1>2. CASE \E p \in Packs, n \in Names : Create(p, n)
  BY <1>2, CreateEmpty
<1>3. CASE Publish \/ \E r \in Visible : Rollback(r)
  BY <1>1, <1>3, PostEmpty DEF Publish, Rollback
<1>4. CASE \E n \in Names : Save(n)
  BY <1>1, <1>4, PostEmpty DEF Save
<1>5. CASE \E p \in Packs, n \in Names : Import("import", p, n) \/ Import("replace", p, n)
  BY <1>1, <1>5, PostEmpty DEF Import
<1> QED BY <1>2, <1>3, <1>4, <1>5 DEF Posts

LEMMA SwitchEmpty == ASSUME BaseInv, EmptyInv, NEW s \in Sections, SwitchTo(s) PROVE EmptyInv'
<1>1. projects # << >> /\ projects' = projects /\ calls' = {[c EXCEPT !.here = FALSE] : c \in calls}
  BY DEF SwitchTo, frameVars
<1>2. \A c \in calls : [c EXCEPT !.here = FALSE].kind = c.kind /\ [c EXCEPT !.here = FALSE].lost = c.lost
  BY DEF BaseInv, NetInv, CallType
<1> QED BY <1>1, <1>2, EmptyKept

LEMMA TurnEmpty == ASSUME BaseInv, EmptyInv, NEW p, Turn(p) PROVE EmptyInv'
<1>1. projects # << >> /\ projects' = projects /\ calls' = calls
  BY DEF Turn, frameVars, BaseInv, TabInv
<1> QED BY <1>1, EmptyKept

LEMMA RefreshEmpty == ASSUME BaseInv, EmptyInv, Refresh PROVE EmptyInv'
<1>1. projects # << >> /\ projects' = projects /\ calls' = calls
  BY DEF Refresh, frameVars, BaseInv, TabInv
<1> QED BY <1>1, EmptyKept

(* Of a page that is gone nothing but lost requests is left.               *)
LEMMA BootEmpty == ASSUME BaseInv, Boot PROVE EmptyInv'
<1>1. \A c \in calls' : c.lost
  BY DEF Boot, BaseInv, NetInv, CallType
<1>2. reboot' = FALSE /\ loading' = TRUE /\ Len(gets') = 1
  BY DEF Boot
<1> QED BY <1>1, <1>2 DEF EmptyInv

LEMMA ServeEmpty == ASSUME BaseInv, EmptyInv, NEW k \in DOMAIN gets, Serve(k) PROVE EmptyInv'
<1>1. UNCHANGED << projects, loading, calls, reboot >>
  BY DEF Serve, frameVars
<1>2. gets \in Seq(GetType) /\ gets' \in Seq(GetType) /\ DOMAIN gets' = DOMAIN gets
  BY ServeGets DEF BaseInv, NetInv
<1>3. Len(gets') = Len(gets) /\ gets # << >>
  BY <1>2
<1> QED BY <1>1, <1>3 DEF EmptyInv

LEMMA CallFailsEmpty == ASSUME BaseInv, EmptyInv, NEW c \in calls, CallFails(c) PROVE EmptyInv'
<1>1. UNCHANGED << projects, loading, gets, reboot >> /\ calls' = calls \ {c} /\ c.at # "reloading"
  BY DEF CallFails, frameVars
<1> QED BY <1>1 DEF EmptyInv

LEMMA StoreEmpty == ASSUME BaseInv, EmptyInv, NEW c \in calls, Store(c) PROVE EmptyInv'
<1> DEFINE e == [c EXCEPT !.at = "stored"]
<1>1. e.kind = c.kind /\ e.here = c.here /\ e.lost = c.lost
  BY DEF BaseInv, NetInv, CallType
<1>2. /\ UNCHANGED << projects, loading, gets, reboot >> /\ c.at = "posting"
      /\ calls' = (calls \ {c}) \cup IF c.lost THEN {} ELSE {e}
  BY DEF Store, frameVars
<1> HIDE DEF e
<1>3. \A d \in calls' : d \in calls \/ (d = e /\ ~c.lost)
  BY <1>2
<1>4. CASE projects # << >>
  BY <1>1, <1>2, <1>3, <1>4, EmptyKept
<1>5. CASE projects = << >>
  <2>1. ~c.lost => gets = << >>
    BY <1>2, <1>5 DEF EmptyInv
  <2>2. \A d \in calls : d.at = "reloading" => d \in calls'
    BY <1>2
  <2>3. \A d, f \in calls' : ~d.lost /\ ~f.lost => d = f
    <3>1. c.lost => calls' \subseteq calls
      BY <1>2
    <3>2. ~c.lost => \A d \in calls' : ~d.lost => d = e
      BY <1>2, <1>5 DEF EmptyInv
    <3> QED BY <1>5, <3>1, <3>2 DEF EmptyInv
  <2> QED BY <1>1, <1>2, <1>3, <1>5, <2>1, <2>2, <2>3 DEF EmptyInv
<1> QED BY <1>4, <1>5

(* The answer to the form begins the one listing there is.                 *)
LEMMA AnswerEmpty == ASSUME BaseInv, EmptyInv, NEW c \in calls, Answer(c) PROVE EmptyInv'
<1> DEFINE e == [c EXCEPT !.at = "reloading"]
<1>1. e.kind = c.kind /\ e.here = c.here /\ e.lost = c.lost /\ e.at = "reloading"
  BY DEF BaseInv, NetInv, CallType
<1>2. /\ UNCHANGED << projects, loading, reboot >> /\ c.at = "stored" /\ ~c.lost
      /\ calls' = (calls \ {c}) \cup IF c.kind = "save" THEN {} ELSE {e}
  BY DEF Answer, frameVars, BaseInv, NetInv, CallSound
<1> HIDE DEF e
<1>3. \A d \in calls' : d \in calls \/ d = e
  BY <1>2
<1>4. CASE projects # << >>
  BY <1>1, <1>2, <1>3, <1>4, EmptyKept
<1>5. CASE projects = << >>
  <2>1. gets = << >> /\ c.kind = "create" /\ c.here /\ ~loading
    BY <1>2, <1>5 DEF EmptyInv
  <2>2. Len(gets') = 1
    BY <2>1 DEF Answer
  <2>3. e \in calls' /\ \A d \in calls' : ~d.lost => d = e
    BY <1>2, <1>5, <2>1 DEF EmptyInv
  <2>4. ~reboot
    BY <1>5 DEF EmptyInv
  <2> QED BY <1>1, <1>2, <1>3, <1>5, <2>1, <2>2, <2>3, <2>4 DEF EmptyInv
<1> QED BY <1>4, <1>5

(* The only listing there is without a pack is the one of the frame.       *)
LEMMA ListsEmpty ==
  ASSUME BaseInv, EmptyInv, NEW k \in DOMAIN gets, GoesOn(gets[k]), NEW l,
         l = << >> \/ \E p \in Packs : l = << Get("rows", p, 0) >>,
         gets' = Without(k) \o Follows(gets[k]) \o l, UNCHANGED << roster, clicks >>,
         l # << >> => projects # << >>,
         projects' = projects \/ projects' # << >>,
         loading' \in BOOLEAN, loading' => loading
  PROVE  EmptyInv'
<1> DEFINE g == gets[k]
<1>1. calls' \subseteq calls
  BY FollowsCases DEF Ends, GoesOnToRows
<1>2. CASE projects # << >>
  BY <1>1, <1>2, EmptyKept
<1>3. CASE projects = << >>
  <2>1. gets \in Seq(GetType) /\ gets # << >> /\ Len(gets) = 1 /\ ~reboot /\ k = 1 /\ DOMAIN gets = {1}
    BY <1>3 DEF EmptyInv, BaseInv, NetInv
  <2>2. \A c \in calls : ~c.lost => c.at = "reloading" /\ c.kind = "create" /\ c.id = g.for /\ g.for # 0
    <3>1. ASSUME NEW c \in calls, ~c.lost
          PROVE  c.at = "reloading" /\ c.kind = "create" /\ c.id = g.for /\ g.for # 0
      <4>1. c.at = "reloading" /\ c.kind = "create"
        BY <1>3, <2>1, <3>1 DEF EmptyInv
      <4>2. \E i \in DOMAIN gets : gets[i].for = c.id
        BY <4>1 DEF BaseInv, IdsInv
      <4>3. c.id # 0
        BY DEF BaseInv, NetInv, CallSound
      <4> QED BY <2>1, <4>1, <4>2, <4>3
    <3> QED BY <3>1
  <2>3. \A c \in calls : c.at = "reloading" => ~c.lost
    BY DEF BaseInv, NetInv, CallSound
  <2>4. Follows(g) = << >> /\ Ends(g) /\ reboot' = reboot
    <3>1. ~(g.what = "choices" /\ g.for # 0)
      BY <2>2, <2>3 DEF BaseInv, IdsInv, Waits
    <3>2. ~ \E c \in calls : GoesOnToRows(g, c)
      BY <2>2, <2>3 DEF GoesOnToRows
    <3> QED BY <3>1, <3>2, FollowsCases
  <2>5. \A c \in calls' : c.lost
    BY <2>2, <2>4 DEF Ends
  <2>6. gets' = << >>
    <3>1. Without(k) \in Seq(GetType) /\ Len(Without(k)) = 0
      BY <2>1, WithoutOne
    <3>2. Without(k) = << >>
      BY <3>1
    <3> QED BY <1>3, <2>4, <3>2
  <2> QED BY <2>1, <2>4, <2>5, <2>6 DEF EmptyInv
<1> QED BY <1>2, <1>3

LEMMA ArriveEmpty == ASSUME BaseInv, EmptyInv, NEW k \in DOMAIN gets, Arrive(k) PROVE EmptyInv'
<1> DEFINE g == gets[k]
           l == IF g.what = "projects" THEN Reloads(g.got) ELSE << >>
<1>1. Sound(g, roster) /\ g.at = "read"
  BY DEF BaseInv, NetInv, Arrive
<1>2. GoesOn(g) /\ gets' = Without(k) \o Follows(g) \o l
  BY DEF Arrive
<1>3. /\ UNCHANGED << roster, clicks >>
      /\ IF g.what = "projects" THEN projects' = g.got /\ loading' = FALSE
         ELSE UNCHANGED << projects, loading >>
  BY DEF Arrive, serviceVars, frameVars
<1>4. l = << >> \/ \E p \in Packs : l = << Get("rows", p, 0) >>
  BY <1>1, ArriveReloads
<1>5. l # << >> => projects # << >>
  BY DEF Reloads, BaseInv, TabInv
<1>6. projects' = projects \/ projects' # << >>
  BY <1>1, <1>3 DEF Sound, Known
<1>7. loading' \in BOOLEAN /\ (loading' => loading)
  BY <1>3 DEF BaseInv, TabInv
<1> HIDE DEF l
<1> QED BY <1>2, <1>3, <1>4, <1>5, <1>6, <1>7, ListsEmpty

LEMMA GetFailsEmpty == ASSUME BaseInv, EmptyInv, NEW k \in DOMAIN gets, GetFails(k) PROVE EmptyInv'
<1> DEFINE l == << >>
<1>1. GoesOn(gets[k]) /\ gets' = Without(k) \o Follows(gets[k]) \o l
  BY FailsGets DEF GetFails
<1>2. UNCHANGED << roster, projects, clicks >> /\ loading' = (loading /\ gets[k].what # "projects")
  BY DEF GetFails, serviceVars
<1>3. l = << >>
  OBVIOUS
<1> HIDE DEF l
<1> QED BY <1>1, <1>2, <1>3, ListsEmpty

(* Every step keeps creations to the form.                                 *)
LEMMA NextEmpty == BaseInv /\ EmptyInv /\ [Next]_vars => EmptyInv'
<1> SUFFICES ASSUME BaseInv, EmptyInv, [Next]_vars PROVE EmptyInv'
  OBVIOUS
<1>1. CASE UNCHANGED vars
  BY <1>1 DEF vars, frameVars, EmptyInv
<1>2. ASSUME NEW p \in Packs, Choose(p) PROVE EmptyInv'
  BY <1>2, BootEmpty DEF Choose
<1>3. CASE Reboot
  BY <1>3, BootEmpty DEF Reboot
<1> QED BY <1>1, <1>2, <1>3, Steps, PostsEmpty, SwitchEmpty, RefreshEmpty, TurnEmpty, ServeEmpty,
           ArriveEmpty, GetFailsEmpty, StoreEmpty, AnswerEmpty, CallFailsEmpty

-----------------------------------------------------------------------------
(* The switcher of packs in Settings: unless it was spoilt, the page will  *)
(* be loaded again, or an import is answered and will have it, or the last *)
(* listing of the switcher, for the section that is open, has what the     *)
(* service has.                                                            *)
SettingsInv ==
  active = "Settings" =>
    \/ "section" \in blurred
    \/ reboot
    \/ \E c \in calls : c.kind \in {"import", "replace"} /\ c.at # "posting"
    \/ None(gets, "choices") /\ choices = roster
    \/ \E x \in GetType : LastGet(gets, "choices", x) /\ x.here /\ (x.at = "read" => x.got = roster)

(* The switcher, step by step.                                             *)
LEMMA InitSettings == Init => SettingsInv
<1> SUFFICES ASSUME Init, active = "Settings" PROVE SettingsInv
  BY DEF SettingsInv
<1> DEFINE x == Get("choices", NoPack, 0)
<1>1. x \in GetType /\ x.what = "choices" /\ x.here /\ x.at = "sent"
  BY DEF Get, GetType, Histories, NoRows
<1>2. gets = << x >>
  BY DEF Init, Mounted
<1> HIDE DEF x
<1>3. LastGet(gets, "choices", x)
  BY <1>1, <1>2 DEF LastGet
<1> QED BY <1>1, <1>3 DEF SettingsInv

LEMMA PostSettings ==
  ASSUME SettingsInv, NEW kind, NEW p, NEW arg, Post(kind, p, arg)
  PROVE  SettingsInv'
<1>1. UNCHANGED << roster, active, choices, gets, reboot, blurred >> /\ calls \subseteq calls'
  BY DEF Post, serviceVars, sectionVars
<1> QED BY <1>1 DEF SettingsInv

LEMMA PostsSettings == ASSUME SettingsInv, Posts PROVE SettingsInv'
  BY PostSettings DEF Posts, Publish, Rollback, Save, Import, Create

LEMMA SwitchSettings == ASSUME BaseInv, NEW s \in Sections, SwitchTo(s) PROVE SettingsInv'
<1>1. CASE s # "Settings"
  BY <1>1 DEF SwitchTo, SettingsInv
<1>2. CASE s = "Settings"
  <2> DEFINE x == Get("choices", NoPack, 0)
  <2>1. PICK q \in Seq(GetType) : gets' = Append(q, x) /\ x \in GetType
    BY <1>2, SwitchGets
  <2>2. x.what = "choices" /\ x.here /\ x.at = "sent"
    BY DEF Get
  <2> HIDE DEF x
  <2>3. LastGet(gets', "choices", x)
    BY <2>1, <2>2, LastAppended
  <2> QED BY <2>1, <2>2, <2>3 DEF SettingsInv
<1> QED BY <1>1, <1>2

(* The switcher is read as it is at that moment.                           *)
LEMMA ServeSettings == ASSUME BaseInv, SettingsInv, NEW k \in DOMAIN gets, Serve(k) PROVE SettingsInv'
<1>1. UNCHANGED << roster, active, choices, reboot, blurred, calls >>
  BY DEF Serve, serviceVars, sectionVars, historyVars
<1>2. /\ gets' \in Seq(GetType) /\ DOMAIN gets' = DOMAIN gets
      /\ \A j \in DOMAIN gets : j # k => gets'[j] = gets[j]
      /\ gets'[k].what = gets[k].what /\ gets'[k].here = gets[k].here
      /\ gets[k].what = "choices" => gets'[k].got = roster
  BY ServeGets
<1>3. \A j \in DOMAIN gets : gets'[j].what = gets[j].what
  BY <1>2
<1>4. None(gets, "choices") => None(gets', "choices")
  BY <1>2, <1>3 DEF None
<1>5. ASSUME NEW x \in GetType, LastGet(gets, "choices", x), x.here, x.at = "read" => x.got = roster
      PROVE  \E y \in GetType : LastGet(gets', "choices", y) /\ y.here /\ (y.at = "read" => y.got = roster)
  <2>1. PICK i \in DOMAIN gets : gets[i] = x /\ x.what = "choices"
                                 /\ \A j \in DOMAIN gets : j > i => gets[j].what # "choices"
    BY <1>5 DEF LastGet
  <2>2. gets'[i] \in GetType /\ LastGet(gets', "choices", gets'[i])
    BY <1>2, <1>3, <2>1 DEF LastGet
  <2>3. gets'[i].here /\ (gets'[i].at = "read" => gets'[i].got = roster)
    BY <1>2, <1>5, <2>1
  <2> QED BY <2>2, <2>3
<1> QED BY <1>1, <1>4, <1>5 DEF SettingsInv

(* Packs appear behind the switcher only by an import of this section.     *)
LEMMA StoreSettings == ASSUME BaseInv, EmptyInv, SettingsInv, NEW c \in calls, Store(c) PROVE SettingsInv'
<1>1. /\ UNCHANGED << active, choices, gets, reboot >> /\ c.at = "posting"
      /\ calls' = (calls \ {c}) \cup IF c.lost THEN {} ELSE {[c EXCEPT !.at = "stored"]}
      /\ blurred' = IF c.lost THEN {"frame", "section"} ELSE blurred
      /\ roster' = roster \cup {c.pack}
  BY DEF Store, Done, sectionVars
<1>2. c \in CallType /\ CallSound(c, roster, clicks)
  BY DEF BaseInv, NetInv
<1>3. CASE c.lost
  BY <1>1, <1>3 DEF SettingsInv
<1>4. CASE ~c.lost /\ c.kind = "import"
  <2>1. [c EXCEPT !.at = "stored"].kind = "import" /\ [c EXCEPT !.at = "stored"].at = "stored"
    BY <1>2, <1>4 DEF CallType
  <2>2. [c EXCEPT !.at = "stored"] \in calls'
    BY <1>1, <1>4
  <2> QED BY <2>1, <2>2 DEF SettingsInv
<1>5. CASE ~c.lost /\ c.kind = "create"
  <2>1. active = "Overview"
    BY <1>5 DEF EmptyInv, BaseInv, TabInv
  <2> QED BY <1>1, <2>1 DEF SettingsInv
<1>6. CASE ~c.lost /\ c.kind \notin {"create", "import"}
  <2>1. roster' = roster
    BY <1>1, <1>2, <1>6 DEF CallSound
  <2>2. \A d \in calls : d.at # "posting" => d \in calls'
    BY <1>1
  <2> QED BY <1>1, <1>6, <2>1, <2>2 DEF SettingsInv
<1> QED BY <1>3, <1>4, <1>5, <1>6

(* The answer to an import loads the switcher; the others do not touch it. *)
LEMMA AnswerSettings == ASSUME BaseInv, SettingsInv, NEW c \in calls, Answer(c) PROVE SettingsInv'
<1>1. /\ UNCHANGED << roster, active, choices, reboot >> /\ c.at = "stored"
      /\ calls' = (calls \ {c}) \cup IF c.kind = "save" THEN {} ELSE {[c EXCEPT !.at = "reloading"]}
      /\ blurred \subseteq blurred'
  BY DEF Answer, serviceVars
<1>2. c \in CallType /\ c.id \in Nat /\ gets \in Seq(GetType)
  BY DEF BaseInv, NetInv, CallType
<1>3. CASE c.kind \in {"import", "replace"}
  <2>1. [c EXCEPT !.at = "reloading"].kind = c.kind /\ [c EXCEPT !.at = "reloading"].at = "reloading"
    BY <1>2 DEF CallType
  <2>2. [c EXCEPT !.at = "reloading"] \in calls'
    BY <1>1, <1>3
  <2> QED BY <1>3, <2>1, <2>2 DEF SettingsInv
<1>4. CASE c.kind \notin {"import", "replace"}
  <2> DEFINE x == IF c.kind = "save" THEN Get("projects", NoPack, 0) ELSE Get("projects", NoPack, c.id)
  <2>1. gets' = Append(gets, x)
    BY <1>4 DEF Answer
  <2>2. x \in GetType /\ x.what = "projects"
    BY <1>2 DEF Get, GetType, Histories, NoRows
  <2> HIDE DEF x
  <2>3. /\ None(gets, "choices") => None(gets', "choices")
        /\ \A y : LastGet(gets, "choices", y) => LastGet(gets', "choices", y)
    BY <1>2, <2>1, <2>2, LastAppended
  <2>4. \A d \in calls : d.kind \in {"import", "replace"} => d \in calls'
    BY <1>1, <1>4
  <2> QED BY <1>1, <2>3, <2>4 DEF SettingsInv
<1> QED BY <1>3, <1>4

(* The switcher when a listing comes off.                                  *)
LEMMA ListsSettings ==
  ASSUME BaseInv, SettingsInv, NEW k \in DOMAIN gets, GoesOn(gets[k]), NEW l,
         l = << >> \/ \E p \in Packs : l = << Get("rows", p, 0) >>,
         gets' = Without(k) \o Follows(gets[k]) \o l,
         UNCHANGED << roster, active >>,
         gets[k].what # "choices" => choices' = choices,
         blurred \subseteq blurred',
         gets[k].what = "choices" =>
           \/ "section" \in blurred'
           \/ gets[k].at = "read" /\ ~Overtakes(k) /\ (gets[k].here => choices' = gets[k].got)
  PROVE  SettingsInv'
<1>1. gets \in Seq(GetType) /\ gets[k] \in GetType
  BY DEF BaseInv, NetInv
<1>2. /\ None(Without(k), "choices") => None(gets', "choices")
      /\ \A y : LastGet(Without(k), "choices", y) => LastGet(gets', "choices", y)
  BY ListsLast
<1>3. CASE active # "Settings" \/ "section" \in blurred'
  BY <1>3 DEF SettingsInv
<1>4. CASE reboot
  <2>1. reboot'
    BY <1>4 DEF GoesOn
  <2> QED BY <2>1 DEF SettingsInv
<1>5. ASSUME NEW c \in calls, c.kind \in {"import", "replace"}, c.at # "posting" PROVE SettingsInv'
  <2>1. CASE c \in calls'
    BY <1>5, <2>1 DEF SettingsInv
  <2>2. CASE c \notin calls'
    <3>1. c.id = gets[k].for
      BY <2>2, FollowsCases DEF Ends, GoesOnToRows
    <3>2. gets[k].for # 0
      BY <3>1 DEF BaseInv, NetInv, CallSound
    <3>3. PICK d \in calls : Waits(d, gets[k])
      BY <3>2 DEF BaseInv, IdsInv
    <3>4. d = c
      BY <3>1, <3>3 DEF BaseInv, IdsInv, Waits
    <3>5. gets[k].what = "choices"
      BY <1>5, <3>3, <3>4 DEF Waits
    <3>6. reboot'
      BY <3>2, <3>5, FollowsCases DEF GoesOnToRows
    <3> QED BY <3>6 DEF SettingsInv
  <2> QED BY <2>1, <2>2
<1>6. CASE None(gets, "choices") /\ choices = roster
  <2>1. None(Without(k), "choices") /\ gets[k].what # "choices"
    BY <1>1, <1>6, LastWithout DEF None
  <2> QED BY <1>2, <1>6, <2>1 DEF SettingsInv
<1>7. ASSUME "section" \notin blurred',
             NEW x \in GetType, LastGet(gets, "choices", x), x.here, x.at = "read" => x.got = roster
      PROVE  SettingsInv'
  <2>1. \/ LastGet(Without(k), "choices", x)
        \/ x = gets[k] /\ x.what = "choices" /\ (Overtakes(k) \/ None(Without(k), "choices"))
    BY <1>1, <1>7, LastWithout
  <2>2. CASE LastGet(Without(k), "choices", x)
    BY <1>2, <1>7, <2>2 DEF SettingsInv
  <2>3. CASE x = gets[k] /\ x.what = "choices" /\ (Overtakes(k) \/ None(Without(k), "choices"))
    <3>1. None(gets', "choices") /\ choices' = roster
      BY <1>2, <1>7, <2>3
    <3> QED BY <3>1 DEF SettingsInv
  <2> QED BY <2>1, <2>2, <2>3
<1> QED BY <1>3, <1>4, <1>5, <1>6, <1>7 DEF SettingsInv

LEMMA ArriveSettings == ASSUME BaseInv, SettingsInv, NEW k \in DOMAIN gets, Arrive(k) PROVE SettingsInv'
<1> DEFINE g == gets[k]
           l == IF g.what = "projects" THEN Reloads(g.got) ELSE << >>
<1>1. GoesOn(g) /\ gets' = Without(k) \o Follows(g) \o l /\ g.at = "read"
  BY DEF Arrive
<1>2. /\ UNCHANGED << roster, active >>
      /\ choices' = IF g.what = "choices" /\ g.here THEN g.got ELSE choices
      /\ blurred' = blurred \cup IF Overtakes(k) \/ Misses(k) THEN View(g) ELSE {}
  BY DEF Arrive, serviceVars
<1>3. l = << >> \/ \E p \in Packs : l = << Get("rows", p, 0) >>
  BY <1>1, ArriveReloads
<1>4. g.what = "choices" => ("section" \in blurred' \/ ~Overtakes(k))
  BY <1>2 DEF View
<1> HIDE DEF l
<1> QED BY <1>1, <1>2, <1>3, <1>4, ListsSettings

LEMMA GetFailsSettings == ASSUME BaseInv, SettingsInv, NEW k \in DOMAIN gets, GetFails(k) PROVE SettingsInv'
<1> DEFINE l == << >>
<1>1. GoesOn(gets[k]) /\ gets' = Without(k) \o Follows(gets[k]) \o l
  BY FailsGets DEF GetFails
<1>2. UNCHANGED << roster, active, choices >> /\ blurred' = blurred \cup View(gets[k])
  BY DEF GetFails, serviceVars, sectionVars
<1>3. gets[k].what = "choices" => "section" \in blurred'
  BY <1>2 DEF View
<1>4. l = << >>
  OBVIOUS
<1> HIDE DEF l
<1> QED BY <1>1, <1>2, <1>3, <1>4, ListsSettings

(* Every step keeps the switcher on its way to what the service has.       *)
LEMMA NextSettings == BaseInv /\ EmptyInv /\ SettingsInv /\ [Next]_vars => SettingsInv'
<1> SUFFICES ASSUME BaseInv, EmptyInv, SettingsInv, [Next]_vars PROVE SettingsInv'
  OBVIOUS
<1>1. CASE UNCHANGED vars
  BY <1>1 DEF vars, serviceVars, sectionVars, historyVars, SettingsInv
<1>2. ASSUME NEW p \in Packs, Choose(p) PROVE SettingsInv'
  BY <1>2 DEF Choose, Boot, SettingsInv
<1>3. CASE Reboot \/ Refresh \/ \E p \in {page - 1, page + 1} : Turn(p)
  BY <1>3 DEF Reboot, Refresh, Turn, Boot, sectionVars, SettingsInv
<1>4. ASSUME NEW c \in calls, CallFails(c) PROVE SettingsInv'
  BY <1>4 DEF CallFails, SettingsInv
<1> QED BY <1>1, <1>2, <1>3, <1>4, Steps, PostsSettings, SwitchSettings, ServeSettings,
           ArriveSettings, GetFailsSettings, StoreSettings, AnswerSettings

-----------------------------------------------------------------------------
(* The history in Releases: unless it was spoilt, a publication was stored *)
(* or its handler waits for the frame, after which it loads the history,   *)
(* or the last listing of a history is for the section that is open and,   *)
(* if it is of the pack in front, has what the service has.                *)
ReleasesInv ==
  active = "Releases" =>
    \/ "section" \in blurred
    \/ \E c \in calls : c.kind = "publish" /\ c.at = "stored"
    \/ \E c \in calls, k \in DOMAIN gets : /\ c.kind = "publish" /\ c.here
                                           /\ gets[k].what = "projects" /\ gets[k].for = c.id
    \/ None(gets, "rows") /\ rows = History(project)
    \/ \E x \in GetType : /\ LastGet(gets, "rows", x) /\ x.here
                          /\ x.at = "read" /\ x.of = project => x.got = History(project)

(* The history, step by step.                                              *)
LEMMA InitReleases == Init => ReleasesInv
<1> SUFFICES ASSUME Init, active = "Releases" PROVE ReleasesInv
  BY DEF ReleasesInv
<1> DEFINE x == Get("rows", project, 0)
<1>1. project \in Packs
  BY InitBase, ProjectKnown DEF BaseInv, TabInv
<1>2. x \in GetType /\ x.what = "rows" /\ x.here /\ x.at = "sent"
  BY <1>1 DEF Get, GetType, Histories, NoRows
<1>3. gets = << x >>
  BY DEF Init, Mounted
<1> HIDE DEF x
<1>4. LastGet(gets, "rows", x)
  BY <1>2, <1>3 DEF LastGet
<1> QED BY <1>2, <1>4 DEF ReleasesInv

LEMMA PostReleases ==
  ASSUME ReleasesInv, NEW kind, NEW p, NEW arg, Post(kind, p, arg)
  PROVE  ReleasesInv'
<1>1. UNCHANGED << revisions, projects, active, rows, gets, blurred >> /\ calls \subseteq calls'
  BY DEF Post, serviceVars, frameVars, sectionVars
<1> QED BY <1>1 DEF ReleasesInv, History, project

LEMMA PostsReleases == ASSUME ReleasesInv, Posts PROVE ReleasesInv'
  BY PostReleases DEF Posts, Publish, Rollback, Save, Import, Create

LEMMA SwitchReleases == ASSUME BaseInv, NEW s \in Sections, SwitchTo(s) PROVE ReleasesInv'
<1>1. CASE s # "Releases"
  BY <1>1 DEF SwitchTo, ReleasesInv
<1>2. CASE s = "Releases"
  <2> DEFINE x == Get("rows", project, 0)
  <2>1. PICK q \in Seq(GetType) : gets' = Append(q, x) /\ x \in GetType
    BY <1>2, SwitchGets
  <2>2. x.what = "rows" /\ x.here /\ x.at = "sent"
    BY DEF Get
  <2> HIDE DEF x
  <2>3. LastGet(gets', "rows", x)
    BY <2>1, <2>2, LastAppended
  <2> QED BY <2>1, <2>2, <2>3 DEF ReleasesInv
<1> QED BY <1>1, <1>2

(* Refreshing begins a history of the pack in front.                       *)
LEMMA RefreshReleases == ASSUME BaseInv, Refresh PROVE ReleasesInv'
<1> DEFINE x == Get("rows", project, 0)
<1>1. project \in Packs
  BY ProjectKnown DEF Refresh, BaseInv, TabInv
<1>2. x \in GetType /\ x.what = "rows" /\ x.here /\ x.at = "sent"
  BY <1>1 DEF Get, GetType, Histories, NoRows
<1>3. gets' = Append(gets, x) /\ gets \in Seq(GetType)
  BY DEF Refresh, BaseInv, NetInv
<1> HIDE DEF x
<1>4. LastGet(gets', "rows", x)
  BY <1>2, <1>3, LastAppended
<1> QED BY <1>2, <1>4 DEF ReleasesInv

(* A history is read as it is at that moment.                              *)
LEMMA ServeReleases == ASSUME BaseInv, ReleasesInv, NEW k \in DOMAIN gets, Serve(k) PROVE ReleasesInv'
<1>1. UNCHANGED << revisions, projects, active, rows, blurred, calls >>
  BY DEF Serve, serviceVars, frameVars, sectionVars, historyVars
<1>2. project' = project /\ History(project)' = History(project)
  BY <1>1 DEF project, History
<1>3. /\ gets' \in Seq(GetType) /\ DOMAIN gets' = DOMAIN gets
      /\ \A j \in DOMAIN gets : j # k => gets'[j] = gets[j]
      /\ gets'[k].what = gets[k].what /\ gets'[k].here = gets[k].here /\ gets'[k].for = gets[k].for
      /\ gets'[k].of = gets[k].of
      /\ gets[k].what = "rows" => gets'[k].got = History(gets[k].of)
  BY ServeGets
<1>4. \A j \in DOMAIN gets : gets'[j].what = gets[j].what /\ gets'[j].for = gets[j].for
  BY <1>3
<1>5. None(gets, "rows") => None(gets', "rows")
  BY <1>3, <1>4 DEF None
<1>6. ASSUME NEW x \in GetType, LastGet(gets, "rows", x), x.here,
             x.at = "read" /\ x.of = project => x.got = History(project)
      PROVE  \E y \in GetType : /\ LastGet(gets', "rows", y) /\ y.here
                                /\ y.at = "read" /\ y.of = project => y.got = History(project)
  <2>1. PICK i \in DOMAIN gets : gets[i] = x /\ x.what = "rows"
                                 /\ \A j \in DOMAIN gets : j > i => gets[j].what # "rows"
    BY <1>6 DEF LastGet
  <2>2. gets'[i] \in GetType /\ LastGet(gets', "rows", gets'[i])
    BY <1>3, <1>4, <2>1 DEF LastGet
  <2>3. /\ gets'[i].here
        /\ gets'[i].at = "read" /\ gets'[i].of = project => gets'[i].got = History(project)
    BY <1>3, <1>6, <2>1
  <2> QED BY <2>2, <2>3
<1>7. CASE \E c \in calls, j \in DOMAIN gets : /\ c.kind = "publish" /\ c.here
                                               /\ gets[j].what = "projects" /\ gets[j].for = c.id
  BY <1>1, <1>3, <1>4, <1>7 DEF ReleasesInv
<1> QED BY <1>1, <1>2, <1>5, <1>6, <1>7 DEF ReleasesInv

(* Only a publication adds to a history.                                   *)
LEMMA StoreReleases == ASSUME BaseInv, ReleasesInv, NEW c \in calls, Store(c) PROVE ReleasesInv'
<1>1. /\ UNCHANGED << projects, active, rows, gets >> /\ c.at = "posting"
      /\ calls' = (calls \ {c}) \cup IF c.lost THEN {} ELSE {[c EXCEPT !.at = "stored"]}
      /\ blurred' = IF c.lost THEN {"frame", "section"} ELSE blurred
      /\ revisions' = IF c.kind = "publish" THEN [revisions EXCEPT ![c.pack] = @ + 1] ELSE revisions
  BY DEF Store, Done, frameVars, sectionVars
<1>2. c \in CallType
  BY DEF BaseInv, NetInv
<1>3. CASE c.lost
  BY <1>1, <1>3 DEF ReleasesInv
<1>4. CASE ~c.lost /\ c.kind = "publish"
  <2>1. [c EXCEPT !.at = "stored"].kind = "publish" /\ [c EXCEPT !.at = "stored"].at = "stored"
    BY <1>2, <1>4 DEF CallType
  <2>2. [c EXCEPT !.at = "stored"] \in calls'
    BY <1>1, <1>4
  <2> QED BY <2>1, <2>2 DEF ReleasesInv
<1>5. CASE ~c.lost /\ c.kind # "publish"
  <2>1. project' = project /\ History(project)' = History(project) /\ blurred' = blurred
    BY <1>1, <1>5 DEF project, History
  <2>2. \A d \in calls : d.kind = "publish" => d \in calls'
    BY <1>1, <1>5
  <2> QED BY <1>1, <2>1, <2>2 DEF ReleasesInv
<1> QED BY <1>3, <1>4, <1>5

(* The answer to a publication has the frame loaded, and the history after *)
(* it, unless its section was left.                                        *)
LEMMA AnswerReleases == ASSUME BaseInv, ReleasesInv, NEW c \in calls, Answer(c) PROVE ReleasesInv'
<1> DEFINE x == CASE c.kind = "save" -> Get("projects", NoPack, 0)
                  [] c.kind \in {"import", "replace"} -> [Get("choices", NoPack, c.id) EXCEPT !.here = c.here]
                  [] OTHER -> Get("projects", NoPack, c.id)
           e == [c EXCEPT !.at = "reloading"]
<1>1. /\ UNCHANGED << revisions, projects, active, rows >> /\ c.at = "stored"
      /\ calls' = (calls \ {c}) \cup IF c.kind = "save" THEN {} ELSE {e}
      /\ blurred' = blurred \cup IF c.kind = "publish" /\ ~c.here THEN {"section"} ELSE {}
      /\ gets' = Append(gets, x)
  BY DEF Answer, serviceVars, frameVars
<1>2. c \in CallType /\ c.id \in Nat /\ gets \in Seq(GetType)
  BY DEF BaseInv, NetInv, CallType
<1>3. x \in GetType /\ x.what \in {"projects", "choices"}
      /\ (c.kind = "publish" => x.what = "projects" /\ x.for = c.id)
  <2>1. CASE c.kind = "save"
    BY <2>1 DEF Get, GetType, Histories, NoRows
  <2>2. CASE c.kind \in {"import", "replace"}
    BY <1>2, <2>2 DEF Get, GetType, Histories, NoRows, CallType
  <2>3. CASE c.kind \notin {"save", "import", "replace"}
    BY <1>2, <2>3 DEF Get, GetType, Histories, NoRows
  <2> QED BY <2>1, <2>2, <2>3
<1>4. e.kind = c.kind /\ e.here = c.here /\ e.id = c.id
  BY <1>2 DEF CallType
<1> HIDE DEF x, e
<1>5. /\ None(gets, "rows") => None(gets', "rows")
      /\ \A y : LastGet(gets, "rows", y) => LastGet(gets', "rows", y)
  BY <1>1, <1>2, <1>3, LastAppended
<1>6. /\ Len(gets) + 1 \in DOMAIN gets' /\ gets'[Len(gets) + 1] = x
      /\ \A k \in DOMAIN gets : k \in DOMAIN gets' /\ gets'[k] = gets[k]
  BY <1>1, <1>2, <1>3, Appended
<1>7. project' = project /\ History(project)' = History(project)
  BY <1>1 DEF project, History
<1>8. CASE c.kind = "publish" /\ ~c.here
  BY <1>1, <1>8 DEF ReleasesInv
<1>9. CASE c.kind = "publish" /\ c.here
  <2>1. e \in calls'
    BY <1>1, <1>9
  <2> QED BY <1>3, <1>4, <1>6, <1>9, <2>1 DEF ReleasesInv
<1>10. CASE c.kind # "publish"
  <2>1. \A d \in calls : d.kind = "publish" => d \in calls'
    BY <1>1, <1>10
  <2>2. blurred' = blurred
    BY <1>1, <1>10
  <2>3. ASSUME NEW d \in calls, NEW k \in DOMAIN gets, d.kind = "publish", d.here,
               gets[k].what = "projects", gets[k].for = d.id
        PROVE  ReleasesInv'
    BY <1>6, <2>1, <2>3 DEF ReleasesInv
  <2> QED BY <1>1, <1>5, <1>7, <2>1, <2>2, <2>3 DEF ReleasesInv
<1> QED BY <1>8, <1>9, <1>10

(* The history when a listing comes off: if the pack in front changes, its *)
(* history is loaded; one that comes last for another pack counts as       *)
(* missed.                                                                 *)
LEMMA ListsReleases ==
  ASSUME BaseInv, ReleasesInv, NEW k \in DOMAIN gets, GoesOn(gets[k]), NEW l,
         l = << >> \/ \E p \in Packs : l = << Get("rows", p, 0) >>,
         gets' = Without(k) \o Follows(gets[k]) \o l,
         UNCHANGED << revisions, active >>,
         active = "Releases" /\ l = << >> => project' = project,
         gets[k].what # "rows" => rows' = rows,
         blurred \subseteq blurred',
         gets[k].what = "rows" =>
           \/ "section" \in blurred'
           \/ /\ gets[k].at = "read" /\ ~Overtakes(k) /\ ~Misses(k)
              /\ gets[k].here => rows' = gets[k].got
  PROVE  ReleasesInv'
<1> USE DEF History
<1>1. gets \in Seq(GetType) /\ gets[k] \in GetType /\ calls \subseteq CallType
  BY DEF BaseInv, NetInv
<1>2. CASE active # "Releases" \/ "section" \in blurred'
  BY <1>2 DEF ReleasesInv
<1>3. \/ l # << >> /\ LastGet(gets', "rows", l[1])
      \/ l = << >> /\ \E c \in calls : /\ GoesOnToRows(gets[k], c)
                                       /\ LastGet(gets', "rows", Get("rows", c.pack, c.id))
      \/ /\ l = << >> /\ ~ \E c \in calls : GoesOnToRows(gets[k], c)
         /\ None(Without(k), "rows") => None(gets', "rows")
         /\ \A y : LastGet(Without(k), "rows", y) => LastGet(gets', "rows", y)
  BY ListsLast
<1>4. ASSUME NEW p \in Packs, NEW n \in Nat, LastGet(gets', "rows", Get("rows", p, n)) PROVE ReleasesInv'
  <2> DEFINE x == Get("rows", p, n)
  <2>1. x \in GetType /\ x.here /\ x.at = "sent"
    BY DEF Get, GetType, Histories, NoRows
  <2>2. LastGet(gets', "rows", x)
    BY <1>4
  <2> HIDE DEF x
  <2> QED BY <2>1, <2>2 DEF ReleasesInv
<1>5. CASE l # << >>
  <2>1. PICK p \in Packs : l = << Get("rows", p, 0) >>
    BY <1>5
  <2>2. LastGet(gets', "rows", Get("rows", p, 0))
    BY <1>3, <1>5, <2>1
  <2> QED BY <1>4, <2>2
<1>6. CASE \E c \in calls : GoesOnToRows(gets[k], c) /\ l = << >>
  <2>1. PICK c \in calls : LastGet(gets', "rows", Get("rows", c.pack, c.id))
    BY <1>3, <1>6
  <2>2. c.pack \in Packs /\ c.id \in Nat
    BY <1>1 DEF CallType
  <2> QED BY <1>4, <2>1, <2>2
<1>7. ASSUME active = "Releases", "section" \notin blurred', l = << >>,
             ~ \E c \in calls : GoesOnToRows(gets[k], c)
      PROVE  ReleasesInv'
  <2>1. /\ None(Without(k), "rows") => None(gets', "rows")
        /\ \A y : LastGet(Without(k), "rows", y) => LastGet(gets', "rows", y)
    BY <1>3, <1>7
  <2>2. project' = project
    BY <1>7
  <2>3. ASSUME NEW c \in calls, c.kind = "publish", c.at = "stored" PROVE ReleasesInv'
    BY <2>3, StoredStay DEF ReleasesInv
  <2>4. ASSUME NEW c \in calls, NEW i \in DOMAIN gets, c.kind = "publish", c.here,
               gets[i].what = "projects", gets[i].for = c.id
        PROVE  ReleasesInv'
    <3>1. c.id # 0
      BY DEF BaseInv, NetInv, CallSound
    <3>2. i # k
      <4>1. ASSUME i = k PROVE FALSE
        BY <1>7, <2>4, <3>1, <4>1, FollowsCases
      <4> QED BY <4>1
    <3>3. PICK j \in DOMAIN gets' : gets'[j] = gets[i]
      BY <3>2, ListsStay
    <3>4. c.id # gets[k].for
      BY <2>4, <3>1, <3>2 DEF BaseInv, IdsInv, OneFor
    <3>5. c \in calls'
      BY <3>4, FollowsCases DEF Ends, GoesOnToRows
    <3> QED BY <2>4, <3>3, <3>5 DEF ReleasesInv
  <2>5. CASE None(gets, "rows") /\ rows = History(project)
    <3>1. None(Without(k), "rows") /\ gets[k].what # "rows"
      BY <1>1, <2>5, LastWithout DEF None
    <3> QED BY <2>1, <2>2, <2>5, <3>1 DEF ReleasesInv
  <2>6. ASSUME NEW x \in GetType, LastGet(gets, "rows", x), x.here,
               x.at = "read" /\ x.of = project => x.got = History(project)
        PROVE  ReleasesInv'
    <3>1. \/ LastGet(Without(k), "rows", x)
          \/ /\ x = gets[k] /\ x.what = "rows" /\ (Overtakes(k) \/ None(Without(k), "rows"))
             /\ \A j \in DOMAIN gets : j > k => gets[j].what # "rows"
      BY <1>1, <2>6, LastWithout
    <3>2. CASE LastGet(Without(k), "rows", x)
      <4>1. LastGet(gets', "rows", x)
        BY <2>1, <3>2
      <4> QED BY <2>2, <2>6, <4>1 DEF ReleasesInv
    <3>3. CASE /\ x = gets[k] /\ x.what = "rows" /\ (Overtakes(k) \/ None(Without(k), "rows"))
               /\ \A j \in DOMAIN gets : j > k => gets[j].what # "rows"
      <4>1. x.at = "read" /\ ~Overtakes(k) /\ ~Misses(k) /\ rows' = x.got
        BY <1>7, <2>6, <3>3
      <4>2. \A j \in (k + 1) .. Len(gets) : gets[j].what # "rows"
        BY <1>1, <3>3
      <4>3. x.of = project
        BY <3>3, <4>1, <4>2 DEF Misses
      <4>4. rows' = History(project)
        BY <2>6, <4>1, <4>3
      <4>5. None(gets', "rows")
        BY <2>1, <3>3, <4>1
      <4> QED BY <2>2, <4>4, <4>5 DEF ReleasesInv
    <3> QED BY <3>1, <3>2, <3>3
  <2> QED BY <1>7, <2>3, <2>4, <2>5, <2>6 DEF ReleasesInv
<1> QED BY <1>2, <1>5, <1>6, <1>7

LEMMA ArriveReleases == ASSUME BaseInv, ReleasesInv, NEW k \in DOMAIN gets, Arrive(k) PROVE ReleasesInv'
<1> DEFINE g == gets[k]
           l == IF g.what = "projects" THEN Reloads(g.got) ELSE << >>
<1>1. GoesOn(g) /\ gets' = Without(k) \o Follows(g) \o l /\ g.at = "read"
  BY DEF Arrive
<1>2. /\ UNCHANGED << revisions, active >>
      /\ IF g.what = "projects" THEN projects' = g.got ELSE projects' = projects
      /\ IF g.what = "rows" /\ g.here THEN rows' = g.got ELSE rows' = rows
      /\ blurred' = blurred \cup IF Overtakes(k) \/ Misses(k) THEN View(g) ELSE {}
  BY DEF Arrive, serviceVars, frameVars
<1>3. l = << >> \/ \E p \in Packs : l = << Get("rows", p, 0) >>
  BY <1>1, ArriveReloads
<1>4. g.what = "rows" => "section" \in blurred' \/ (~Overtakes(k) /\ ~Misses(k))
  BY <1>2 DEF View
<1>5. active = "Releases" /\ l = << >> => project' = project
  BY <1>2 DEF Reloads, project
<1> HIDE DEF l
<1> QED BY <1>1, <1>2, <1>3, <1>4, <1>5, ListsReleases

LEMMA GetFailsReleases == ASSUME BaseInv, ReleasesInv, NEW k \in DOMAIN gets, GetFails(k) PROVE ReleasesInv'
<1> DEFINE l == << >>
<1>1. GoesOn(gets[k]) /\ gets' = Without(k) \o Follows(gets[k]) \o l
  BY FailsGets DEF GetFails
<1>2. UNCHANGED << revisions, projects, active, rows >> /\ blurred' = blurred \cup View(gets[k])
  BY DEF GetFails, serviceVars, sectionVars
<1>3. gets[k].what = "rows" => "section" \in blurred'
  BY <1>2 DEF View
<1>4. l = << >> /\ project' = project
  BY <1>2 DEF project
<1> HIDE DEF l
<1> QED BY <1>1, <1>2, <1>3, <1>4, ListsReleases

(* Every step keeps the history on its way to what the service has.        *)
LEMMA NextReleases == BaseInv /\ ReleasesInv /\ [Next]_vars => ReleasesInv'
<1> SUFFICES ASSUME BaseInv, ReleasesInv, [Next]_vars PROVE ReleasesInv'
  OBVIOUS
<1>1. ASSUME UNCHANGED << revisions, projects, active, rows, gets, calls, blurred >> PROVE ReleasesInv'
  BY <1>1 DEF ReleasesInv, project, History
<1>2. CASE UNCHANGED vars \/ \E p \in {page - 1, page + 1} : Turn(p)
  BY <1>1, <1>2 DEF Turn, vars, serviceVars, frameVars, sectionVars, historyVars
<1>3. CASE Reboot \/ \E p \in Packs : Choose(p)
  BY <1>3 DEF Reboot, Choose, Boot, ReleasesInv
<1>4. ASSUME NEW c \in calls, CallFails(c) PROVE ReleasesInv'
  BY <1>4 DEF CallFails, ReleasesInv
<1> QED BY <1>2, <1>3, <1>4, Steps, PostsReleases, SwitchReleases, RefreshReleases, ServeReleases,
           ArriveReleases, GetFailsReleases, StoreReleases, AnswerReleases

-----------------------------------------------------------------------------
(* At rest the frame lists what the service has, the switcher has its      *)
(* packs, and the history is that of the pack in front, on a page that     *)
(* exists, although each is loaded by listings of its own that are         *)
(* answered in any order, for handlers of sections that were left too -    *)
(* as far as they were not spoilt in the ways blurred names.               *)
THEOREM FrameAndSectionAgree == Spec => []AtRestShowsService
<1>1. BaseInv /\ FrameInv /\ SettingsInv /\ ReleasesInv => AtRestShowsService
  <2> SUFFICES ASSUME BaseInv, FrameInv, SettingsInv, ReleasesInv, Quiet PROVE AtRestShowsService
    BY DEF AtRestShowsService
  <2>1. gets = << >> /\ calls = {} /\ ~reboot
    BY DEF Quiet
  <2>2. "frame" \notin blurred => projects = Listed
    BY <2>1 DEF FrameInv, LastGet
  <2>3. "section" \notin blurred /\ active = "Settings" => choices = roster
    BY <2>1 DEF SettingsInv, LastGet
  <2>4. "section" \notin blurred /\ active = "Releases" => rows = History(project)
    BY <2>1 DEF ReleasesInv, LastGet
  <2>5. page \in 1 .. Last(rows.n)
    BY DEF BaseInv, TabInv
  <2> QED BY <2>2, <2>3, <2>4, <2>5 DEF AtRestShowsService
<1>2. Spec => [](BaseInv /\ FrameInv /\ EmptyInv /\ SettingsInv /\ ReleasesInv)
  <2>1. Init => BaseInv /\ FrameInv /\ EmptyInv /\ SettingsInv /\ ReleasesInv
    BY InitBase, InitFrame, InitEmpty, InitSettings, InitReleases
  <2>2. BaseInv /\ FrameInv /\ EmptyInv /\ SettingsInv /\ ReleasesInv /\ [Next]_vars
          => (BaseInv /\ FrameInv /\ EmptyInv /\ SettingsInv /\ ReleasesInv)'
    BY NextBase, NextFrame, NextEmpty, NextSettings, NextReleases
  <2> QED BY <2>1, <2>2, PTL DEF Spec
<1> QED BY <1>1, <1>2, PTL
=============================================================================
