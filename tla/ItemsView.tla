----------------------------- MODULE ItemsView -----------------------------
(***************************************************************************)
(* The list of a pack's items,                                             *)
(* src/extension/dashboard/components/ItemsPanel.tsx: a page of a filtered *)
(* listing that the service cuts out, and the calls that change or remove  *)
(* an item.  Every handler keeps the parameters of the render it was made  *)
(* in, so that a call that is answered after the user has gone on loads    *)
(* what the user looked at before.                                         *)
(*                                                                         *)
(* One select stands for the search field and all of the filters: each of  *)
(* them shows page 1 and starts the timer of the next load anew.  The      *)
(* number of rows, the order and the time the timer takes are left out.    *)
(***************************************************************************)
EXTENDS Integers, Sequences, FiniteSets

CONSTANTS
  Items, Order,   \* the items a pack may have, and their order in a listing
  Sides, Absent,
  AllSides,            \* the filter that is not set
  Rows,           \* rows of a page
  Packs,          \* the packs to begin with
  MaxClicks       \* what the user does: the bound of every counter

ASSUME ItemsAssumption ==
  /\ Order \in Seq(Items) /\ \A i \in Items : \E k \in DOMAIN Order : Order[k] = i
  /\ Absent \notin Sides /\ AllSides \notin Sides
  /\ Packs \subseteq [Items -> Sides \cup {Absent}]
ASSUME RowsAssumption == Rows \in Nat \ {0} /\ MaxClicks \in Nat

VARIABLES
  pack,      \* the side of every item of the pack
  page, filter,
  shown,     \* the rows listed: the side that each of them shows
  total,
  timer,     \* a load will be begun
  loading,
  loads,     \* listings on their way, in the order they were begun
  calls,     \* mutations on their way
  blurred,   \* history: since the last load of what is shown was begun, something
             \* failed, overtook another answer, or loaded what is shown no more
  clicks     \* history: how often the user acted

paramVars == << page, filter, timer >>
rowVars == << shown, total >>
loadVars == << loading, loads, blurred >>
listVars == << pack, paramVars, rowVars, loadVars, calls, clicks >>

Filters == Sides \cup {AllSides}
Params == [page : Nat \ {0}, filter : Filters]
Shown == UNION {[I -> Sides] : I \in SUBSET Items}
Replies == [items : Shown, total : Nat, page : Nat \ {0}]
NoReply == [items |-> << >>, total |-> 0, page |-> 1]
NoRows == [i \in {} |-> AllSides]

params == [page |-> page, filter |-> filter]

-----------------------------------------------------------------------------
(* What the service lists: the page asked for, or the last one.            *)
Pages(n) == (n + Rows - 1) \div Rows

(* The places in Order of the items that match.                            *)
Matching(f) ==
  {k \in DOMAIN Order : pack[Order[k]] # Absent /\ f \in {AllSides, pack[Order[k]]}}

Clamped(p, n) == IF n > 0 /\ p > Pages(n) THEN Pages(n) ELSE p

Reply(q) ==
  LET all == Matching(q.filter)
      n == Cardinality(all)
      p == Clamped(q.page, n)
      rank(k) == Cardinality({j \in all : j <= k})
      cut == {Order[k] : k \in {k \in all : rank(k) > (p - 1) * Rows /\ rank(k) <= p * Rows}}
  IN  [items |-> [i \in cut |-> pack[i]], total |-> n, page |-> p]

-----------------------------------------------------------------------------
ListInit ==
  /\ pack \in Packs
  /\ page = 1 /\ filter = AllSides
  /\ shown = NoRows /\ total = 0
  /\ timer = TRUE
  /\ loading = FALSE /\ loads = << >>
  /\ calls = {}
  /\ blurred = FALSE
  /\ clicks = 0

(* load, as the handler of a render with the parameters q calls it.        *)
Load(q) ==
  /\ loads' = Append(loads, [ask |-> q, at |-> "sent", got |-> NoReply])
  /\ loading' = TRUE
  /\ blurred' = (q # params)

(* The timer of the last render fires.                                     *)
Fire ==
  /\ timer
  /\ timer' = FALSE
  /\ Load(params)
  /\ UNCHANGED << pack, page, filter, rowVars, calls, clicks >>

Serve(k) ==
  /\ loads[k].at = "sent"
  /\ loads' = [loads EXCEPT ![k].at = "read", ![k].got = Reply(loads[k].ask)]
  /\ UNCHANGED << pack, paramVars, rowVars, loading, calls, blurred, clicks >>

Without(s, k) == SubSeq(s, 1, k - 1) \o SubSeq(s, k + 1, Len(s))

(* setPage: a new value is a new render, whose effect starts the timer.    *)
ShowPage(p) ==
  /\ page' = p
  /\ timer' = (timer \/ p # page)

(* Mutant: the page the service chose is not taken over.                   *)
ArriveOwnPage(k) ==
  /\ loads[k].at = "read"
  /\ loads' = Without(loads, k) /\ loading' = FALSE
  /\ shown' = loads[k].got.items /\ total' = loads[k].got.total
  /\ blurred' = (blurred \/ k # 1)
  /\ UNCHANGED << pack, paramVars, calls, clicks >>

Arrive(k) ==
  /\ loads[k].at = "read"
  /\ loads' = Without(loads, k) /\ loading' = FALSE
  /\ shown' = loads[k].got.items /\ total' = loads[k].got.total
  /\ IF loads[k].got.page # loads[k].ask.page
     THEN ShowPage(loads[k].got.page)
     ELSE UNCHANGED << page, timer >>
  /\ blurred' = (blurred \/ k # 1)
  /\ UNCHANGED << pack, filter, calls, clicks >>

(* Mutant: the spinner is released only by rows.                           *)
LoadFailsSpinning(k) ==
  /\ loads' = Without(loads, k)
  /\ blurred' = (blurred \/ k = Len(loads))
  /\ UNCHANGED << pack, paramVars, rowVars, loading, calls, clicks >>

(* The rows stay, under the number of another page perhaps.                *)
LoadFails(k) ==
  /\ loads' = Without(loads, k) /\ loading' = FALSE
  /\ blurred' = (blurred \/ k = Len(loads))
  /\ UNCHANGED << pack, paramVars, rowVars, calls, clicks >>

-----------------------------------------------------------------------------
(* What the user does.                                                     *)
Click ==
  /\ clicks < MaxClicks
  /\ clicks' = clicks + 1

(* A filter or the search text; a second effect shows page 1.              *)
Narrow(f) ==
  /\ Click
  /\ f # filter
  /\ filter' = f /\ page' = 1 /\ timer' = TRUE
  /\ UNCHANGED << pack, rowVars, loadVars, calls >>

(* The buttons under the table; there are none under an empty one.         *)
Turn(p) ==
  /\ Click
  /\ ~loading /\ DOMAIN shown # {}
  /\ \/ p = page - 1 /\ page > 1
     \/ p = page + 1 /\ page < Pages(total)
  /\ ShowPage(p)
  /\ UNCHANGED << pack, filter, rowVars, loadVars, calls >>

Refresh ==
  /\ Click
  /\ ~loading
  /\ Load(params)
  /\ UNCHANGED << pack, paramVars, rowVars, calls >>

Call(kind, i, s) ==
  [id |-> clicks', kind |-> kind, item |-> i, side |-> s, ask |-> params,
   only |-> DOMAIN shown = {i}, at |-> "posting"]

SetSide(i, s) ==
  /\ Click
  /\ i \in DOMAIN shown /\ s # shown[i]
  /\ calls' = calls \cup {Call("side", i, s)}
  /\ UNCHANGED << pack, paramVars, rowVars, loadVars >>

Remove(i) ==
  /\ Click
  /\ i \in DOMAIN shown
  /\ calls' = calls \cup {Call("remove", i, Absent)}
  /\ UNCHANGED << pack, paramVars, rowVars, loadVars >>

(* The service finds the item, or refuses.                                 *)
Store(c) ==
  /\ c.at = "posting"
  /\ pack[c.item] # Absent
  /\ pack' = [pack EXCEPT ![c.item] = c.side]
  /\ calls' = (calls \ {c}) \cup {[c EXCEPT !.at = "stored"]}
  /\ UNCHANGED << paramVars, rowVars, loadVars, clicks >>

(* Removing the only row of a page shows the page before, and the load is  *)
(* left to the effect, which does not run when that page is shown already; *)
(* all else loads what the handler's render showed.                        *)
Answer(c) ==
  /\ c.at = "stored"
  /\ calls' = calls \ {c}
  /\ IF c.kind = "remove" /\ c.only /\ c.ask.page > 1
     THEN /\ ShowPage(c.ask.page - 1)
          /\ blurred' = (blurred \/ c.ask.page - 1 = page)
          /\ UNCHANGED << loading, loads >>
     ELSE /\ Load(c.ask)
          /\ UNCHANGED << page, timer >>
  /\ UNCHANGED << pack, filter, rowVars, clicks >>

(* Refused, or the answer was lost: nothing is loaded.                     *)
CallFails(c) ==
  /\ calls' = calls \ {c}
  /\ pack' \in {pack} \cup
       IF c.at = "posting" /\ pack[c.item] # Absent
       THEN {[pack EXCEPT ![c.item] = c.side]} ELSE {}
  /\ blurred' = TRUE
  /\ UNCHANGED << paramVars, rowVars, loading, loads, clicks >>

-----------------------------------------------------------------------------
ListClicks ==
  \/ \E f \in Filters : Narrow(f)
  \/ \E p \in {page - 1, page + 1} : Turn(p)
  \/ Refresh
  \/ \E i \in Items : Remove(i) \/ \E s \in Sides : SetSide(i, s)

AnswerLoad == \E k \in DOMAIN loads : Serve(k) \/ Arrive(k) \/ LoadFails(k)
AnswerCall == \E c \in calls : Store(c) \/ Answer(c) \/ CallFails(c)

ListNext == ListClicks \/ Fire \/ AnswerLoad \/ AnswerCall

ShowsPack == [items |-> shown, total |-> total, page |-> page] = Reply(params)

ListQuiet == ~timer /\ loads = << >> /\ calls = {}

-----------------------------------------------------------------------------
(* Properties.                                                             *)

ListTypeOK ==
  /\ pack \in [Items -> Sides \cup {Absent}]
  /\ params \in Params
  /\ shown \in Shown /\ total \in Nat
  /\ timer \in BOOLEAN /\ loading \in BOOLEAN
  /\ \A k \in DOMAIN loads :
       loads[k] \in [ask : Params, at : {"sent", "read"}, got : Replies]
  /\ \A c \in calls : c.item \in Items /\ c.side \in Sides \cup {Absent} /\ c.ask \in Params
  /\ blurred \in BOOLEAN /\ clicks \in Nat
=============================================================================
