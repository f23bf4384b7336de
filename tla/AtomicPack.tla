----------------------------- MODULE AtomicPack -----------------------------
(***************************************************************************)
(* What a mutation of a pack promises its caller.  A project is two things *)
(* that must agree: the rows the database commits and the files of the     *)
(* working tree.  A request either changes both in one step or leaves both *)
(* alone.  An edit is answered "ok" exactly when it changed them.  So is a *)
(* replacement by an archive that is answered "ok"; one that is answered   *)
(* with an error may have changed both all the same.                       *)
(* ProjectStore is shown to implement this, through the many steps that    *)
(* MutateAndCommit takes.                                                  *)
(***************************************************************************)
CONSTANTS Editors, Projects

VARIABLES
  rows,     \* rows[p]: the changes whose rows are committed
  files,    \* files[p]: the changes a reader of the pack sees on disk
  outcome,  \* what became of each request: rejected, or the change it made
  answer    \* what its caller has been told

vars == << rows, files, outcome, answer >>

Init ==
  /\ rows = [p \in Projects |-> {}]
  /\ files = [p \in Projects |-> {}]
  /\ outcome = [r \in Editors |-> "pending"]
  /\ answer = [r \in Editors |-> "none"]

Store(r, p, pack, how) ==
  /\ outcome[r] = "pending"
  /\ rows' = [rows EXCEPT ![p] = pack]
  /\ files' = [files EXCEPT ![p] = pack]
  /\ outcome' = [outcome EXCEPT ![r] = how]
  /\ UNCHANGED answer

(* An edit adds its change to the pack; an archive that replaces the pack  *)
(* leaves its own content only.                                            *)
Edit(r, p) == Store(r, p, rows[p] \cup {r}, "edit")
Replace(r, p) == Store(r, p, {r}, "replace")

Reject(r) ==
  /\ outcome[r] = "pending"
  /\ outcome' = [outcome EXCEPT ![r] = "rejected"]
  /\ UNCHANGED << rows, files, answer >>

Answers(how) == CASE how = "edit" -> {"ok"}
                  [] how = "replace" -> {"ok", "error"}
                  [] how = "rejected" -> {"error"}

Answer(r) ==
  /\ answer[r] = "none"
  /\ outcome[r] # "pending"
  /\ \E told \in Answers(outcome[r]) : answer' = [answer EXCEPT ![r] = told]
  /\ UNCHANGED << rows, files, outcome >>

Next ==
  \E r \in Editors :
    \/ \E p \in Projects : Edit(r, p) \/ Replace(r, p)
    \/ Reject(r)
    \/ Answer(r)

Spec == Init /\ [][Next]_vars
=============================================================================
