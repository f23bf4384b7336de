-------------------------- MODULE PublishingProofs --------------------------
(***************************************************************************)
(* Proofs about Publishing, for any number of mutations, publications,     *)
(* rollbacks and projects.                                                 *)
(*                                                                         *)
(* What is true of ProjectStore alone has to stay true next to publishers: *)
(* HoldInv says who holds which mutex, so that the lemmas on a mutation's  *)
(* steps carry over and a publisher finds the tree it looked at.  Numbered *)
(* says where the numbers of revisions come from, KeptInv that nothing is  *)
(* linked or recorded that is not there; the three hold under every fault. *)
(* AgreeInv and StagedInv, with DoubtInv of ProjectStoreProofs, need       *)
(* Reliable.                                                               *)
(***************************************************************************)
EXTENDS Publishing, ProjectStoreProofs, FiniteSetTheorems, WellFoundedInduction

(* The steps a publisher takes with the mutex of its project held.         *)
Holding == { "prepare", "copy", "promote", "begin", "switch", "commit", "relink",
             "tidy", "unlock" }

PublisherHolds ==
  \A q \in Publishers, p \in Projects :
    mutex[p] = q <=> ppc[q] \in Holding /\ pproj[q] = p

HoldInv == PublishingTypeOK /\ LockHeld /\ TreeThere /\ PublisherHolds

(* The steps of an editor and of a publisher, as the system takes them.    *)
Edit(r) == (Begin(r) \/ Handle(r) \/ Cancel(r) \/ AutoRollback(r)) /\ UNCHANGED publishVars
Publish(q) == PBegin(q) \/ PHandle(q) \/ PCancel(q) \/ PAutoRollback(q)

(* The system steps by one editor, by one publisher, or by a restart.      *)
LEMMA SystemSteps ==
  ASSUME [SystemNext]_systemVars
  PROVE  \/ \E r \in Editors : Edit(r)
         \/ \E q \in Publishers : Publish(q)
         \/ SystemCrash
         \/ UNCHANGED systemVars
BY DEF SystemNext, SystemAnswered, Edit, Publish

-----------------------------------------------------------------------------
(* The number a publication takes.                                         *)

(* A set of numbers up to N that holds 0 has a largest member.             *)
LEMMA MaxOfBounded ==
  ASSUME NEW N \in Nat, NEW S \in SUBSET (0 .. N), S # {}
  PROVE  Max(S) \in S /\ \A y \in S : y <= Max(S)
<1> DEFINE D == {d \in 0 .. N : N - d \in S}
<1>1. PICK y \in S : TRUE
  OBVIOUS
<1>2. N - y \in D
  BY <1>1
<1>3. D # {} /\ D \subseteq Nat
  BY <1>2
<1>4. PICK d \in D : \A e \in D : ~(<< e, d >> \in OpToRel(<, Nat))
  <2> HIDE DEF D
  <2> QED BY <1>3, WFMin, NatLessThanWellFounded
<1>5. d \in Nat /\ N - d \in S
  OBVIOUS
<1>6. ASSUME NEW x \in S PROVE x <= N - d
  <2>1. N - x \in D /\ N - x \in Nat
    OBVIOUS
  <2>2. OpToRel(<, Nat) = {ss \in Nat \X Nat : ss[1] < ss[2]}
    BY Zenon DEF OpToRel
  <2>3. ~(<< N - x, d >> \in {ss \in Nat \X Nat : ss[1] < ss[2]})
    BY <1>4, <2>1, <2>2
  <2>4. ~(N - x < d)
    BY <1>5, <2>1, <2>3
  <2>5. x \in 0 .. N
    OBVIOUS
  <2> HIDE DEF D
  <2> QED BY <1>5, <2>4, <2>5
<1>7. \E x \in S : \A z \in S : x >= z
  BY <1>5, <1>6
<1> QED BY <1>7 DEF Max

(* Publishers that publish a pack, in the order of their numbers: every    *)
(* number up to theirs was taken by one of them, every recorded revision   *)
(* was published, and a rollback names a recorded one.                     *)
Takes(s, p, n) == pop[s] = "publish" /\ pproj[s] = p /\ number[s] = n

Numbered ==
  /\ \A q \in Publishers : ppc[q] \in {"idle", "lock", "prepare"} => number[q] = 0
  /\ \A q \in Publishers : ppc[q] \in {"copy", "promote", "begin", "switch", "commit", "relink"}
       => number[q] \in Numbers
  /\ \A q \in Publishers : \A k \in 1 .. number[q] :
       pop[q] = "publish" => \E s \in Publishers : Takes(s, pproj[q], k)
  /\ \A p \in Projects : \A n \in revisions[p] : \E s \in Publishers : Takes(s, p, n)
  /\ \A q \in Publishers : pop[q] = "rollback" /\ number[q] # 0 =>
       number[q] \in revisions[pproj[q]]

(* The numbers of a project, up to any recorded one, are taken.            *)
LEMMA NumbersTaken ==
  ASSUME PublishingTypeOK, Numbered, NEW p \in Projects, NEW n \in revisions[p],
         NEW k \in 1 .. n
  PROVE  \E s \in Publishers : Takes(s, p, k)
<1>1. PICK s \in Publishers : Takes(s, p, n)
  BY DEF Numbered
<1>2. pop[s] = "publish" /\ pproj[s] = p /\ k \in 1 .. number[s]
  BY <1>1 DEF Takes
<1> QED BY <1>2 DEF Numbered

(* A request that has no number yet finds one: each of the numbers before  *)
(* it belongs to another request.                                          *)
LEMMA NextNumberFits ==
  ASSUME PublishingTypeOK, Numbered, NEW q \in Publishers, number[q] = 0
  PROVE  /\ NextNumber(pproj[q]) \in Numbers
         /\ NextNumber(pproj[q]) - 1 \in revisions[pproj[q]] \cup {0}
<1> DEFINE p == pproj[q]
           m == Max(revisions[p] \cup {0})
           C == Cardinality(Publishers)
           f == [k \in 1 .. m |-> CHOOSE s \in Publishers : Takes(s, p, k)]
<1>1. C \in Nat /\ IsFiniteSet(Publishers)
  BY PublishersAssumption, FS_CardinalityType
<1>2. p \in Projects /\ revisions[p] \cup {0} \in SUBSET (0 .. C)
  BY <1>1 DEF PublishingTypeOK, Numbers
<1>3. m \in revisions[p] \cup {0}
  <2> HIDE DEF p, C
  <2> QED BY <1>1, <1>2, MaxOfBounded
<1>4. m \in Nat
  BY <1>1, <1>2, <1>3
<1>5. ASSUME NEW k \in 1 .. m PROVE f[k] \in Publishers \ {q} /\ number[f[k]] = k
  <2>1. m \in revisions[p]
    BY <1>3, <1>5
  <2>2. \E s \in Publishers : Takes(s, p, k)
    <3> HIDE DEF p, m
    <3> QED BY <1>2, <2>1, NumbersTaken
  <2>3. f[k] \in Publishers /\ Takes(f[k], p, k)
    BY <2>2
  <2>4. k # 0
    BY <1>4
  <2> QED BY <2>3, <2>4 DEF Takes
<1>6. f \in Injection(1 .. m, Publishers \ {q})
  <2>1. f \in [1 .. m -> Publishers \ {q}]
    BY <1>5
  <2>2. \A k, l \in 1 .. m : f[k] = f[l] => k = l
    BY <1>5
  <2> HIDE DEF f
  <2> QED BY <2>1, <2>2 DEF Injection, IsInjective
<1>7. IsFiniteSet(Publishers \ {q}) /\ Cardinality(Publishers \ {q}) = C - 1
  BY <1>1, FS_RemoveElement
<1>8. Cardinality(1 .. m) <= C - 1
  <2> HIDE DEF f, m, C
  <2> QED BY <1>6, <1>7, FS_Injection
<1>9. Cardinality(1 .. m) = m
  <2> HIDE DEF m
  <2> QED BY <1>4, FS_Interval
<1>10. NextNumber(p) = 1 + m
  BY DEF NextNumber
<1> HIDE DEF m, C, f, p
<1>11. 1 + m \in 1 .. C /\ (1 + m) - 1 = m
  BY <1>1, <1>4, <1>8, <1>9
<1> QED BY <1>3, <1>10, <1>11 DEF Numbers, C, p

-----------------------------------------------------------------------------
(* Who holds which mutex.                                                  *)

(* An editor touches no pack whose mutex a publisher holds.                *)
LEMMA EditorsKeepOut ==
  ASSUME HoldInv, NEW r \in Editors, Edit(r)
  PROVE  /\ [Next]_storeVars /\ UNCHANGED publishVars
         /\ \A p \in Projects :
              mutex[p] \in Publishers \/ mutex'[p] \in Publishers => mutex'[p] = mutex[p]
         /\ \A p \in Projects :
              mutex[p] \in Publishers => tree'[p] = tree[p] /\ rows'[p] = rows[p]
<1>1. Next /\ UNCHANGED publishVars
  BY DEF Edit, Next
<1>2. UNCHANGED mutex \/ LockProject(r) \/ Unlock(r)
  BY DEF Edit, Handle, Begin, Cancel, AutoRollback, Stage, StageFails, CopyTree, CopyFails,
         WriteFiles, WipeTree, FillTree, FillFails, Refresh, ApplyFails, Commit, CommitFails,
         MoveAside, MoveAsideFails, Restore, RestoreFails, Purge, DropBackup, End,
         ReadBackFails, Unread
<1>3. \/ UNCHANGED << tree, rows >>
      \/ /\ pc[r] \in Locked
         /\ \A p \in Projects \ {proj[r]} : tree'[p] = tree[p] /\ rows'[p] = rows[p]
  <2>1. CASE \/ Begin(r) \/ Cancel(r) \/ AutoRollback(r) \/ Stage(r) \/ StageFails(r)
             \/ LockProject(r) \/ CopyTree(r) \/ CopyFails(r) \/ FillFails(r) \/ CommitFails(r)
             \/ MoveAsideFails(r) \/ Purge(r) \/ DropBackup(r) \/ Unlock(r) \/ End(r)
             \/ ReadBackFails(r)
    BY <2>1 DEF Begin, Cancel, AutoRollback, Stage, StageFails, LockProject, CopyTree, CopyFails,
                FillFails, CommitFails, MoveAsideFails, Purge, DropBackup, Unlock, End, ReadBackFails,
                Unread, diskVars
  <2>2. CASE WriteFiles(r) \/ WipeTree(r) \/ FillTree(r) \/ Refresh(r) \/ ApplyFails(r)
    BY <2>2 DEF WriteFiles, WipeTree, FillTree, Refresh, ApplyFails, Jump, Locked, HoldInv,
                PublishingTypeOK, TypeOK
  <2>3. CASE Commit(r) \/ MoveAside(r) \/ Restore(r) \/ RestoreFails(r)
    BY <2>3 DEF Commit, MoveAside, Restore, RestoreFails, Jump, Locked, diskVars, HoldInv,
                PublishingTypeOK, TypeOK
  <2> QED BY <2>1, <2>2, <2>3 DEF Edit, Handle
<1>4. pc[r] \in Locked => mutex[proj[r]] = r
  BY DEF HoldInv, LockHeld, PublishingTypeOK, TypeOK
<1>5. NoOne \notin Publishers /\ r \notin Publishers
  BY EditorsAssumption, PublishersAssumption
<1>6. ASSUME NEW p \in Projects, mutex[p] \in Publishers \/ mutex'[p] \in Publishers
      PROVE  mutex'[p] = mutex[p]
  BY <1>2, <1>4, <1>5, <1>6
     DEF LockProject, Unlock, Jump, Locked, HoldInv, PublishingTypeOK, TypeOK
<1>7. ASSUME NEW p \in Projects, mutex[p] \in Publishers
      PROVE  tree'[p] = tree[p] /\ rows'[p] = rows[p]
  BY <1>3, <1>4, <1>5, <1>7
<1> QED BY <1>1, <1>6, <1>7

(* A publisher touches nothing of a pack but its index, and that only when *)
(* the tree is there and its mutex is the publisher's.                     *)
LEMMA PublishersKeepOut ==
  ASSUME HoldInv, NEW q \in Publishers, Publish(q)
  PROVE  /\ UNCHANGED << editorVars, pproj, pop >>
         /\ UNCHANGED mutex \/ PLock(q) \/ PUnlock(q)
         /\ UNCHANGED tree \/ Prepare(q)
         /\ writer' \in {writer, q, NoOne}
BY DEF Publish, PHandle, PBegin, PCancel, PAutoRollback, PLock, Prepare, SelectRevision,
       PrepareFails, StageCopy, StageCopyFails, Promote, PromoteFails, PStage, PStageFails,
       Switch, SwitchFails, PCommit, PCommitFails, Relink, RelinkFails, Tidy, PUnlock,
       editorVars, storeVars, publishVars, diskVars, publisherVars

(* Nothing is held and nothing numbered before the first request.          *)
LEMMA InitHold == SystemInit => HoldInv /\ Numbered
<1> SUFFICES ASSUME SystemInit PROVE HoldInv /\ Numbered
  OBVIOUS
<1>1. LockInv /\ mutex = [p \in Projects |-> NoOne]
  BY InitLockInv DEF SystemInit, Init
<1>2. PublisherHolds /\ Numbered
  BY <1>1, EditorsAssumption, PublishersAssumption
     DEF SystemInit, PublishInit, PublisherHolds, Holding, Numbered
<1>3. PublishingTypeOK
  BY <1>1 DEF SystemInit, PublishInit, PublishingTypeOK, LockInv, PublishSteps
<1> QED BY <1>1, <1>2, <1>3 DEF HoldInv, LockInv

(* Between mutations and publications nothing of a mutation's locks and    *)
(* trees is disturbed.                                                     *)
LEMMA PublisherKeepsLocks ==
  ASSUME HoldInv, NEW q \in Publishers, Publish(q)
  PROVE  TypeOK' /\ LockHeld' /\ TreeThere'
<1>1. q \notin Editors /\ q # NoOne /\ q \in Holders
  BY PublishersAssumption, EditorsAssumption
<1>2. CASE UNCHANGED << mutex, tree >>
  BY <1>1, <1>2, PublishersKeepOut
     DEF HoldInv, PublishingTypeOK, TypeOK, LockHeld, TreeThere, editorVars, requestVars
<1>3. CASE PLock(q)
  BY <1>1, <1>3, EditorsAssumption
     DEF PLock, HoldInv, PublishingTypeOK, TypeOK, LockHeld, TreeThere, editorVars, requestVars
<1>4. CASE PUnlock(q)
  <2>1. mutex[pproj[q]] = q
    BY <1>4 DEF PUnlock, Goto, HoldInv, PublishingTypeOK, PublisherHolds, Holding
  <2> QED BY <1>1, <1>4, <2>1, EditorsAssumption
          DEF PUnlock, HoldInv, PublishingTypeOK, TypeOK, LockHeld, TreeThere, editorVars,
              requestVars
<1>5. CASE Prepare(q)
  <2> DEFINE p == pproj[q]
             t == [tree[p] EXCEPT !.index = tree[p].files]
  <2>1. tree[p] \in Trees /\ p \in Projects
    BY <1>5 DEF Prepare, HoldInv, PublishingTypeOK, TypeOK
  <2>2. t \in Trees
    BY <2>1 DEF Trees
  <2>3. tree' = [tree EXCEPT ![p] = t]
    BY <1>5 DEF Prepare
  <2> HIDE DEF t, p
  <2>4. tree' \in [Projects -> Trees \cup {NoTree}]
        /\ \A d \in Projects : tree[d] \in Trees => tree'[d] \in Trees
    BY <2>1, <2>2, <2>3 DEF HoldInv, PublishingTypeOK, TypeOK
  <2>5. UNCHANGED << editorVars, writer, mutex >>
    BY <1>5 DEF Prepare
  <2>6. TypeOK'
    BY <2>4, <2>5 DEF HoldInv, PublishingTypeOK, TypeOK, editorVars, requestVars
  <2>7. LockHeld' /\ TreeThere'
    BY <2>4, <2>5 DEF HoldInv, PublishingTypeOK, TypeOK, LockHeld, TreeThere, editorVars,
                      requestVars
  <2> QED BY <2>6, <2>7
<1> QED BY <1>2, <1>3, <1>4, <1>5, PublishersKeepOut DEF PLock, PUnlock, Prepare

(* The mutex of its project, and no other, is a publisher's between its    *)
(* lock and its unlock.                                                    *)
LEMMA PublisherKeepsHolds ==
  ASSUME HoldInv, NEW q \in Publishers, Publish(q)
  PROVE  PublisherHolds'
<1> USE DEF HoldInv, PublishingTypeOK, PublisherHolds, Holding, Goto, publisherVars
<1>1. NoOne \notin Publishers
  BY PublishersAssumption, EditorsAssumption
<1>2. CASE PLock(q)
  BY <1>1, <1>2 DEF PLock, TypeOK
<1>3. CASE PUnlock(q)
  BY <1>1, <1>3 DEF PUnlock, TypeOK
<1>4. CASE PBegin(q) \/ PCancel(q) \/ PAutoRollback(q)
  BY <1>4 DEF PBegin, PCancel, PAutoRollback, storeVars, publishVars
<1>5. CASE Prepare(q) \/ SelectRevision(q) \/ PrepareFails(q) \/ StageCopy(q) \/ StageCopyFails(q)
           \/ Promote(q) \/ PromoteFails(q)
  BY <1>5 DEF Prepare, SelectRevision, PrepareFails, StageCopy, StageCopyFails, Promote,
              PromoteFails, storeVars
<1>6. CASE PStage(q) \/ PStageFails(q) \/ Switch(q) \/ SwitchFails(q) \/ PCommit(q)
           \/ PCommitFails(q) \/ Relink(q) \/ RelinkFails(q) \/ Tidy(q)
  BY <1>6 DEF PStage, PStageFails, Switch, SwitchFails, PCommit, PCommitFails, Relink,
              RelinkFails, Tidy, storeVars
<1> QED BY <1>2, <1>3, <1>4, <1>5, <1>6 DEF Publish, PHandle

(* A step of a publisher that leaves the numbers and the records alone.    *)
LEMMA SameNumbers ==
  ASSUME PublishingTypeOK, Numbered, UNCHANGED << pproj, pop, number, revisions >>,
         \A s \in Publishers :
           /\ ppc'[s] \in {"idle", "lock", "prepare"} => ppc[s] \in {"idle", "lock", "prepare"}
           /\ ppc'[s] \in {"copy", "promote", "begin", "switch", "commit", "relink"}
                => ppc[s] \in {"copy", "promote", "begin", "switch", "commit", "relink"}
  PROVE  Numbered'
BY DEF Numbered, Takes

(* The numbers a publisher takes or names are in range, and each is one    *)
(* more than those taken before.                                           *)
LEMMA PublisherKeepsNumbers ==
  ASSUME HoldInv, Numbered, NEW q \in Publishers, Publish(q)
  PROVE  Numbered'
<1> USE DEF HoldInv, PublishingTypeOK, Goto, publisherVars
<1>1. CASE PBegin(q) \/ PLock(q) \/ PCancel(q) \/ PAutoRollback(q) \/ PrepareFails(q)
  BY <1>1, SameNumbers DEF PBegin, PLock, PCancel, PAutoRollback, PrepareFails, publishVars,
                           recordVars
<1>2. CASE StageCopy(q) \/ StageCopyFails(q) \/ Promote(q) \/ PromoteFails(q) \/ PStage(q)
           \/ PStageFails(q)
  BY <1>2, SameNumbers DEF StageCopy, StageCopyFails, Promote, PromoteFails, PStage, PStageFails,
                           recordVars
<1>3. CASE Switch(q) \/ SwitchFails(q) \/ PCommitFails(q) \/ Relink(q) \/ RelinkFails(q)
           \/ Tidy(q) \/ PUnlock(q)
  BY <1>3, SameNumbers DEF Switch, SwitchFails, PCommitFails, Relink, RelinkFails, Tidy, PUnlock,
                           recordVars
<1>4. CASE Prepare(q)
  <2> DEFINE n == NextNumber(pproj[q])
  <2>1. number[q] = 0 /\ pop[q] = "publish" /\ ppc[q] = "prepare"
    BY <1>4 DEF Prepare, Numbered
  <2>2. n \in Numbers /\ n \in Nat /\ n - 1 \in revisions[pproj[q]] \cup {0}
    BY <2>1, NextNumberFits DEF Numbers
  <2>3. number' = [number EXCEPT ![q] = n] /\ UNCHANGED << pproj, pop, revisions >>
        /\ ppc' = [ppc EXCEPT ![q] = "copy"]
    BY <1>4 DEF Prepare, recordVars
  <2> HIDE DEF n
  <2>4. ASSUME NEW s \in Publishers, NEW p \in Projects, NEW k \in Nat \ {0}, Takes(s, p, k)
        PROVE  Takes(s, p, k)'
    BY <2>1, <2>3, <2>4 DEF Takes
  <2>5. ASSUME NEW s \in Publishers, NEW k \in 1 .. number'[s], pop'[s] = "publish"
        PROVE  \E t \in Publishers : Takes(t, pproj[s], k)'
    <3>1. CASE s # q
      BY <2>3, <2>4, <2>5, <3>1 DEF Numbered, Numbers
    <3>2. CASE s = q /\ k = n
      BY <2>1, <2>3, <3>2 DEF Takes
    <3>3. CASE s = q /\ k # n
      <4>1. k \in 1 .. (n - 1) /\ n - 1 \in revisions[pproj[q]]
        BY <2>2, <2>3, <2>5, <3>3
      <4> QED BY <2>3, <2>4, <3>3, <4>1, NumbersTaken
    <3> QED BY <3>1, <3>2, <3>3
  <2>6. ASSUME NEW p \in Projects, NEW m \in revisions[p]
        PROVE  \E s \in Publishers : Takes(s, p, m)'
    BY <2>4 DEF Numbered, Numbers
  <2> QED BY <2>1, <2>2, <2>3, <2>5, <2>6 DEF Numbered
<1>5. CASE SelectRevision(q)
  <2>1. PICK n \in revisions[pproj[q]] : number' = [number EXCEPT ![q] = n]
    BY <1>5 DEF SelectRevision
  <2>2. n \in Numbers
    OBVIOUS
  <2>3. pop[q] = "rollback" /\ UNCHANGED << pproj, pop, revisions >>
        /\ ppc' = [ppc EXCEPT ![q] = "begin"]
    BY <1>5 DEF SelectRevision, recordVars
  <2>4. ASSUME NEW s \in Publishers, NEW p \in Projects, NEW k \in Nat, Takes(s, p, k)
        PROVE  Takes(s, p, k)'
    BY <2>1, <2>3, <2>4 DEF Takes
  <2>5. \A s \in Publishers : pop[s] = "publish" => number'[s] = number[s]
    BY <2>1, <2>3
  <2> QED BY <2>1, <2>2, <2>3, <2>4, <2>5 DEF Numbered, Numbers
<1>6. CASE PCommit(q)
  <2>1. number[q] \in Numbers /\ number[q] # 0
    BY <1>6 DEF PCommit, Numbered, Numbers
  <2>2. \E s \in Publishers : Takes(s, pproj[q], number[q])
    BY <2>1 DEF Numbered, Takes
  <2>3. /\ UNCHANGED << pproj, pop, number >> /\ ppc' = [ppc EXCEPT ![q] = "tidy"]
        /\ revisions' = [revisions EXCEPT ![pproj[q]] = @ \cup {number[q]}]
    BY <1>6 DEF PCommit
  <2> QED BY <2>1, <2>2, <2>3 DEF Numbered, Takes
<1> QED BY <1>1, <1>2, <1>3, <1>4, <1>5, <1>6 DEF Publish, PHandle

(* No step of a publisher leaves a range.                                  *)
LEMMA PublisherKeepsTypes ==
  ASSUME HoldInv, Numbered, NEW q \in Publishers, Publish(q)
  PROVE  PublishingTypeOK'
<1>1. TypeOK'
  BY PublisherKeepsLocks
<1> USE DEF HoldInv, PublishingTypeOK, Goto, PErr, PublishSteps, publisherVars, releaseVars,
            recordVars
<1>2. CASE PBegin(q) \/ PLock(q) \/ PCancel(q) \/ PAutoRollback(q) \/ PrepareFails(q)
           \/ StageCopyFails(q) \/ PromoteFails(q) \/ PStage(q) \/ PStageFails(q)
           \/ PCommitFails(q) \/ PUnlock(q)
  BY <1>1, <1>2 DEF PBegin, PLock, PCancel, PAutoRollback, PrepareFails, StageCopyFails,
                    PromoteFails, PStage, PStageFails, PCommitFails, PUnlock, publishVars
<1>3. CASE Prepare(q)
  <2>1. NextNumber(pproj[q]) \in Numbers
    BY <1>3, NextNumberFits DEF Prepare, Numbered
  <2> QED BY <1>1, <1>3, <2>1 DEF Prepare
<1>4. CASE SelectRevision(q)
  BY <1>1, <1>4 DEF SelectRevision
<1>5. CASE StageCopy(q) \/ Tidy(q)
  <2>1. staging' \in [Publishers -> Trees \cup {NoTree}]
    <3>1. CASE StageCopy(q)
      <4>1. tree[pproj[q]] \in Trees \cup {NoTree}
        BY DEF TypeOK
      <4> QED BY <3>1, <4>1 DEF StageCopy
    <3>2. CASE Tidy(q)
      BY <3>2 DEF Tidy
    <3> QED BY <1>5, <3>1, <3>2
  <2>2. ppc' \in [Publishers -> PublishSteps]
    BY <1>5 DEF StageCopy, Tidy
  <2> QED BY <1>1, <1>5, <2>1, <2>2 DEF StageCopy, Tidy
<1>6. CASE Promote(q)
  BY <1>1, <1>6 DEF Promote
<1>7. CASE Switch(q) \/ SwitchFails(q) \/ Relink(q) \/ RelinkFails(q)
  <2>1. link' \in [Projects -> Numbers \cup {0}]
    <3>1. link' \in { link, [link EXCEPT ![pproj[q]] = number[q]],
                      [link EXCEPT ![pproj[q]] = previous[q]], [link EXCEPT ![pproj[q]] = 0] }
      BY <1>7 DEF Switch, SwitchFails, Relink, RelinkFails
    <3>2. number[q] \in Numbers \cup {0} /\ previous[q] \in Numbers \cup {0}
      OBVIOUS
    <3> QED BY <3>1, <3>2
  <2>2. previous' \in [Publishers -> Numbers \cup {0}]
    <3>1. previous' \in { previous, [previous EXCEPT ![q] = link[pproj[q]]] }
      BY <1>7 DEF Switch, SwitchFails, Relink, RelinkFails
    <3> QED BY <3>1
  <2>3. ppc' \in [Publishers -> PublishSteps]
    <3>1. ppc' \in { [ppc EXCEPT ![q] = "commit"], [ppc EXCEPT ![q] = "tidy"] }
      BY <1>7 DEF Switch, SwitchFails, Relink, RelinkFails
    <3> QED BY <3>1
  <2> QED BY <1>1, <1>7, <2>1, <2>2, <2>3 DEF Switch, SwitchFails, Relink, RelinkFails
<1>8. CASE PCommit(q)
  <2>1. number[q] \in Numbers
    BY <1>8 DEF PCommit, Numbered
  <2> QED BY <1>1, <1>8, <2>1 DEF PCommit
<1> QED BY <1>2, <1>3, <1>4, <1>5, <1>6, <1>7, <1>8 DEF Publish, PHandle

(* A restart frees every mutex and forgets every request.                  *)
LEMMA CrashKeepsHold ==
  ASSUME HoldInv, Numbered, SystemCrash
  PROVE  HoldInv' /\ Numbered'
<1>1. NoOne \notin Editors /\ NoOne \notin Publishers
  BY EditorsAssumption, PublishersAssumption
<1>2. TypeOK' /\ LockHeld' /\ TreeThere'
  <2>1. UNCHANGED << requestVars, rows, diskVars >> /\ LoseRequests
    BY DEF SystemCrash, LoseRequests
  <2>2. pc' \in [Editors -> Steps] /\ \A r \in Editors : pc'[r] \in {"idle", "done"}
    BY <2>1 DEF LoseRequests, InFlight, HoldInv, PublishingTypeOK, TypeOK, Steps
  <2>3. TypeOK'
    BY <2>1, <2>2 DEF LoseRequests, HoldInv, PublishingTypeOK, TypeOK, requestVars, diskVars
  <2>4. LockHeld' /\ TreeThere'
    BY <1>1, <2>1, <2>2 DEF LoseRequests, LockHeld, TreeThere, Locked
  <2> QED BY <2>3, <2>4
<1>3. UNCHANGED << publisherVars, number, previous, releaseVars, recordVars >>
  BY DEF SystemCrash
<1>4. \A s \in Publishers : (ppc'[s] = ppc[s] /\ ppc[s] = "idle") \/ ppc'[s] = "done"
  BY DEF SystemCrash, PInFlight
<1>5. PublishingTypeOK'
  <2>1. ppc' \in [Publishers -> PublishSteps]
    BY <1>4 DEF SystemCrash, PublishSteps
  <2>2. presult' \in [Publishers -> {"none", "ok", "error", "lost"}]
    BY DEF SystemCrash, HoldInv, PublishingTypeOK
  <2> QED BY <1>2, <1>3, <2>1, <2>2
          DEF HoldInv, PublishingTypeOK, publisherVars, releaseVars, recordVars
<1>6. PublisherHolds'
  BY <1>1, <1>4 DEF SystemCrash, LoseRequests, PublisherHolds, Holding
<1>7. Numbered'
  BY <1>3, <1>4, SameNumbers DEF HoldInv, publisherVars, recordVars
<1> QED BY <1>2, <1>5, <1>6, <1>7 DEF HoldInv

(* Locks, trees and numbers stay in order, whatever fails.                 *)
LEMMA NextHold == HoldInv /\ Numbered /\ [SystemNext]_systemVars => HoldInv' /\ Numbered'
<1> SUFFICES ASSUME HoldInv, Numbered, [SystemNext]_systemVars PROVE HoldInv' /\ Numbered'
  OBVIOUS
<1>1. ASSUME NEW r \in Editors, Edit(r) PROVE HoldInv' /\ Numbered'
  <2>1. LockInv'
    BY <1>1, EditorsKeepOut, NextLockInv DEF HoldInv, PublishingTypeOK, LockInv
  <2>2. PublishingTypeOK' /\ Numbered'
    BY <1>1, <2>1, EditorsKeepOut
       DEF HoldInv, LockInv, PublishingTypeOK, Numbered, Takes, publishVars, publisherVars,
           releaseVars, recordVars
  <2>3. PublisherHolds'
    BY <1>1, EditorsKeepOut DEF HoldInv, PublisherHolds, publishVars, publisherVars
  <2> QED BY <2>1, <2>2, <2>3 DEF HoldInv, LockInv
<1>2. ASSUME NEW q \in Publishers, Publish(q) PROVE HoldInv' /\ Numbered'
  BY <1>2, PublisherKeepsLocks, PublisherKeepsHolds, PublisherKeepsNumbers, PublisherKeepsTypes
     DEF HoldInv
<1>3. CASE SystemCrash
  BY <1>3, CrashKeepsHold
<1>4. CASE UNCHANGED systemVars
  BY <1>4 DEF systemVars, storeVars, publishVars, publisherVars, requestVars, diskVars,
              releaseVars, recordVars, HoldInv, PublishingTypeOK, TypeOK, LockHeld, TreeThere,
              PublisherHolds, Numbered, Takes
<1> QED BY <1>1, <1>2, <1>3, <1>4, SystemSteps

(* Type correctness, whatever fails: no publication runs out of numbers    *)
(* and none is filed under a number that is not a revision's.              *)
THEOREM PublishingTypeCorrect == SystemSpec => []PublishingTypeOK
<1>1. HoldInv => PublishingTypeOK
  BY DEF HoldInv
<1> QED BY <1>1, InitHold, NextHold, PTL DEF SystemSpec

-----------------------------------------------------------------------------
(* What holds under every fault, crashes included.                         *)

There(p, n) == n # 0 => releases[p][n] # NoTree

(* What a publisher builds on is there: the tree it copies, the directory  *)
(* it promotes, the release it switches to and the one it may go back to.  *)
Founded(q) ==
  /\ ppc[q] = "copy" => tree[pproj[q]] # NoTree
  /\ ppc[q] = "promote" => staging[q] # NoTree
  /\ ppc[q] \in {"begin", "switch", "commit"} => There(pproj[q], number[q])
  /\ ppc[q] \in {"commit", "relink"} => There(pproj[q], previous[q])

KeptInv == NothingLiveIsMissing /\ \A q \in Publishers : Founded(q)

(* No step of the system touches a release that is there.                  *)
LEMMA ReleasesStay ==
  ASSUME HoldInv, [SystemNext]_systemVars, NEW p \in Projects, NEW n \in Numbers,
         releases[p][n] # NoTree
  PROVE  releases'[p][n] = releases[p][n]
<1>1. ASSUME NEW r \in Editors, Edit(r) PROVE UNCHANGED releases
  BY <1>1 DEF Edit, publishVars, releaseVars
<1>2. ASSUME NEW q \in Publishers, Publish(q) PROVE UNCHANGED releases \/ Promote(q)
  BY <1>2 DEF Publish, PHandle, PBegin, PCancel, PAutoRollback, PLock, Prepare, SelectRevision,
       PrepareFails, StageCopy, StageCopyFails, PromoteFails, PStage, PStageFails,
       Switch, SwitchFails, PCommit, PCommitFails, Relink, RelinkFails, Tidy, PUnlock,
       publishVars, releaseVars
<1>3. ASSUME NEW q \in Publishers, Promote(q) PROVE releases'[p][n] = releases[p][n]
  BY <1>3 DEF Promote, HoldInv, PublishingTypeOK
<1>4. SystemCrash \/ UNCHANGED systemVars => UNCHANGED releases
  BY DEF SystemCrash, systemVars, publishVars, releaseVars
<1> QED BY <1>1, <1>2, <1>3, <1>4, SystemSteps

(* A released revision is immutable: no publication, rollback, mutation or *)
(* restart changes or removes the directory of a release.                  *)
THEOREM ReleasedIsImmutable == SystemSpec => ReleasesImmutable
<1>1. HoldInv /\ [SystemNext]_systemVars
        => [\A p \in Projects, n \in Numbers :
              releases[p][n] # NoTree => releases'[p][n] = releases[p][n]]_systemVars
  BY ReleasesStay
<1> QED BY <1>1, InitHold, NextHold, PTL DEF SystemSpec, ReleasesImmutable

(* What is there stays there.                                              *)
LEMMA ThereStays ==
  ASSUME HoldInv, [SystemNext]_systemVars, NEW p \in Projects, NEW n \in Numbers \cup {0},
         There(p, n)
  PROVE  n # 0 => releases'[p][n] # NoTree
BY ReleasesStay DEF There

(* Nothing is published at first.                                          *)
LEMMA InitKept == SystemInit => KeptInv
BY DEF SystemInit, PublishInit, KeptInv, NothingLiveIsMissing, Founded

(* Another publisher's step, or an editor's, takes nothing away from q.    *)
LEMMA OthersLeaveFounded ==
  ASSUME HoldInv, KeptInv, [SystemNext]_systemVars, NEW q \in Publishers,
         pproj' = pproj, number'[q] = number[q], staging'[q] = staging[q],
         previous'[q] = previous[q],
         ppc'[q] = ppc[q] \/ ppc'[q] \in {"idle", "done"},
         tree[pproj[q]] # NoTree /\ ppc[q] = "copy" => tree'[pproj[q]] # NoTree
  PROVE  Founded(q)'
<1>1. pproj[q] \in Projects /\ number[q] \in Numbers \cup {0} /\ previous[q] \in Numbers \cup {0}
  BY DEF HoldInv, PublishingTypeOK
<1>2. There(pproj[q], number[q]) => There(pproj[q], number[q])'
  BY <1>1, ThereStays DEF There
<1>3. There(pproj[q], previous[q]) => There(pproj[q], previous[q])'
  BY <1>1, ThereStays DEF There
<1> QED BY <1>2, <1>3 DEF KeptInv, Founded

(* packwiz refresh, run by a publication, rewrites the index of a tree.    *)
LEMMA TreesStay ==
  ASSUME HoldInv, NEW q \in Publishers, Publish(q), NEW p \in Projects, tree[p] # NoTree
  PROVE  tree'[p] # NoTree
<1>1. CASE Prepare(q)
  <2>1. tree[p] \in Trees
    BY DEF HoldInv, PublishingTypeOK, TypeOK
  <2>2. [tree[p] EXCEPT !.index = tree[p].files] \in Trees
    BY <2>1 DEF Trees
  <2>3. tree'[p] \in {tree[p], [tree[p] EXCEPT !.index = tree[p].files]}
    BY <1>1 DEF Prepare, HoldInv, PublishingTypeOK, TypeOK
  <2> QED BY <2>1, <2>2, <2>3, NoTreeAssumption DEF Trees
<1> QED BY <1>1, PublishersKeepOut

(* A publisher's own step builds on what is there.                         *)
LEMMA PublisherStaysFounded ==
  ASSUME HoldInv, Numbered, KeptInv, NEW q \in Publishers, Publish(q)
  PROVE  Founded(q)'
<1> USE DEF HoldInv, PublishingTypeOK, Goto, publisherVars, releaseVars
<1>1. /\ pproj[q] \in Projects /\ number[q] \in Numbers \cup {0}
      /\ previous[q] \in Numbers \cup {0} /\ link[pproj[q]] \in Numbers \cup {0}
  OBVIOUS
<1>2. CASE PBegin(q) \/ PLock(q) \/ PrepareFails(q) \/ StageCopyFails(q) \/ PromoteFails(q)
           \/ PStageFails(q) \/ SwitchFails(q) \/ PCommit(q) \/ Relink(q) \/ RelinkFails(q)
           \/ Tidy(q) \/ PUnlock(q)
  <2>1. ppc'[q] \notin {"copy", "promote", "begin", "switch", "commit", "relink"}
    BY <1>2 DEF PBegin, PLock, PrepareFails, StageCopyFails, PromoteFails, PStageFails,
                SwitchFails, PCommit, Relink, RelinkFails, Tidy, PUnlock
  <2> QED BY <2>1 DEF Founded
<1>3. CASE PCancel(q) \/ PAutoRollback(q)
  BY <1>3 DEF PCancel, PAutoRollback, KeptInv, Founded, There, storeVars, diskVars, publishVars
<1>4. CASE Prepare(q)
  <2>1. tree'[pproj[q]] # NoTree
    BY <1>1, <1>4, TreesStay DEF Prepare
  <2> QED BY <1>4, <2>1 DEF Prepare, Founded
<1>5. CASE SelectRevision(q)
  <2>1. PICK n \in revisions[pproj[q]] : number' = [number EXCEPT ![q] = n]
    BY <1>5 DEF SelectRevision
  <2>2. number'[q] = n /\ There(pproj[q], n)
    BY <1>1, <2>1 DEF KeptInv, NothingLiveIsMissing, There
  <2> QED BY <1>5, <2>2 DEF SelectRevision, Founded, There
<1>6. CASE StageCopy(q)
  <2>1. staging'[q] # NoTree
    BY <1>6 DEF StageCopy, KeptInv, Founded
  <2> QED BY <1>6, <2>1 DEF StageCopy, Founded
<1>7. CASE Promote(q)
  <2>1. number[q] \in Numbers
    BY <1>7 DEF Promote, Numbered
  <2>2. releases'[pproj[q]][number[q]] # NoTree
    BY <1>1, <1>7, <2>1 DEF Promote, KeptInv, Founded
  <2> QED BY <1>7, <2>2 DEF Promote, Founded, There
<1>8. CASE PStage(q) \/ PCommitFails(q)
  BY <1>8 DEF PStage, PCommitFails, KeptInv, Founded, There
<1>9. CASE Switch(q)
  <2>1. previous'[q] = link[pproj[q]] /\ There(pproj[q], link[pproj[q]])
    BY <1>1, <1>9 DEF Switch, KeptInv, NothingLiveIsMissing, There
  <2> QED BY <1>9, <2>1 DEF Switch, KeptInv, Founded, There
<1> QED BY <1>2, <1>3, <1>4, <1>5, <1>6, <1>7, <1>8, <1>9 DEF Publish, PHandle

(* What is linked or recorded after a publisher's step was linked or       *)
(* recorded before, or is what the publisher had made sure of.             *)
LEMMA PublisherLinksFounded ==
  ASSUME HoldInv, KeptInv, NEW q \in Publishers, Publish(q), NEW p \in Projects,
         NEW n \in revisions'[p] \cup {current'[p], link'[p]}
  PROVE  n \in Numbers \cup {0} /\ There(p, n)
<1> USE DEF HoldInv, PublishingTypeOK, Goto, recordVars, releaseVars
<1>1. n \in revisions[p] \cup {current[p], link[p]} => n \in Numbers \cup {0} /\ There(p, n)
  BY DEF KeptInv, NothingLiveIsMissing, There
<1>2. number[q] \in Numbers \cup {0} /\ previous[q] \in Numbers \cup {0}
  OBVIOUS
<1>3. CASE UNCHANGED << recordVars, link >>
  BY <1>1, <1>3
<1>4. CASE Switch(q)
  BY <1>1, <1>2, <1>4 DEF Switch, KeptInv, Founded
<1>5. CASE SwitchFails(q) \/ RelinkFails(q)
  <2>1. link'[p] \in {link[p], 0}
    BY <1>5 DEF SwitchFails, RelinkFails
  <2> QED BY <1>1, <1>5, <2>1 DEF SwitchFails, RelinkFails, There
<1>6. CASE PCommit(q)
  BY <1>1, <1>2, <1>6 DEF PCommit, KeptInv, Founded
<1>7. CASE Relink(q)
  BY <1>1, <1>2, <1>7 DEF Relink, KeptInv, Founded
<1> QED BY <1>3, <1>4, <1>5, <1>6, <1>7
    DEF Publish, PHandle, PBegin, PCancel, PAutoRollback, PLock, Prepare, SelectRevision,
        PrepareFails, StageCopy, StageCopyFails, Promote, PromoteFails, PStage, PStageFails,
        PCommitFails, Tidy, PUnlock, publishVars

(* The step of one publisher is not the step of another.                   *)
LEMMA OthersWait ==
  ASSUME HoldInv, NEW q \in Publishers, Publish(q), NEW s \in Publishers \ {q}
  PROVE  /\ ppc'[s] = ppc[s] /\ number'[s] = number[s] /\ staging'[s] = staging[s]
         /\ previous'[s] = previous[s]
<1> USE DEF HoldInv, PublishingTypeOK, Goto, publisherVars, releaseVars
<1>1. CASE PBegin(q) \/ PLock(q) \/ PCancel(q) \/ PAutoRollback(q) \/ Prepare(q)
           \/ SelectRevision(q) \/ PrepareFails(q) \/ StageCopy(q) \/ StageCopyFails(q)
  BY <1>1 DEF PBegin, PLock, PCancel, PAutoRollback, Prepare, SelectRevision, PrepareFails,
              StageCopy, StageCopyFails, publishVars
<1>2. CASE Promote(q) \/ PromoteFails(q) \/ PStage(q) \/ PStageFails(q) \/ Switch(q)
           \/ SwitchFails(q)
  BY <1>2 DEF Promote, PromoteFails, PStage, PStageFails, Switch, SwitchFails
<1>3. CASE PCommit(q) \/ PCommitFails(q) \/ Relink(q) \/ RelinkFails(q) \/ Tidy(q) \/ PUnlock(q)
  BY <1>3 DEF PCommit, PCommitFails, Relink, RelinkFails, Tidy, PUnlock
<1> QED BY <1>1, <1>2, <1>3 DEF Publish, PHandle

(* Nothing that is linked or recorded is taken away or was never made.     *)
LEMMA NextKept ==
  HoldInv /\ Numbered /\ KeptInv /\ [SystemNext]_systemVars => KeptInv'
<1> SUFFICES ASSUME HoldInv, Numbered, KeptInv, [SystemNext]_systemVars PROVE KeptInv'
  OBVIOUS
<1>1. ASSUME UNCHANGED << revisions, current, link >> PROVE NothingLiveIsMissing'
  <2>1. ASSUME NEW p \in Projects, NEW n \in revisions[p] \cup {current[p], link[p]}, n # 0
        PROVE  releases'[p][n] # NoTree
    <3>1. n \in Numbers /\ releases[p][n] # NoTree
      BY <2>1 DEF HoldInv, PublishingTypeOK, KeptInv, NothingLiveIsMissing
    <3> QED BY <3>1, ReleasesStay
  <2> QED BY <1>1, <2>1 DEF NothingLiveIsMissing
<1>2. ASSUME NEW r \in Editors, Edit(r) PROVE KeptInv'
  <2>1. UNCHANGED << ppc, pproj, number, staging, previous, revisions, current, link >>
    BY <1>2, EditorsKeepOut DEF publishVars, publisherVars, releaseVars, recordVars
  <2>2. ASSUME NEW q \in Publishers PROVE Founded(q)'
    <3>1. ppc[q] = "copy" => tree'[pproj[q]] = tree[pproj[q]]
      BY <1>2, EditorsKeepOut DEF HoldInv, PublisherHolds, Holding, PublishingTypeOK
    <3> QED BY <2>1, <3>1, OthersLeaveFounded
  <2> QED BY <1>1, <2>1, <2>2 DEF KeptInv
<1>3. ASSUME NEW q \in Publishers, Publish(q) PROVE KeptInv'
  <2>1. \A s \in Publishers \ {q} : Founded(s)'
    <3>1. pproj' = pproj /\ \A s \in Publishers : pproj[s] \in Projects
      BY <1>3, PublishersKeepOut DEF HoldInv, PublishingTypeOK
    <3> QED BY <1>3, <3>1, OthersWait, OthersLeaveFounded, TreesStay
  <2>2. Founded(q)'
    BY <1>3, PublisherStaysFounded
  <2>3. ASSUME NEW p \in Projects, NEW n \in revisions'[p] \cup {current'[p], link'[p]}, n # 0
        PROVE  releases'[p][n] # NoTree
    <3>1. n \in Numbers /\ There(p, n)
      BY <1>3, <2>3, PublisherLinksFounded
    <3> QED BY <2>3, <3>1, ReleasesStay DEF There
  <2> QED BY <2>1, <2>2, <2>3 DEF KeptInv, NothingLiveIsMissing
<1>4. CASE SystemCrash
  <2>1. UNCHANGED << pproj, number, staging, previous, revisions, current, link, tree >>
        /\ \A q \in Publishers : ppc'[q] = ppc[q] \/ ppc'[q] \in {"idle", "done"}
    BY <1>4 DEF SystemCrash, LoseRequests, publisherVars, releaseVars, recordVars, diskVars,
                PInFlight
  <2> QED BY <1>1, <2>1, OthersLeaveFounded DEF KeptInv
<1>5. CASE UNCHANGED systemVars
  <2>1. UNCHANGED << ppc, pproj, number, staging, previous, revisions, current, link, tree >>
    BY <1>5 DEF systemVars, storeVars, diskVars, publishVars, publisherVars, releaseVars,
                recordVars
  <2> QED BY <1>1, <2>1, OthersLeaveFounded DEF KeptInv
<1> QED BY <1>2, <1>3, <1>4, <1>5, SystemSteps

(* Whatever fails, and after a restart at any moment, the link that the    *)
(* public handler follows and every recorded revision have their release.  *)
THEOREM NothingGoesMissing == SystemSpec => []NothingLiveIsMissing
<1>1. KeptInv => NothingLiveIsMissing
  BY DEF KeptInv
<1> QED BY <1>1, InitHold, NextHold, InitKept, NextKept, PTL DEF SystemSpec

-----------------------------------------------------------------------------
(* What holds when renames, the copy of an archive and the process do not  *)
(* fail (Reliable): the link and the database agree outside of a           *)
(* publication, and what is staged is what the rows say.                   *)

Switched == {"commit", "relink"}

AgreeInv ==
  /\ \A p \in Projects :
       (\A q \in Publishers : pproj[q] = p => ppc[q] \notin Switched) => link[p] = current[p]
  /\ \A q \in Publishers : ppc[q] \in Switched => previous[q] = current[pproj[q]]
  /\ \A q \in Publishers : ppc[q] = "commit" => link[pproj[q]] = number[q]

StagedInv ==
  \A q \in Publishers : ppc[q] = "promote" => staging[q] = Intact(rows[pproj[q]])

(* All packs start empty and unpublished.                                  *)
LEMMA InitReliable == SystemInit => DoubtInv /\ AgreeInv /\ StagedInv
<1>1. SystemInit => DoubtInv
  BY InitDoubtInv DEF SystemInit
<1>2. SystemInit => AgreeInv /\ StagedInv
  BY DEF SystemInit, PublishInit, AgreeInv, StagedInv, Switched
<1> QED BY <1>1, <1>2

(* The tree a publisher finds holds what the rows say, indexed, so that    *)
(* its packwiz refresh changes nothing.                                    *)
LEMMA PublisherFindsRows ==
  ASSUME HoldInv, DoubtInv, NEW q \in Publishers, ppc[q] \in Holding
  PROVE  tree[pproj[q]] = Intact(rows[pproj[q]])
<1>1. pproj[q] \in Projects /\ mutex[pproj[q]] = q /\ q \notin Editors
  BY PublishersAssumption DEF HoldInv, PublishingTypeOK, PublisherHolds
<1> QED BY <1>1 DEF DoubtInv, Settled

(* The index a publication writes is the one that is there.                *)
LEMMA PublisherKeepsTrees ==
  ASSUME HoldInv, DoubtInv, NEW q \in Publishers, Publish(q)
  PROVE  UNCHANGED tree
<1>1. CASE Prepare(q)
  <2>1. tree[pproj[q]] = Intact(rows[pproj[q]])
    BY <1>1, PublisherFindsRows DEF Prepare, Goto, Holding
  <2>2. [tree[pproj[q]] EXCEPT !.index = tree[pproj[q]].files] = tree[pproj[q]]
    BY <2>1 DEF Intact
  <2>3. tree' = [tree EXCEPT ![pproj[q]] = tree[pproj[q]]]
    BY <1>1, <2>2 DEF Prepare
  <2> QED BY <2>3 DEF HoldInv, PublishingTypeOK, TypeOK
<1> QED BY <1>1, PublishersKeepOut

(* A publisher puts no pack out of line with its rows.                     *)
LEMMA PublisherKeepsDoubt ==
  ASSUME HoldInv, DoubtInv, NEW q \in Publishers, Publish(q)
  PROVE  DoubtInv'
<1>1. UNCHANGED << pc, proj, op, result, rows, tree, backup >>
  BY PublishersKeepOut, PublisherKeepsTrees DEF editorVars, requestVars
<1>2. q \notin Editors /\ NoOne \notin Editors
  BY PublishersAssumption, EditorsAssumption
<1>3. \A p \in Projects : mutex[p] \in Editors => mutex'[p] = mutex[p]
  <2>1. PUnlock(q) => mutex[pproj[q]] = q
    BY DEF PUnlock, Goto, HoldInv, PublishingTypeOK, PublisherHolds, Holding
  <2> QED BY <1>2, <2>1, PublishersKeepOut DEF PLock, PUnlock, HoldInv, PublishingTypeOK, TypeOK
<1>4. Settled'
  BY <1>1, <1>3 DEF DoubtInv, Settled, Intact
<1>5. BackupGood' /\ ResultKnown' /\ \A r \in Editors : TreeSoFar(r)'
  BY <1>1 DEF DoubtInv, BackupGood, ResultKnown, TreeSoFar, Intended, Intact
<1> QED BY <1>4, <1>5 DEF DoubtInv

(* A mutation changes neither the rows nor the link while a publisher      *)
(* holds the mutex.                                                        *)
LEMMA EditorKeepsReleases ==
  ASSUME HoldInv, AgreeInv, StagedInv, NEW r \in Editors, Edit(r)
  PROVE  AgreeInv' /\ StagedInv'
<1>1. UNCHANGED << ppc, pproj, number, staging, previous, current, link >>
  BY EditorsKeepOut DEF publishVars, publisherVars, releaseVars, recordVars
<1>2. \A q \in Publishers : ppc[q] = "promote" => rows'[pproj[q]] = rows[pproj[q]]
  BY EditorsKeepOut DEF HoldInv, PublishingTypeOK, PublisherHolds, Holding
<1>3. AgreeInv'
  BY <1>1 DEF AgreeInv
<1>4. StagedInv'
  BY <1>1, <1>2 DEF StagedInv, Intact
<1> QED BY <1>3, <1>4

(* What is staged was copied from a tree that is as the rows say.          *)
LEMMA PublisherKeepsStaged ==
  ASSUME HoldInv, DoubtInv, StagedInv, NEW q \in Publishers, Publish(q)
  PROVE  StagedInv'
<1>1. rows' = rows /\ pproj' = pproj
  BY PublishersKeepOut DEF editorVars
<1>2. ASSUME NEW s \in Publishers \ {q}, ppc'[s] = "promote"
      PROVE  staging'[s] = Intact(rows[pproj[s]])
  BY <1>2, OthersWait DEF StagedInv
<1>3. ASSUME ppc'[q] = "promote" PROVE staging'[q] = Intact(rows[pproj[q]])
  <2>1. StageCopy(q) \/ (ppc[q] = "promote" /\ staging'[q] = staging[q])
    BY <1>3 DEF Publish, PHandle, PBegin, PCancel, PAutoRollback, PLock, Prepare,
       SelectRevision, PrepareFails, StageCopyFails, Promote, PromoteFails, PStage, PStageFails,
       Switch, SwitchFails, PCommit, PCommitFails, Relink, RelinkFails, Tidy, PUnlock,
       publishVars, releaseVars, Goto, HoldInv, PublishingTypeOK
  <2>2. StageCopy(q) => staging'[q] = Intact(rows[pproj[q]])
    BY PublisherFindsRows DEF StageCopy, Goto, Holding, HoldInv, PublishingTypeOK
  <2> QED BY <2>1, <2>2 DEF StagedInv
<1> QED BY <1>1, <1>2, <1>3 DEF StagedInv, Intact

(* Two publishers do not work on one pack.                                 *)
LEMMA OnePublisher ==
  ASSUME HoldInv, NEW q \in Publishers, NEW s \in Publishers, pproj[q] = pproj[s],
         ppc[q] \in Holding, ppc[s] \in Holding
  PROVE  q = s
BY DEF HoldInv, PublisherHolds, PublishingTypeOK

(* Link and record change together: switched, then committed or put back.  *)
LEMMA PublisherKeepsAgree ==
  ASSUME Reliable, HoldInv, AgreeInv, NEW q \in Publishers, Publish(q)
  PROVE  AgreeInv'
<1> USE DEF HoldInv, PublishingTypeOK, Goto, publisherVars, releaseVars, recordVars
<1> DEFINE p == pproj[q]
<1>1. p \in Projects /\ pproj' = pproj
  BY PublishersKeepOut
<1>2. \A s \in Publishers \ {q} :
        ppc'[s] = ppc[s] /\ number'[s] = number[s] /\ previous'[s] = previous[s]
  BY OthersWait
<1>3. ppc[q] \in Holding => \A s \in Publishers \ {q} : pproj[s] = p => ppc[s] \notin Switched
  BY OnePublisher DEF Holding, Switched
<1>4. "rename" \notin Faults
  BY DEF Reliable
<1>5. CASE Switch(q)
  <2>1. link[p] = current[p]
    BY <1>1, <1>3, <1>5 DEF Switch, AgreeInv, Holding, Switched
  <2> QED BY <1>1, <1>2, <1>3, <1>5, <2>1 DEF Switch, AgreeInv, Holding, Switched
<1>6. CASE PCommit(q)
  <2>1. link[p] = number[q]
    BY <1>6 DEF PCommit, AgreeInv
  <2> QED BY <1>1, <1>2, <1>3, <1>6, <2>1 DEF PCommit, AgreeInv, Holding, Switched
<1>7. CASE PCommitFails(q)
  <2>1. UNCHANGED << link, current, number, previous >>
    BY <1>7 DEF PCommitFails
  <2>2. ppc' = [ppc EXCEPT ![q] = "relink"] /\ ppc[q] = "commit"
    BY <1>7 DEF PCommitFails
  <2> QED BY <1>1, <2>1, <2>2 DEF AgreeInv, Switched
<1>8. CASE Relink(q)
  <2>1. previous[q] = current[p]
    BY <1>8 DEF Relink, AgreeInv, Switched
  <2> QED BY <1>1, <1>2, <1>3, <1>8, <2>1 DEF Relink, AgreeInv, Holding, Switched
<1>9. ASSUME UNCHANGED << link, current >>,
             \/ UNCHANGED << ppc, number, previous >>
             \/ ppc'[q] \notin Switched /\ ppc[q] \notin Switched
      PROVE  AgreeInv'
  BY <1>1, <1>2, <1>9 DEF AgreeInv, Switched
<1>10. CASE PBegin(q) \/ PLock(q) \/ PCancel(q) \/ PAutoRollback(q) \/ Prepare(q)
            \/ SelectRevision(q) \/ PrepareFails(q) \/ StageCopy(q) \/ StageCopyFails(q)
  <2>1. UNCHANGED << link, current >>
    BY <1>10 DEF PBegin, PLock, PCancel, PAutoRollback, Prepare, SelectRevision,
                 PrepareFails, StageCopy, StageCopyFails, publishVars
  <2>2. CASE PCancel(q) \/ PAutoRollback(q)
    BY <1>9, <2>1, <2>2 DEF PCancel, PAutoRollback, publishVars
  <2>3. CASE ~(PCancel(q) \/ PAutoRollback(q))
    <3>1. ppc'[q] \notin Switched /\ ppc[q] \notin Switched
      BY <1>10, <2>3 DEF PBegin, PLock, Prepare, SelectRevision, PrepareFails, StageCopy,
                         StageCopyFails, Switched
    <3> QED BY <1>9, <2>1, <3>1
  <2> QED BY <2>2, <2>3
<1>11. CASE Promote(q) \/ PromoteFails(q) \/ PStage(q) \/ PStageFails(q) \/ Tidy(q)
            \/ PUnlock(q)
  BY <1>9, <1>11 DEF Promote, PromoteFails, PStage, PStageFails, Tidy, PUnlock, Switched
<1>12. CASE SwitchFails(q) \/ RelinkFails(q)
  BY <1>4, <1>12 DEF SwitchFails, RelinkFails
<1> QED BY <1>5, <1>6, <1>7, <1>8, <1>10, <1>11, <1>12 DEF Publish, PHandle

(* Rows, trees, links and staged copies stay in line.                      *)
LEMMA NextReliable ==
  ASSUME Reliable, HoldInv, DoubtInv, AgreeInv, StagedInv, [SystemNext]_systemVars
  PROVE  DoubtInv' /\ AgreeInv' /\ StagedInv'
<1>1. ASSUME NEW r \in Editors, Edit(r) PROVE DoubtInv' /\ AgreeInv' /\ StagedInv'
  BY <1>1, EditorsKeepOut, NextDoubtInv, EditorKeepsReleases
     DEF HoldInv, PublishingTypeOK, LockInv
<1>2. ASSUME NEW q \in Publishers, Publish(q) PROVE DoubtInv' /\ AgreeInv' /\ StagedInv'
  BY <1>2, PublisherKeepsDoubt, PublisherKeepsAgree, PublisherKeepsStaged
<1>3. CASE SystemCrash
  BY <1>3 DEF SystemCrash, LoseRequests, Reliable
<1>4. CASE UNCHANGED systemVars
  <2>1. UNCHANGED storeVars /\ UNCHANGED publishVars
    BY <1>4 DEF systemVars
  <2>2. DoubtInv'
    BY <2>1, NextDoubtInv DEF HoldInv, PublishingTypeOK, LockInv
  <2>3. AgreeInv' /\ StagedInv'
    BY <2>1 DEF storeVars, publishVars, publisherVars, releaseVars, recordVars, AgreeInv,
                StagedInv, Switched, Intact
  <2> QED BY <2>2, <2>3
<1> QED BY <1>1, <1>2, <1>3, <1>4, SystemSteps

(* The inductive invariants under Reliable.                                *)
LEMMA SystemInvariants ==
  Reliable => (SystemSpec => [](HoldInv /\ DoubtInv /\ AgreeInv /\ StagedInv))
<1> SUFFICES ASSUME Reliable
    PROVE  SystemSpec => [](HoldInv /\ DoubtInv /\ AgreeInv /\ StagedInv)
  OBVIOUS
<1>1. HoldInv /\ DoubtInv /\ AgreeInv /\ StagedInv /\ [SystemNext]_systemVars
        => DoubtInv' /\ AgreeInv' /\ StagedInv'
  BY NextReliable
<1> QED BY <1>1, InitHold, NextHold, InitReliable, PTL DEF SystemSpec

-----------------------------------------------------------------------------
(* If any step of a publication or of a rollback fails, the revision that  *)
(* was live before remains live, in the link as in the database.           *)
THEOREM PreviousRevisionStays == Reliable => (SystemSpec => []PreviousStaysLive)
<1>1. HoldInv /\ AgreeInv => PreviousStaysLive
  <2>1. NoOne \notin Publishers
    BY EditorsAssumption, PublishersAssumption
  <2> QED BY <2>1 DEF HoldInv, PublisherHolds, AgreeInv, PreviousStaysLive, Switched, Holding
<1> QED BY <1>1, SystemInvariants, PTL

(* Next to publications, too, the working tree is what the rows say        *)
(* whenever the mutex is free.                                             *)
THEOREM TreeFollowsRowsNextToPublishers == Reliable => (SystemSpec => []TreeMatchesRows)
<1>1. HoldInv /\ DoubtInv => TreeMatchesRows
  BY EditorsAssumption DEF DoubtInv, Settled, TreeMatchesRows
<1> QED BY <1>1, SystemInvariants, PTL

(* What is published is a committed pack: the release that a publication   *)
(* makes holds what the rows say, never half the work of a mutation.       *)
THEOREM ReleasesAreCommitted == Reliable => (SystemSpec => PromotesCommittedPack)
<1>1. ASSUME HoldInv, StagedInv, [SystemNext]_systemVars, NEW p \in Projects,
             NEW n \in Numbers, releases[p][n] = NoTree, releases'[p][n] # NoTree
      PROVE  releases'[p][n] = Intact(rows[p])
  <2>1. PICK q \in Publishers : Promote(q)
    <3>1. ASSUME NEW r \in Editors, Edit(r) PROVE FALSE
      BY <1>1, <3>1 DEF Edit, publishVars, releaseVars
    <3>2. ~SystemCrash /\ ~UNCHANGED systemVars
      BY <1>1 DEF SystemCrash, systemVars, publishVars, releaseVars
    <3>3. ASSUME NEW q \in Publishers, Publish(q) PROVE Promote(q)
      BY <1>1, <3>3 DEF Publish, PHandle, PBegin, PCancel, PAutoRollback, PLock, Prepare,
         SelectRevision, PrepareFails, StageCopy, StageCopyFails, PromoteFails, PStage,
         PStageFails, Switch, SwitchFails, PCommit, PCommitFails, Relink, RelinkFails, Tidy,
         PUnlock, publishVars, releaseVars
    <3> QED BY <1>1, <3>1, <3>2, <3>3, SystemSteps
  <2>2. releases' = [releases EXCEPT ![pproj[q]][number[q]] = staging[q]]
        /\ staging[q] = Intact(rows[pproj[q]])
    BY <1>1, <2>1 DEF Promote, Goto, StagedInv
  <2>3. releases'[p][n] # releases[p][n] => p = pproj[q] /\ releases'[p][n] = staging[q]
    BY <2>2 DEF HoldInv, PublishingTypeOK
  <2> QED BY <1>1, <2>2, <2>3
<1>2. HoldInv /\ StagedInv /\ [SystemNext]_systemVars
        => [\A p \in Projects, n \in Numbers :
              releases[p][n] = NoTree /\ releases'[p][n] # NoTree
                => releases'[p][n] = Intact(rows[p])]_systemVars
  BY <1>1
<1> QED BY <1>2, SystemInvariants, PTL DEF SystemSpec, PromotesCommittedPack
=============================================================================
