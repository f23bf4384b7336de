----------------------- MODULE ProjectLifecycleProofs -----------------------
(***************************************************************************)
(* Proofs about ProjectLifecycle, for any number of makers and requests.   *)
(*                                                                         *)
(* Here the tree of a pack may go away under a mutation, so the invariants *)
(* of ProjectStoreProofs do not carry over: TreeThere is false.  BirthInv  *)
(* says how far a maker has come, whatever fails: before its row is there  *)
(* nobody visits the pack.  WriterInv says who holds the write lock of the *)
(* database, and HealthInv that a listed pack whose maker has not given up *)
(* is as ProjectStoreProofs has it; these two need Undisturbed clients and *)
(* disks.                                                                  *)
(***************************************************************************)
EXTENDS ProjectLifecycle, TLAPS

LockHeld ==
  \A r \in Editors, p \in Projects :
    mutex[p] = r <=> pc[r] \in Locked /\ proj[r] = p

BaseInv == LifeTypeOK /\ LockHeld

(* Nobody has found the pack of maker m in the list yet.                   *)
Unvisited(m) == \A r \in Editors : proj[r] = m => pc[r] = "idle"

Newborn(m) == m \notin listed /\ Unvisited(m) /\ rows[m] = {}

(* How far a maker has come.                                               *)
Progress(m) ==
  /\ mpc[m] \in {"idle", "make", "ready", "insert"} =>
       /\ Newborn(m) /\ mresult[m] = "none"
       /\ tree[m] = IF mpc[m] \in {"idle", "make"} THEN NoTree ELSE Intact({})
  /\ mpc[m] \in {"sync", "walk", "finish"} =>
       making[m] = "import" /\ mresult[m] = "none" /\ m \in listed
  /\ mpc[m] \in {"drop", "discard"} => mresult[m] = "error"
  /\ mpc[m] = "drop" => making[m] = "import"
  /\ mpc[m] = "done" => mresult[m] # "none"
  /\ mresult[m] = "ok" => m \in listed /\ (making[m] = "import" => m \in synced)
  /\ mresult[m] = "error" /\ making[m] = "create" =>
       Newborn(m) /\ (mpc[m] = "done" => tree[m] = NoTree)

BirthInv == \A m \in Makers : Progress(m)

-----------------------------------------------------------------------------
(* The faults under which visitors and importers keep out of each other's  *)
(* way: the clients of makers may leave, those of visitors may not, and    *)
(* the copies and renames of a rollback work.                              *)
Undisturbed == Faults \cap {"cancel", "wipe", "rename"} = {}

(* A visitor has the write lock from its first row to its commit, or to    *)
(* its end if it fails; a maker while it synchronises, unless its client   *)
(* has left.                                                               *)
Uncommitted == { "lock", "copy", "apply", "fill", "refresh", "commit", "aside", "restore" }

WriterInv ==
  /\ \A r \in Editors : ~cancelled[r] /\ (pc[r] \in Uncommitted => writer = r)
  /\ \A m \in Makers : mpc[m] \in {"walk", "finish"} /\ ~left[m] => writer = m

(* A listed pack whose maker has not given up.                             *)
Healthy(p) == p \in listed /\ mresult[p] # "error"

Settled(p) ==
  mutex[p] \notin Editors \/ pc[mutex[p]] \notin InDoubt => tree[p] = Intact(rows[p])

(* What a visitor in doubt has made of the tree so far.                    *)
TreeSoFar(r) ==
  /\ pc[r] \in InDoubt => backup[r] = Intact(rows[proj[r]])
  /\ pc[r] = "apply" => tree[proj[r]] = Intact(rows[proj[r]])
  /\ pc[r] = "fill" => op[r] = "replace"
  /\ pc[r] = "refresh" => tree[proj[r]] \in Trees /\ tree[proj[r]].files = Intended(r)
  /\ pc[r] = "commit" => tree[proj[r]] = Intact(Intended(r))
  /\ pc[r] = "aside" => tree[proj[r]] # NoTree

HealthInv ==
  /\ \A p \in Projects : Healthy(p) => Settled(p)
  /\ \A r \in Editors : Healthy(proj[r]) => TreeSoFar(r)
  /\ \A m \in Makers : mpc[m] = "finish" /\ ~left[m] => seen[m] = rows[m]

(* Before its commit or first error a visitor has no result and no row.    *)
Undecided == { "idle", "stage", "lock", "copy", "apply", "fill", "refresh", "commit" }

AnswerInv ==
  /\ \A r \in Editors : pc[r] \in Undecided => result[r] = "none"
  /\ \A p \in Projects : \A r \in rows[p] : proj[r] = p /\ Stored(r)
  /\ \A r \in Editors : result[r] = "unread" => op[r] = "replace"
  /\ \A r \in Editors : Stored(r) /\ proj[r] \in listed =>
       r \in rows[proj[r]] \/ \E s \in rows[proj[r]] : op[s] = "replace"

-----------------------------------------------------------------------------
(* The steps of the system.                                                *)

EditorStep(r) ==
  (Visit(r) \/ VisitHandle(r) \/ Cancel(r) \/ AutoRollback(r)) /\ UNCHANGED packVars
MakerStep(m) == MBegin(m) \/ Make(m) \/ Leave(m) \/ LeftRollback(m)

(* The system steps by one visitor or by one maker.                        *)
LEMMA LifeSteps ==
  ASSUME [LifeNext]_lifeVars
  PROVE  \/ \E r \in Editors : EditorStep(r)
         \/ \E m \in Makers : MakerStep(m)
         \/ UNCHANGED lifeVars
  BY DEF LifeNext, LifeAnswered, EditorStep, MakerStep

(* Makers are packs, and are not visitors.                                 *)
LEMMA MakerFacts ==
  /\ Makers = Projects /\ NoOne \notin Editors /\ NoOne \notin Makers
  /\ \A m \in Makers : m \in Holders /\ m \notin Editors
  /\ \A r \in Editors : r \in Holders
  BY EditorsAssumption, MakersAssumption

(* A mutex is taken by one visitor at a time, so two visitors at a locked  *)
(* step work on two packs.                                                 *)
LEMMA OneAtATime ==
  ASSUME BaseInv, NEW r \in Editors, NEW s \in Editors, r # s,
         pc[r] \in Locked, pc[s] \in Locked
  PROVE  proj[r] # proj[s]
  BY MakerFacts DEF BaseInv, LifeTypeOK, TypeOK, LockHeld

-----------------------------------------------------------------------------
(* Types and mutexes.                                                      *)

(* Before any request is sent nothing is there and no mutex is taken.      *)
LEMMA InitBase == LifeInit => BaseInv
  BY MakerFacts DEF LifeInit, BaseInv, LifeTypeOK, TypeOK, LockHeld, Steps, Locked, MakerSteps

(* A visitor finds a tree, or takes note that there is none, before it     *)
(* changes it, at whatever moment the tree was taken away.                 *)
LEMMA EditorBase ==
  ASSUME BaseInv, NEW r \in Editors, EditorStep(r)
  PROVE  BaseInv'
  <1>t. TypeOK /\ LockHeld
    BY DEF BaseInv, LifeTypeOK
  <1> USE <1>t, MakerFacts, NoTreeAssumption
  <1> USE DEF TypeOK, LockHeld, Steps, Locked, Trees, requestVars, diskVars, Jump, Err,
              InFlight, Applying
  <1> DEFINE Good == TypeOK' /\ LockHeld'
  <1>1. ASSUME Begin(r), proj[r] \in listed PROVE Good
    BY <1>1 DEF Begin
  <1>2. ASSUME VisitLost(r) PROVE Good
    BY <1>2 DEF VisitLost
  <1>3. ASSUME TreeVanished(r) PROVE Good
    BY <1>3 DEF TreeVanished
  <1>4. ASSUME Stage(r), proj[r] \in listed PROVE Good
    BY <1>4 DEF Stage
  <1>5. ASSUME StageFails(r) PROVE Good
    BY <1>5 DEF StageFails
  <1>6. ASSUME LockProject(r) PROVE Good
    BY <1>6 DEF LockProject
  <1>7. ASSUME CopyTree(r) PROVE Good
    BY <1>7 DEF CopyTree
  <1>8. ASSUME CopyFails(r) PROVE Good
    BY <1>8 DEF CopyFails
  <1>9. ASSUME WriteFiles(r), tree[proj[r]] # NoTree PROVE Good
    BY <1>9 DEF WriteFiles
  <1>10. ASSUME WipeTree(r) PROVE Good
    BY <1>10 DEF WipeTree
  <1>11. ASSUME FillTree(r) PROVE Good
    BY <1>11 DEF FillTree
  <1>12. ASSUME FillFails(r) PROVE Good
    BY <1>12 DEF FillFails
  <1>13. ASSUME Refresh(r), tree[proj[r]] # NoTree PROVE Good
    BY <1>13 DEF Refresh
  <1>14. ASSUME ApplyFails(r), tree[proj[r]] # NoTree PROVE Good
    BY <1>14 DEF ApplyFails
  <1>15. ASSUME Commit(r) PROVE Good
    BY <1>15 DEF Commit, Intended
  <1>16. ASSUME CommitFails(r) PROVE Good
    BY <1>16 DEF CommitFails
  <1>17. ASSUME MoveAside(r) PROVE Good
    BY <1>17 DEF MoveAside
  <1>18. ASSUME MoveAsideFails(r) PROVE Good
    BY <1>18 DEF MoveAsideFails
  <1>19. ASSUME Restore(r) PROVE Good
    BY <1>19 DEF Restore
  <1>20. ASSUME RestoreFails(r) PROVE Good
    BY <1>20 DEF RestoreFails
  <1>21. ASSUME Purge(r) PROVE Good
    BY <1>21 DEF Purge
  <1>22. ASSUME DropBackup(r) PROVE Good
    BY <1>22 DEF DropBackup
  <1>23. ASSUME Unlock(r) PROVE Good
    BY <1>23 DEF Unlock
  <1>24. ASSUME End(r) PROVE Good
    BY <1>24 DEF End
  <1>r. ASSUME Unread(r) PROVE Good
    BY <1>r DEF Unread
  <1>25. ASSUME Cancel(r) PROVE Good
    BY <1>25 DEF Cancel
  <1>26. ASSUME AutoRollback(r) PROVE Good
    BY <1>26 DEF AutoRollback
  <1>27. Good
    BY <1>1, <1>2, <1>3, <1>4, <1>5, <1>6, <1>7, <1>8, <1>9, <1>10, <1>11, <1>12, <1>13,
       <1>14, <1>15, <1>16, <1>17, <1>18, <1>19, <1>20, <1>21, <1>22, <1>23, <1>24,
       <1>25, <1>26, <1>r DEF EditorStep, Visit, VisitHandle, Handle, ReadBackFails, Applying,
       WriteFiles, Refresh, ApplyFails, Jump, Stage
  <1>28. QED
    BY <1>27 DEF EditorStep, packVars, makerVars, BaseInv, LifeTypeOK

(* Nor does a maker, and it takes no mutex.                                *)
LEMMA MakerBase ==
  ASSUME BaseInv, NEW m \in Makers, MakerStep(m)
  PROVE  BaseInv'
  <1> USE MakerFacts
  <1> USE DEF BaseInv, LifeTypeOK, TypeOK, LockHeld, MakerSteps, Trees, Intact, requestVars,
              diskVars, othersVars, storeVars, packVars, makerVars, Step, Refuse
  <1>1. ASSUME MBegin(m) PROVE BaseInv'
    BY <1>1 DEF MBegin
  <1>2. ASSUME MakeTree(m) PROVE BaseInv'
    BY <1>2 DEF MakeTree
  <1>3. ASSUME MakeTreeFails(m) PROVE BaseInv'
    <2>1. tree' \in [Projects -> Trees \cup {NoTree}]
      <3>1. CASE UNCHANGED tree
        BY <3>1
      <3>2. CASE tree' = [tree EXCEPT ![m] = Intact({})]
        BY <3>2
      <3>3. QED
        BY <1>3, <3>1, <3>2 DEF MakeTreeFails
    <2>2. mpc' \in [Makers -> MakerSteps] /\ mresult' \in [Makers -> {"none", "ok", "error"}]
      BY <1>3 DEF MakeTreeFails
    <2>3. UNCHANGED << othersVars, writer, rows, making, slug, left, listed, synced, seen >>
      BY <1>3 DEF MakeTreeFails
    <2>4. QED
      BY <2>1, <2>2, <2>3
  <1>4. ASSUME RunPackwiz(m) PROVE BaseInv'
    BY <1>4 DEF RunPackwiz
  <1>5. ASSUME RunPackwizFails(m) PROVE BaseInv'
    BY <1>5 DEF RunPackwizFails
  <1>6. ASSUME InsertRow(m) PROVE BaseInv'
    BY <1>6 DEF InsertRow
  <1>7. ASSUME InsertRowFails(m) PROVE BaseInv'
    BY <1>7 DEF InsertRowFails
  <1>8. ASSUME SyncItems(m) PROVE BaseInv'
    BY <1>8 DEF SyncItems
  <1>9. ASSUME SyncItemsFails(m) PROVE BaseInv'
    BY <1>9 DEF SyncItemsFails
  <1>10. ASSUME Walk(m) PROVE BaseInv'
    BY <1>10 DEF Walk
  <1>11. ASSUME WalkFails(m) PROVE BaseInv'
    BY <1>11 DEF WalkFails
  <1>12. ASSUME Finish(m) PROVE BaseInv'
    BY <1>12 DEF Finish
  <1>13. ASSUME FinishFails(m) PROVE BaseInv'
    BY <1>13 DEF FinishFails
  <1>14. ASSUME DropRow(m) PROVE BaseInv'
    BY <1>14 DEF DropRow
  <1>15. ASSUME DropRowFails(m) PROVE BaseInv'
    BY <1>15 DEF DropRowFails
  <1>16. ASSUME Discard(m) PROVE BaseInv'
    BY <1>16 DEF Discard
  <1>17. ASSUME Leave(m) PROVE BaseInv'
    BY <1>17 DEF Leave
  <1>18. ASSUME LeftRollback(m) PROVE BaseInv'
    BY <1>18 DEF LeftRollback
  <1>19. QED
    BY <1>1, <1>2, <1>3, <1>4, <1>5, <1>6, <1>7, <1>8, <1>9, <1>10, <1>11, <1>12, <1>13,
       <1>14, <1>15, <1>16, <1>17, <1>18 DEF MakerStep, Make

(* A step changes nothing that is not of its range.                        *)
LEMMA NextBase == BaseInv /\ [LifeNext]_lifeVars => BaseInv'
  <1> SUFFICES ASSUME BaseInv, [LifeNext]_lifeVars PROVE BaseInv'
    OBVIOUS
  <1>1. CASE UNCHANGED lifeVars
    BY <1>1 DEF lifeVars, storeVars, packVars, makerVars, requestVars, diskVars, BaseInv,
                LifeTypeOK, TypeOK, LockHeld
  <1>2. QED
    BY <1>1, LifeSteps, EditorBase, MakerBase

(* Whatever fails, every variable keeps to its range: no visitor indexes   *)
(* or changes a tree that a maker has taken away in the meantime.          *)
THEOREM LifeTypeCorrect == LifeSpec => []LifeTypeOK
  <1>1. BaseInv => LifeTypeOK
    BY DEF BaseInv
  <1>2. QED
    BY <1>1, InitBase, NextBase, PTL DEF LifeSpec

-----------------------------------------------------------------------------
(* What a step leaves alone.                                               *)

(* A visitor, of a pack that is or was listed, changes its own pack and    *)
(* its own backup only, and its pack with the mutex held only.             *)
EditorLocal(r) ==
  /\ UNCHANGED << proj, op, mpc, making, left, mresult, listed, synced, seen >>
  /\ pc[r] # "idle" \/ proj[r] \in listed \/ UNCHANGED << pc, tree, rows >>
  /\ \A s \in Editors \ {r} : pc'[s] = pc[s] /\ backup'[s] = backup[s]
  /\ \A p \in Projects \ {proj[r]} :
       tree'[p] = tree[p] /\ rows'[p] = rows[p] /\ mutex'[p] = mutex[p]
  /\ pc[r] \notin Locked => UNCHANGED << tree, rows >>
  /\ rows' = rows \/ writer = r

(* Every step of a visitor is of this kind.                                *)
LEMMA EditorsAreLocal ==
  ASSUME BaseInv, NEW r \in Editors, EditorStep(r)
  PROVE  EditorLocal(r)
  <1>t. TypeOK
    BY DEF BaseInv, LifeTypeOK
  <1> USE DEF TypeOK, Locked, Jump, Err, InFlight, Applying, requestVars, diskVars
  <1> DEFINE Local ==
               /\ UNCHANGED << proj, op >>
               /\ pc[r] # "idle" \/ proj[r] \in listed \/ UNCHANGED << pc, tree, rows >>
               /\ \A s \in Editors \ {r} : pc'[s] = pc[s] /\ backup'[s] = backup[s]
               /\ \A p \in Projects \ {proj[r]} :
                    tree'[p] = tree[p] /\ rows'[p] = rows[p] /\ mutex'[p] = mutex[p]
               /\ pc[r] \notin Locked => UNCHANGED << tree, rows >>
               /\ rows' = rows \/ writer = r
  <1>1. ASSUME Begin(r), proj[r] \in listed PROVE Local
    BY <1>t, <1>1 DEF Begin
  <1>2. ASSUME VisitLost(r) PROVE Local
    BY <1>t, <1>2 DEF VisitLost
  <1>3. ASSUME TreeVanished(r) PROVE Local
    BY <1>t, <1>3 DEF TreeVanished
  <1>4. ASSUME Stage(r), proj[r] \in listed PROVE Local
    BY <1>t, <1>4 DEF Stage
  <1>5. ASSUME StageFails(r) PROVE Local
    BY <1>t, <1>5 DEF StageFails
  <1>6. ASSUME LockProject(r) PROVE Local
    BY <1>t, <1>6 DEF LockProject
  <1>7. ASSUME CopyTree(r) PROVE Local
    BY <1>t, <1>7 DEF CopyTree
  <1>8. ASSUME CopyFails(r) PROVE Local
    BY <1>t, <1>8 DEF CopyFails
  <1>9. ASSUME WriteFiles(r), tree[proj[r]] # NoTree PROVE Local
    BY <1>t, <1>9 DEF WriteFiles
  <1>10. ASSUME WipeTree(r) PROVE Local
    BY <1>t, <1>10 DEF WipeTree
  <1>11. ASSUME FillTree(r) PROVE Local
    BY <1>t, <1>11 DEF FillTree
  <1>12. ASSUME FillFails(r) PROVE Local
    BY <1>t, <1>12 DEF FillFails
  <1>13. ASSUME Refresh(r), tree[proj[r]] # NoTree PROVE Local
    BY <1>t, <1>13 DEF Refresh
  <1>14. ASSUME ApplyFails(r), tree[proj[r]] # NoTree PROVE Local
    BY <1>t, <1>14 DEF ApplyFails
  <1>15. ASSUME Commit(r) PROVE Local
    BY <1>t, <1>15 DEF Commit
  <1>16. ASSUME CommitFails(r) PROVE Local
    BY <1>t, <1>16 DEF CommitFails
  <1>17. ASSUME MoveAside(r) PROVE Local
    BY <1>t, <1>17 DEF MoveAside
  <1>18. ASSUME MoveAsideFails(r) PROVE Local
    BY <1>t, <1>18 DEF MoveAsideFails
  <1>19. ASSUME Restore(r) PROVE Local
    BY <1>t, <1>19 DEF Restore
  <1>20. ASSUME RestoreFails(r) PROVE Local
    BY <1>t, <1>20 DEF RestoreFails
  <1>21. ASSUME Purge(r) PROVE Local
    BY <1>t, <1>21 DEF Purge
  <1>22. ASSUME DropBackup(r) PROVE Local
    BY <1>t, <1>22 DEF DropBackup
  <1>23. ASSUME Unlock(r) PROVE Local
    BY <1>t, <1>23 DEF Unlock
  <1>24. ASSUME End(r) PROVE Local
    BY <1>t, <1>24 DEF End
  <1>r. ASSUME Unread(r) PROVE Local
    BY <1>t, <1>r DEF Unread
  <1>25. ASSUME Cancel(r) PROVE Local
    BY <1>t, <1>25 DEF Cancel
  <1>26. ASSUME AutoRollback(r) PROVE Local
    BY <1>t, <1>26, MakerFacts DEF AutoRollback
  <1>27. Local
    BY <1>1, <1>2, <1>3, <1>4, <1>5, <1>6, <1>7, <1>8, <1>9, <1>10, <1>11, <1>12, <1>13,
       <1>14, <1>15, <1>16, <1>17, <1>18, <1>19, <1>20, <1>21, <1>22, <1>23, <1>24,
       <1>25, <1>26, <1>r DEF EditorStep, Visit, VisitHandle, Handle, ReadBackFails, Applying,
       WriteFiles, Refresh, ApplyFails, Jump, Stage
  <1>28. QED
    BY <1>27 DEF EditorLocal, EditorStep, packVars, makerVars

(* A maker changes its own pack only, and no mutex, visitor or backup.     *)
MakerLocal(m) ==
  /\ UNCHANGED << pc, proj, op, result, cancelled, mutex, backup, making >>
  /\ \A n \in Makers \ {m} :
       /\ mpc'[n] = mpc[n] /\ mresult'[n] = mresult[n] /\ left'[n] = left[n]
       /\ seen'[n] = seen[n] /\ tree'[n] = tree[n] /\ rows'[n] = rows[n]
       /\ n \in listed' <=> n \in listed
       /\ n \in synced' <=> n \in synced

(* Every step of a maker is of this kind.                                  *)
LEMMA MakersAreLocal ==
  ASSUME BaseInv, NEW m \in Makers, MakerStep(m)
  PROVE  MakerLocal(m)
  <1> USE MakerFacts
  <1> USE DEF BaseInv, LifeTypeOK, TypeOK, MakerLocal, requestVars, diskVars, othersVars,
              storeVars, packVars, makerVars, Step, Refuse
  <1>1. ASSUME MBegin(m) PROVE MakerLocal(m)
    BY <1>1 DEF MBegin
  <1>2. ASSUME MakeTree(m) PROVE MakerLocal(m)
    BY <1>2 DEF MakeTree
  <1>3. ASSUME MakeTreeFails(m) PROVE MakerLocal(m)
    BY <1>3 DEF MakeTreeFails
  <1>4. ASSUME RunPackwiz(m) PROVE MakerLocal(m)
    BY <1>4 DEF RunPackwiz
  <1>5. ASSUME RunPackwizFails(m) PROVE MakerLocal(m)
    BY <1>5 DEF RunPackwizFails
  <1>6. ASSUME InsertRow(m) PROVE MakerLocal(m)
    BY <1>6 DEF InsertRow
  <1>7. ASSUME InsertRowFails(m) PROVE MakerLocal(m)
    BY <1>7 DEF InsertRowFails
  <1>8. ASSUME SyncItems(m) PROVE MakerLocal(m)
    BY <1>8 DEF SyncItems
  <1>9. ASSUME SyncItemsFails(m) PROVE MakerLocal(m)
    BY <1>9 DEF SyncItemsFails
  <1>10. ASSUME Walk(m) PROVE MakerLocal(m)
    BY <1>10 DEF Walk
  <1>11. ASSUME WalkFails(m) PROVE MakerLocal(m)
    BY <1>11 DEF WalkFails
  <1>12. ASSUME Finish(m) PROVE MakerLocal(m)
    BY <1>12 DEF Finish
  <1>13. ASSUME FinishFails(m) PROVE MakerLocal(m)
    BY <1>13 DEF FinishFails
  <1>14. ASSUME DropRow(m) PROVE MakerLocal(m)
    BY <1>14 DEF DropRow
  <1>15. ASSUME DropRowFails(m) PROVE MakerLocal(m)
    BY <1>15 DEF DropRowFails
  <1>16. ASSUME Discard(m) PROVE MakerLocal(m)
    BY <1>16 DEF Discard
  <1>17. ASSUME Leave(m) PROVE MakerLocal(m)
    BY <1>17 DEF Leave
  <1>18. ASSUME LeftRollback(m) PROVE MakerLocal(m)
    BY <1>18 DEF LeftRollback
  <1>19. QED
    BY <1>1, <1>2, <1>3, <1>4, <1>5, <1>6, <1>7, <1>8, <1>9, <1>10, <1>11, <1>12, <1>13,
       <1>14, <1>15, <1>16, <1>17, <1>18 DEF MakerStep, Make

-----------------------------------------------------------------------------
(* How far makers have come, whatever fails.                               *)

(* Nobody has begun.                                                       *)
LEMMA InitBirth == LifeInit => BirthInv
  BY MakerFacts DEF LifeInit, BirthInv, Progress, Newborn, Unvisited

(* Nobody visits a pack that is not listed, so no visitor disturbs the     *)
(* making of one.                                                          *)
LEMMA EditorBirth ==
  ASSUME BaseInv, BirthInv, NEW r \in Editors, EditorStep(r)
  PROVE  BirthInv'
  <1>1. EditorLocal(r)
    BY EditorsAreLocal
  <1>2. SUFFICES ASSUME NEW m \in Makers PROVE Progress(m)'
    BY DEF BirthInv
  <1>3. Progress(m)
    BY DEF BirthInv
  <1>4. ASSUME Newborn(m) PROVE Newborn(m)' /\ tree'[m] = tree[m]
    <2>1. proj[r] # m \/ UNCHANGED << pc, tree, rows >>
      BY <1>1, <1>4 DEF EditorLocal, Newborn, Unvisited
    <2>2. m \in Projects
      BY MakerFacts
    <2>3. QED
      BY <1>1, <1>4, <2>1, <2>2 DEF EditorLocal, Newborn, Unvisited
  <1>5. QED
    BY <1>1, <1>3, <1>4 DEF EditorLocal, Progress

(* Each step of a maker takes it where it says.                            *)
LEMMA MakerBirth ==
  ASSUME BaseInv, BirthInv, NEW m \in Makers, MakerStep(m)
  PROVE  BirthInv'
  <1>a. MakerLocal(m)
    BY MakersAreLocal
  <1>b. \A n \in Makers \ {m} : Progress(n)'
    <2>1. SUFFICES ASSUME NEW n \in Makers \ {m} PROVE Progress(n)'
      OBVIOUS
    <2>2. Progress(n)
      BY DEF BirthInv
    <2>3. QED
      BY <1>a, <2>2 DEF MakerLocal, Progress, Newborn, Unvisited
  <1>c. Progress(m)
    BY DEF BirthInv
  <1> USE MakerFacts
  <1> USE DEF BaseInv, LifeTypeOK, TypeOK, Progress, Newborn, Unvisited, requestVars, diskVars,
              othersVars, storeVars, packVars, makerVars, Step, Refuse
  <1>1. ASSUME MBegin(m) PROVE Progress(m)'
    BY <1>c, <1>1 DEF MBegin
  <1>2. ASSUME MakeTree(m) PROVE Progress(m)'
    BY <1>c, <1>2 DEF MakeTree
  <1>3. ASSUME MakeTreeFails(m) PROVE Progress(m)'
    BY <1>c, <1>3 DEF MakeTreeFails
  <1>4. ASSUME RunPackwiz(m) PROVE Progress(m)'
    BY <1>c, <1>4 DEF RunPackwiz
  <1>5. ASSUME RunPackwizFails(m) PROVE Progress(m)'
    BY <1>c, <1>5 DEF RunPackwizFails
  <1>6. ASSUME InsertRow(m) PROVE Progress(m)'
    BY <1>c, <1>6 DEF InsertRow
  <1>7. ASSUME InsertRowFails(m) PROVE Progress(m)'
    BY <1>c, <1>7 DEF InsertRowFails
  <1>8. ASSUME SyncItems(m) PROVE Progress(m)'
    BY <1>c, <1>8 DEF SyncItems
  <1>9. ASSUME SyncItemsFails(m) PROVE Progress(m)'
    BY <1>c, <1>9 DEF SyncItemsFails
  <1>10. ASSUME Walk(m) PROVE Progress(m)'
    BY <1>c, <1>10 DEF Walk
  <1>11. ASSUME WalkFails(m) PROVE Progress(m)'
    BY <1>c, <1>11 DEF WalkFails
  <1>12. ASSUME Finish(m) PROVE Progress(m)'
    BY <1>c, <1>12 DEF Finish
  <1>13. ASSUME FinishFails(m) PROVE Progress(m)'
    BY <1>c, <1>13 DEF FinishFails
  <1>14. ASSUME DropRow(m) PROVE Progress(m)'
    BY <1>c, <1>14 DEF DropRow
  <1>15. ASSUME DropRowFails(m) PROVE Progress(m)'
    BY <1>c, <1>15 DEF DropRowFails
  <1>16. ASSUME Discard(m) PROVE Progress(m)'
    BY <1>c, <1>16 DEF Discard
  <1>17. ASSUME Leave(m) PROVE Progress(m)'
    BY <1>c, <1>17 DEF Leave
  <1>18. ASSUME LeftRollback(m) PROVE Progress(m)'
    BY <1>c, <1>18 DEF LeftRollback
  <1>19. Progress(m)'
    BY <1>1, <1>2, <1>3, <1>4, <1>5, <1>6, <1>7, <1>8, <1>9, <1>10, <1>11, <1>12, <1>13,
       <1>14, <1>15, <1>16, <1>17, <1>18 DEF MakerStep, Make
  <1>20. QED
    BY <1>b, <1>19 DEF BirthInv

(* Visitors and makers together.                                           *)
LEMMA NextBirth == BaseInv /\ BirthInv /\ [LifeNext]_lifeVars => BirthInv'
  <1> SUFFICES ASSUME BaseInv, BirthInv, [LifeNext]_lifeVars PROVE BirthInv'
    OBVIOUS
  <1>1. CASE UNCHANGED lifeVars
    BY <1>1 DEF lifeVars, storeVars, packVars, makerVars, requestVars, diskVars, BirthInv,
                Progress, Newborn, Unvisited
  <1>2. QED
    BY <1>1, LifeSteps, EditorBirth, MakerBirth

(* Whatever fails and whoever leaves, a creation that is refused leaves    *)
(* neither a row nor a directory behind.                                   *)
THEOREM RefusedCreationsVanish == LifeSpec => []RefusedCreationLeavesNothing
  <1>1. LifeInit => BaseInv /\ BirthInv
    BY InitBase, InitBirth
  <1>2. BaseInv /\ BirthInv /\ [LifeNext]_lifeVars => (BaseInv /\ BirthInv)'
    BY NextBase, NextBirth
  <1>3. BirthInv => RefusedCreationLeavesNothing
    BY DEF BirthInv, Progress, Newborn, RefusedCreationLeavesNothing
  <1>4. QED
    BY <1>1, <1>2, <1>3, PTL DEF LifeSpec

-----------------------------------------------------------------------------
(* Who holds the write lock, if the clients of visitors stay.              *)

(* Nobody does at first.                                                   *)
LEMMA InitWriter == LifeInit => WriterInv
  BY DEF LifeInit, WriterInv, Uncommitted

(* A visitor gives the lock up by committing or at its end.                *)
LEMMA EditorWriter ==
  ASSUME Undisturbed, BaseInv, WriterInv, NEW r \in Editors, EditorStep(r)
  PROVE  WriterInv'
  <1>t. TypeOK /\ "cancel" \notin Faults
    BY DEF BaseInv, LifeTypeOK, Undisturbed
  <1>u. UNCHANGED << mpc, left >>
    BY DEF EditorStep, packVars, makerVars
  <1> USE <1>t, <1>u, MakerFacts
  <1> USE DEF TypeOK, WriterInv, Uncommitted, Jump, Err, InFlight, Applying, requestVars, diskVars
  <1>1. ASSUME Begin(r), proj[r] \in listed PROVE WriterInv'
    BY <1>1 DEF Begin
  <1>2. ASSUME VisitLost(r) PROVE WriterInv'
    BY <1>2 DEF VisitLost
  <1>3. ASSUME TreeVanished(r) PROVE WriterInv'
    BY <1>3 DEF TreeVanished
  <1>4. ASSUME Stage(r), proj[r] \in listed PROVE WriterInv'
    BY <1>4 DEF Stage
  <1>5. ASSUME StageFails(r) PROVE WriterInv'
    BY <1>5 DEF StageFails
  <1>6. ASSUME LockProject(r) PROVE WriterInv'
    BY <1>6 DEF LockProject
  <1>7. ASSUME CopyTree(r) PROVE WriterInv'
    BY <1>7 DEF CopyTree
  <1>8. ASSUME CopyFails(r) PROVE WriterInv'
    BY <1>8 DEF CopyFails
  <1>9. ASSUME WriteFiles(r), tree[proj[r]] # NoTree PROVE WriterInv'
    BY <1>9 DEF WriteFiles
  <1>10. ASSUME WipeTree(r) PROVE WriterInv'
    BY <1>10 DEF WipeTree
  <1>11. ASSUME FillTree(r) PROVE WriterInv'
    BY <1>11 DEF FillTree
  <1>12. ASSUME FillFails(r) PROVE WriterInv'
    BY <1>12 DEF FillFails
  <1>13. ASSUME Refresh(r), tree[proj[r]] # NoTree PROVE WriterInv'
    BY <1>13 DEF Refresh
  <1>14. ASSUME ApplyFails(r), tree[proj[r]] # NoTree PROVE WriterInv'
    BY <1>14 DEF ApplyFails
  <1>15. ASSUME Commit(r) PROVE WriterInv'
    BY <1>15 DEF Commit
  <1>16. ASSUME CommitFails(r) PROVE WriterInv'
    BY <1>16 DEF CommitFails
  <1>17. ASSUME MoveAside(r) PROVE WriterInv'
    BY <1>17 DEF MoveAside
  <1>18. ASSUME MoveAsideFails(r) PROVE WriterInv'
    BY <1>18 DEF MoveAsideFails
  <1>19. ASSUME Restore(r) PROVE WriterInv'
    BY <1>19 DEF Restore
  <1>20. ASSUME RestoreFails(r) PROVE WriterInv'
    BY <1>20 DEF RestoreFails
  <1>21. ASSUME Purge(r) PROVE WriterInv'
    BY <1>21 DEF Purge
  <1>22. ASSUME DropBackup(r) PROVE WriterInv'
    BY <1>22 DEF DropBackup
  <1>23. ASSUME Unlock(r) PROVE WriterInv'
    BY <1>23 DEF Unlock
  <1>24. ASSUME End(r) PROVE WriterInv'
    BY <1>24 DEF End
  <1>r. ASSUME Unread(r) PROVE WriterInv'
    BY <1>r DEF Unread
  <1>25. ASSUME Cancel(r) PROVE WriterInv'
    BY <1>25 DEF Cancel
  <1>26. ASSUME AutoRollback(r) PROVE WriterInv'
    BY <1>26 DEF AutoRollback
  <1>27. QED
    BY <1>1, <1>2, <1>3, <1>4, <1>5, <1>6, <1>7, <1>8, <1>9, <1>10, <1>11, <1>12, <1>13,
       <1>14, <1>15, <1>16, <1>17, <1>18, <1>19, <1>20, <1>21, <1>22, <1>23, <1>24,
       <1>25, <1>26, <1>r DEF EditorStep, Visit, VisitHandle, Handle, ReadBackFails, Applying,
       WriteFiles, Refresh, ApplyFails, Jump, Stage

(* A maker gives it up when it is done, fails, or its client has left.     *)
LEMMA MakerWriter ==
  ASSUME BaseInv, WriterInv, NEW m \in Makers, MakerStep(m)
  PROVE  WriterInv'
  <1> USE MakerFacts
  <1> USE DEF BaseInv, LifeTypeOK, WriterInv, Uncommitted, requestVars, diskVars,
              othersVars, storeVars, packVars, makerVars, Step, Refuse
  <1>1. ASSUME MBegin(m) PROVE WriterInv'
    BY <1>1 DEF MBegin
  <1>2. ASSUME MakeTree(m) PROVE WriterInv'
    BY <1>2 DEF MakeTree
  <1>3. ASSUME MakeTreeFails(m) PROVE WriterInv'
    BY <1>3 DEF MakeTreeFails
  <1>4. ASSUME RunPackwiz(m) PROVE WriterInv'
    BY <1>4 DEF RunPackwiz
  <1>5. ASSUME RunPackwizFails(m) PROVE WriterInv'
    BY <1>5 DEF RunPackwizFails
  <1>6. ASSUME InsertRow(m) PROVE WriterInv'
    BY <1>6 DEF InsertRow
  <1>7. ASSUME InsertRowFails(m) PROVE WriterInv'
    BY <1>7 DEF InsertRowFails
  <1>8. ASSUME SyncItems(m) PROVE WriterInv'
    BY <1>8 DEF SyncItems
  <1>9. ASSUME SyncItemsFails(m) PROVE WriterInv'
    BY <1>9 DEF SyncItemsFails
  <1>10. ASSUME Walk(m) PROVE WriterInv'
    BY <1>10 DEF Walk
  <1>11. ASSUME WalkFails(m) PROVE WriterInv'
    BY <1>11 DEF WalkFails
  <1>12. ASSUME Finish(m) PROVE WriterInv'
    BY <1>12 DEF Finish
  <1>13. ASSUME FinishFails(m) PROVE WriterInv'
    BY <1>13 DEF FinishFails
  <1>14. ASSUME DropRow(m) PROVE WriterInv'
    BY <1>14 DEF DropRow
  <1>15. ASSUME DropRowFails(m) PROVE WriterInv'
    BY <1>15 DEF DropRowFails
  <1>16. ASSUME Discard(m) PROVE WriterInv'
    BY <1>16 DEF Discard
  <1>17. ASSUME Leave(m) PROVE WriterInv'
    BY <1>17 DEF Leave
  <1>18. ASSUME LeftRollback(m) PROVE WriterInv'
    BY <1>18 DEF LeftRollback
  <1>19. QED
    BY <1>1, <1>2, <1>3, <1>4, <1>5, <1>6, <1>7, <1>8, <1>9, <1>10, <1>11, <1>12, <1>13,
       <1>14, <1>15, <1>16, <1>17, <1>18 DEF MakerStep, Make

-----------------------------------------------------------------------------
(* What a listed pack is like that its maker has not given up.             *)

(* No pack is listed.                                                      *)
LEMMA InitHealth == LifeInit => HealthInv
  BY DEF LifeInit, HealthInv, Healthy, TreeSoFar, InDoubt

(* A visitor does not touch what another has made of its tree.             *)
LEMMA OtherVisitors ==
  ASSUME BaseInv, NEW r \in Editors, EditorLocal(r),
         NEW s \in Editors \ {r}, TreeSoFar(s)
  PROVE  TreeSoFar(s)'
  <1>1. pc'[s] = pc[s] /\ backup'[s] = backup[s] /\ UNCHANGED << proj, op >>
    BY DEF EditorLocal
  <1>2. CASE pc[s] \notin Locked
    BY <1>1, <1>2 DEF TreeSoFar, Locked, InDoubt
  <1>3. CASE pc[s] \in Locked
    <2>1. pc[r] \notin Locked \/ proj[s] # proj[r]
      BY <1>3, OneAtATime
    <2>2. tree'[proj[s]] = tree[proj[s]] /\ rows'[proj[s]] = rows[proj[s]]
      BY <2>1 DEF EditorLocal, BaseInv, LifeTypeOK, TypeOK
    <2>3. QED
      BY <1>1, <2>2 DEF TreeSoFar, Intended, Intact
  <1>4. QED
    BY <1>2, <1>3

(* Nor a pack it does not visit.                                           *)
LEMMA OtherPacks ==
  ASSUME BaseInv, NEW r \in Editors, EditorLocal(r),
         NEW p \in Projects \ {proj[r]}, Settled(p)
  PROVE  Settled(p)'
  <1>1. tree'[p] = tree[p] /\ rows'[p] = rows[p] /\ mutex'[p] = mutex[p]
    BY DEF EditorLocal
  <1>2. mutex[p] \in Editors => mutex[p] # r /\ pc'[mutex[p]] = pc[mutex[p]]
    BY DEF EditorLocal, BaseInv, LockHeld
  <1>3. QED
    BY <1>1, <1>2 DEF Settled, Intact

(* What a step of a visitor makes of its own healthy pack.                 *)
LEMMA OwnPack ==
  ASSUME Undisturbed, BaseInv, BaseInv', WriterInv, NEW r \in Editors, EditorStep(r),
         TreeSoFar(r), Settled(proj[r]), proj[r] \in listed
  PROVE  TreeSoFar(r)' /\ Settled(proj[r])'
  <1>t. TypeOK /\ LockHeld /\ LockHeld'
    BY DEF BaseInv, LifeTypeOK
  <1>f. "wipe" \notin Faults /\ "rename" \notin Faults /\ ~cancelled[r] /\ "cancel" \notin Faults
    BY DEF Undisturbed, WriterInv
  <1>h. proj[r] \in Projects /\ (pc[r] \in Locked => mutex[proj[r]] = r)
    BY <1>t DEF TypeOK, LockHeld
  <1>o. \A s \in Editors \ {r} : pc'[s] = pc[s]
    BY EditorsAreLocal DEF EditorLocal
  <1> DEFINE Own == TreeSoFar(r)' /\ Settled(proj[r])'
  <1>k. ASSUME UNCHANGED << proj, op, tree, rows >>, mutex'[proj[r]] = mutex[proj[r]],
               pc[r] \notin InDoubt, pc'[r] \notin InDoubt
        PROVE  Own
    <2>1. TreeSoFar(r)'
      BY <1>k DEF TreeSoFar, InDoubt
    <2>2. tree[proj[r]] = Intact(rows[proj[r]]) \/ (mutex[proj[r]] \in Editors \ {r}
                                                      /\ pc[mutex[proj[r]]] \in InDoubt)
      BY <1>k DEF Settled
    <2>3. QED
      BY <1>k, <1>o, <2>1, <2>2 DEF Settled, Intact
  <1> USE <1>f, <1>h, NoTreeAssumption
  <1> USE DEF TypeOK, Locked, InDoubt, Jump, Err, InFlight, Applying, requestVars, diskVars
  <1>1. ASSUME Begin(r), proj[r] \in listed PROVE Own
    BY <1>t, <1>1, <1>k DEF Begin
  <1>2. ASSUME VisitLost(r) PROVE Own
    BY <1>t, <1>2, <1>k DEF VisitLost
  <1>3. ASSUME TreeVanished(r) PROVE Own
    <2>1. tree[proj[r]] = NoTree /\ pc[r] \in {"apply", "refresh"}
      BY <1>3 DEF TreeVanished
    <2>2. QED
      BY <1>t, <2>1 DEF TreeSoFar, Intact, Trees
  <1>4. ASSUME Stage(r), proj[r] \in listed PROVE Own
    BY <1>t, <1>4, <1>k DEF Stage
  <1>5. ASSUME StageFails(r) PROVE Own
    BY <1>t, <1>5, <1>k DEF StageFails
  <1>6. ASSUME LockProject(r) PROVE Own
    <2>1. mutex[proj[r]] = NoOne /\ mutex'[proj[r]] = r
      BY <1>t, <1>6 DEF LockProject
    <2>2. QED
      BY <1>t, <1>6, <2>1, MakerFacts DEF LockProject, TreeSoFar, Settled, Intact
  <1>7. ASSUME CopyTree(r) PROVE Own
    <2>1. tree[proj[r]] = Intact(rows[proj[r]])
      BY <1>t, <1>7 DEF CopyTree, Settled
    <2>2. QED
      BY <1>t, <1>7, <2>1 DEF CopyTree, TreeSoFar, Settled, Intact
  <1>8. ASSUME CopyFails(r) PROVE Own
    BY <1>t, <1>8, <1>k DEF CopyFails
  <1>9. ASSUME WriteFiles(r), tree[proj[r]] # NoTree PROVE Own
    <2>1. tree[proj[r]] = Intact(rows[proj[r]]) /\ Intact(rows[proj[r]]) \in Trees
      BY <1>t, <1>9 DEF WriteFiles, TreeSoFar, Intact, Trees
    <2>2. tree'[proj[r]] \in Trees /\ tree'[proj[r]].files = Intended(r)
      BY <1>t, <1>9, <2>1 DEF WriteFiles, Intact, Intended, Trees
    <2>3. QED
      BY <1>t, <1>9, <2>2 DEF WriteFiles, TreeSoFar, Settled, Intact, Intended
  <1>10. ASSUME WipeTree(r) PROVE Own
    BY <1>t, <1>10 DEF WipeTree, TreeSoFar, Settled, Intact
  <1>11. ASSUME FillTree(r) PROVE Own
    <2>1. op[r] = "replace"
      BY <1>t, <1>11 DEF FillTree, TreeSoFar
    <2>2. tree'[proj[r]] \in Trees /\ tree'[proj[r]].files = Intended(r)
      BY <1>t, <1>11, <2>1 DEF FillTree, Intended, Trees
    <2>3. QED
      BY <1>t, <1>11, <2>2 DEF FillTree, TreeSoFar, Settled, Intact, Intended
  <1>12. ASSUME FillFails(r) PROVE Own
    BY <1>12 DEF FillFails
  <1>13. ASSUME Refresh(r), tree[proj[r]] # NoTree PROVE Own
    <2>1. tree[proj[r]] \in Trees /\ tree[proj[r]].files = Intended(r)
      BY <1>t, <1>13 DEF Refresh, TreeSoFar
    <2>2. tree'[proj[r]] = Intact(Intended(r))
      BY <1>t, <1>13, <2>1 DEF Refresh, Intact, Trees
    <2>3. QED
      BY <1>t, <1>13, <2>2 DEF Refresh, TreeSoFar, Settled, Intact, Intended
  <1>14. ASSUME ApplyFails(r), tree[proj[r]] # NoTree PROVE Own
    <2>1. tree[proj[r]] \in Trees
      BY <1>t, <1>14
    <2>2. tree'[proj[r]] \in Trees /\ tree'[proj[r]] # NoTree
      BY <1>t, <1>14, <2>1 DEF ApplyFails, Trees
    <2>3. pc'[r] = "aside" /\ pc[r] \in {"apply", "refresh"}
      BY <1>t, <1>14 DEF ApplyFails
    <2>4. UNCHANGED << proj, op, rows, backup, mutex >>
      BY <1>14 DEF ApplyFails
    <2>5. QED
      BY <1>t, <2>2, <2>3, <2>4 DEF TreeSoFar, Settled, Intact
  <1>15. ASSUME Commit(r) PROVE Own
    <2>1. tree'[proj[r]] = Intact(rows'[proj[r]])
      BY <1>t, <1>15 DEF Commit, TreeSoFar
    <2>2. QED
      BY <1>t, <1>15, <2>1 DEF Commit, TreeSoFar, Settled
  <1>16. ASSUME CommitFails(r) PROVE Own
    BY <1>16 DEF CommitFails
  <1>17. ASSUME MoveAside(r) PROVE Own
    BY <1>t, <1>17 DEF MoveAside, TreeSoFar, Settled, Intact
  <1>18. ASSUME MoveAsideFails(r) PROVE Own
    BY <1>t, <1>18 DEF MoveAsideFails, TreeSoFar
  <1>19. ASSUME Restore(r) PROVE Own
    <2>1. tree'[proj[r]] = Intact(rows'[proj[r]])
      BY <1>t, <1>19 DEF Restore, TreeSoFar
    <2>2. QED
      BY <1>t, <1>19, <2>1 DEF Restore, TreeSoFar, Settled
  <1>20. ASSUME RestoreFails(r) PROVE Own
    BY <1>20 DEF RestoreFails
  <1>21. ASSUME Purge(r) PROVE Own
    BY <1>t, <1>21, <1>k DEF Purge
  <1>22. ASSUME DropBackup(r) PROVE Own
    BY <1>t, <1>22, <1>k DEF DropBackup
  <1>23. ASSUME Unlock(r) PROVE Own
    <2>1. mutex[proj[r]] = r /\ tree[proj[r]] = Intact(rows[proj[r]])
      BY <1>t, <1>23 DEF Unlock, Settled
    <2>2. QED
      BY <1>t, <1>23, <2>1 DEF Unlock, TreeSoFar, Settled, Intact
  <1>24. ASSUME End(r) PROVE Own
    BY <1>t, <1>24, <1>k DEF End
  <1>r. ASSUME Unread(r) PROVE Own
    BY <1>t, <1>r, <1>k DEF Unread
  <1>25. ASSUME Cancel(r) PROVE Own
    BY <1>25 DEF Cancel
  <1>26. ASSUME AutoRollback(r) PROVE Own
    BY <1>26 DEF AutoRollback
  <1>27. QED
    BY <1>1, <1>2, <1>3, <1>4, <1>5, <1>6, <1>7, <1>8, <1>9, <1>10, <1>11, <1>12, <1>13,
       <1>14, <1>15, <1>16, <1>17, <1>18, <1>19, <1>20, <1>21, <1>22, <1>23, <1>24,
       <1>25, <1>26, <1>r DEF EditorStep, Visit, VisitHandle, Handle, ReadBackFails, Applying,
       WriteFiles, Refresh, ApplyFails, Jump, Stage

(* Visitors keep healthy packs healthy, and a pack that is being           *)
(* synchronised as it is: its maker has the write lock.                    *)
LEMMA EditorHealth ==
  ASSUME Undisturbed, BaseInv, BaseInv', WriterInv, HealthInv, NEW r \in Editors, EditorStep(r)
  PROVE  HealthInv'
  <1>1. EditorLocal(r)
    BY EditorsAreLocal
  <1>2. \A p : Healthy(p)' <=> Healthy(p)
    BY <1>1 DEF EditorLocal, Healthy
  <1>3. proj' = proj /\ proj[r] \in Projects
    BY <1>1 DEF EditorLocal, BaseInv, LifeTypeOK, TypeOK
  <1>4. Healthy(proj[r]) => TreeSoFar(r)' /\ Settled(proj[r])'
    BY <1>3, OwnPack DEF HealthInv, Healthy
  <1>5. \A p \in Projects : Healthy(p)' => Settled(p)'
    <2>1. SUFFICES ASSUME NEW p \in Projects, Healthy(p) PROVE Settled(p)'
      BY <1>2
    <2>2. CASE p = proj[r]
      BY <1>3, <1>4, <2>1, <2>2
    <2>3. CASE p # proj[r]
      BY <1>1, <2>1, <2>3, OtherPacks DEF HealthInv
    <2>4. QED
      BY <2>2, <2>3
  <1>6. \A s \in Editors : Healthy(proj[s])' => TreeSoFar(s)'
    BY <1>1, <1>2, <1>3, <1>4, OtherVisitors DEF HealthInv
  <1>7. ASSUME NEW m \in Makers, mpc'[m] = "finish", ~left'[m] PROVE seen'[m] = rows'[m]
    <2>1. mpc[m] = "finish" /\ ~left[m] /\ seen'[m] = seen[m]
      BY <1>1, <1>7 DEF EditorLocal
    <2>2. writer = m /\ seen[m] = rows[m]
      BY <2>1 DEF WriterInv, HealthInv
    <2>3. rows' = rows
      BY <1>1, <2>2, MakerFacts DEF EditorLocal
    <2>4. QED
      BY <2>1, <2>2, <2>3
  <1>8. QED
    BY <1>5, <1>6, <1>7 DEF HealthInv

(* The pack of a maker that has not been visited is as its maker made it.  *)
LEMMA UnvisitedPack ==
  ASSUME BaseInv, NEW m \in Makers, Unvisited(m)
  PROVE  mutex[m] \notin Editors /\ \A r \in Editors : proj[r] = m => TreeSoFar(r)
  BY MakerFacts DEF BaseInv, LockHeld, Unvisited, Locked, TreeSoFar, InDoubt

(* While a maker has the write lock no visitor is in doubt.                *)
LEMMA NoDoubtWhileSyncing ==
  ASSUME BaseInv, WriterInv, NEW m \in Makers, writer = m, Settled(m)
  PROVE  tree[m] = Intact(rows[m])
  <1>1. \A r \in Editors : pc[r] \notin InDoubt
    BY MakerFacts DEF WriterInv, Uncommitted, InDoubt
  <1>2. QED
    BY <1>1 DEF Settled

(* Makers list healthy packs, and find in them what the rows say.          *)
LEMMA MakerHealth ==
  ASSUME BaseInv, BirthInv, WriterInv, HealthInv, NEW m \in Makers, MakerStep(m)
  PROVE  HealthInv'
  <1>a. MakerLocal(m) /\ Progress(m) /\ m \in Projects
    BY MakersAreLocal, MakerFacts DEF BirthInv
  <1>b. UNCHANGED << pc, proj, op, mutex, backup >>
    BY <1>a DEF MakerLocal
  <1>c. ASSUME NEW n \in Makers \ {m}
        PROVE  /\ Healthy(n)' => Settled(n)'
               /\ \A r \in Editors : proj[r] = n /\ Healthy(n)' => TreeSoFar(r)'
               /\ mpc'[n] = "finish" /\ ~left'[n] => seen'[n] = rows'[n]
    <2>1. /\ mpc'[n] = mpc[n] /\ left'[n] = left[n] /\ seen'[n] = seen[n]
          /\ tree'[n] = tree[n] /\ rows'[n] = rows[n] /\ (Healthy(n)' <=> Healthy(n))
      BY <1>a DEF MakerLocal, Healthy
    <2>2. n \in Projects
      BY MakerFacts
    <2>3. Healthy(n)' => Settled(n)'
      BY <1>b, <2>1, <2>2 DEF HealthInv, Settled, Intact
    <2>4. \A r \in Editors : proj[r] = n /\ Healthy(n)' => TreeSoFar(r)'
      <3>1. SUFFICES ASSUME NEW r \in Editors, proj[r] = n, Healthy(n) PROVE TreeSoFar(r)'
        BY <2>1
      <3>2. /\ TreeSoFar(r)
            /\ tree'[proj'[r]] = tree[proj[r]] /\ rows'[proj'[r]] = rows[proj[r]]
        BY <1>b, <2>1, <3>1 DEF HealthInv
      <3>3. QED
        BY <1>b, <3>2 DEF TreeSoFar, Intended, Intact
    <2>5. mpc'[n] = "finish" /\ ~left'[n] => seen'[n] = rows'[n]
      BY <2>1 DEF HealthInv
    <2>6. QED
      BY <2>3, <2>4, <2>5
  <1> DEFINE Own == /\ Healthy(m)' => Settled(m)'
                    /\ \A r \in Editors : proj[r] = m /\ Healthy(m)' => TreeSoFar(r)'
                    /\ mpc'[m] = "finish" /\ ~left'[m] => seen'[m] = rows'[m]
  <1>d. ASSUME ~Healthy(m)', mpc'[m] # "finish" \/ left'[m] PROVE Own
    BY <1>d
  <1>e. ASSUME UNCHANGED << tree, rows >>, Healthy(m)' => Healthy(m),
               mpc'[m] # "finish" \/ left'[m] \/ (mpc[m] = "finish" /\ ~left[m] /\ seen' = seen)
        PROVE  Own
    BY <1>a, <1>b, <1>e DEF HealthInv, Settled, TreeSoFar, Intended, Intact
  <1> USE DEF Healthy, Step, Refuse, storeVars, othersVars, makerVars, packVars, requestVars,
              diskVars, BaseInv, LifeTypeOK, TypeOK
  <1>1. ASSUME MBegin(m) PROVE Own
    BY <1>a, <1>1, <1>d DEF MBegin, Progress, Newborn
  <1>2. ASSUME MakeTree(m) PROVE Own
    BY <1>a, <1>2, <1>d DEF MakeTree, Progress, Newborn
  <1>3. ASSUME MakeTreeFails(m) PROVE Own
    BY <1>a, <1>3, <1>d DEF MakeTreeFails, Progress, Newborn
  <1>4. ASSUME RunPackwiz(m) PROVE Own
    BY <1>a, <1>4, <1>d DEF RunPackwiz, Progress, Newborn
  <1>5. ASSUME RunPackwizFails(m) PROVE Own
    BY <1>a, <1>5, <1>d DEF RunPackwizFails, Progress, Newborn
  <1>6. ASSUME InsertRow(m) PROVE Own
    <2>1. /\ Unvisited(m) /\ rows[m] = {} /\ tree[m] = Intact({})
          /\ UNCHANGED << tree, rows >> /\ mpc'[m] # "finish"
      BY <1>a, <1>6 DEF InsertRow, Progress, Newborn
    <2>2. mutex[m] \notin Editors /\ \A r \in Editors : proj[r] = m => pc[r] = "idle"
      BY <2>1, UnvisitedPack DEF Unvisited
    <2>3. Settled(m)' /\ \A r \in Editors : proj[r] = m => TreeSoFar(r)'
      BY <1>b, <2>1, <2>2 DEF Settled, TreeSoFar, InDoubt
    <2>4. QED
      BY <2>1, <2>3
  <1>7. ASSUME InsertRowFails(m) PROVE Own
    BY <1>a, <1>7, <1>d DEF InsertRowFails, Progress, Newborn
  <1>8. ASSUME SyncItems(m) PROVE Own
    BY <1>a, <1>8, <1>e DEF SyncItems, Progress
  <1>9. ASSUME SyncItemsFails(m) PROVE Own
    BY <1>a, <1>9, <1>d DEF SyncItemsFails, Progress, Newborn
  <1>10. ASSUME Walk(m) PROVE Own
    <2>1. writer = m /\ Healthy(m) /\ UNCHANGED << tree, rows, listed, mresult >>
      BY <1>a, <1>10 DEF Walk, Progress, WriterInv
    <2>2. tree[m] = Intact(rows[m])
      BY <1>a, <2>1, NoDoubtWhileSyncing DEF HealthInv
    <2>3. seen'[m] = rows'[m]
      BY <1>10, <2>1, <2>2 DEF Walk, Intact
    <2>4. (Healthy(m)' => Settled(m)') /\ \A r \in Editors : proj[r] = m => TreeSoFar(r)'
      BY <1>a, <1>b, <2>1 DEF HealthInv, Settled, TreeSoFar, Intended, Intact
    <2>5. QED
      BY <2>3, <2>4
  <1>11. ASSUME WalkFails(m) PROVE Own
    BY <1>a, <1>11, <1>d DEF WalkFails, Progress, Newborn
  <1>12. ASSUME Finish(m) PROVE Own
    <2>1. seen[m] = rows[m] /\ Healthy(m)
      BY <1>a, <1>12 DEF Finish, Progress, HealthInv
    <2>2. UNCHANGED << tree, rows >> /\ mpc'[m] = "done"
      BY <1>12, <2>1, <1>a DEF Finish
    <2>3. QED
      BY <2>1, <2>2, <1>e
  <1>13. ASSUME FinishFails(m) PROVE Own
    BY <1>a, <1>13, <1>d DEF FinishFails, Progress, Newborn
  <1>14. ASSUME DropRow(m) PROVE Own
    BY <1>a, <1>14, <1>d DEF DropRow, Progress, Newborn
  <1>15. ASSUME DropRowFails(m) PROVE Own
    BY <1>a, <1>15, <1>d DEF DropRowFails, Progress, Newborn
  <1>16. ASSUME Discard(m) PROVE Own
    BY <1>a, <1>16, <1>d DEF Discard, Progress, Newborn
  <1>17. ASSUME Leave(m) PROVE Own
    BY <1>a, <1>17, <1>e DEF Leave, Progress
  <1>18. ASSUME LeftRollback(m) PROVE Own
    BY <1>a, <1>18, <1>e DEF LeftRollback, Progress
  <1>19. Own
    BY <1>1, <1>2, <1>3, <1>4, <1>5, <1>6, <1>7, <1>8, <1>9, <1>10, <1>11, <1>12, <1>13,
       <1>14, <1>15, <1>16, <1>17, <1>18 DEF MakerStep, Make
  <1>20. \A p \in Projects : Healthy(p)' => Settled(p)'
    BY <1>c, <1>19, MakerFacts
  <1>21. \A r \in Editors : Healthy(proj[r])' => TreeSoFar(r)'
    <2>1. SUFFICES ASSUME NEW r \in Editors, Healthy(proj[r])' PROVE TreeSoFar(r)'
      OBVIOUS
    <2>2. proj'[r] = proj[r] /\ proj[r] \in Makers
      BY <1>b, MakerFacts
    <2>3. CASE proj[r] = m
      BY <1>19, <2>1, <2>2, <2>3
    <2>4. CASE proj[r] # m
      BY <1>c, <2>1, <2>2, <2>4
    <2>5. QED
      BY <2>3, <2>4
  <1>22. QED
    BY <1>c, <1>19, <1>20, <1>21 DEF HealthInv

-----------------------------------------------------------------------------
(* All of it together.                                                     *)

LifeInv == BaseInv /\ BirthInv /\ WriterInv /\ HealthInv

(* Visitors that stay and disks that work keep all invariants.             *)
LEMMA NextLife ==
  ASSUME Undisturbed, LifeInv, [LifeNext]_lifeVars
  PROVE  LifeInv'
  <1>1. BaseInv' /\ BirthInv'
    BY NextBase, NextBirth DEF LifeInv
  <1>2. CASE UNCHANGED lifeVars
    BY <1>1, <1>2 DEF lifeVars, storeVars, packVars, makerVars, requestVars, diskVars, LifeInv,
         WriterInv, HealthInv, Healthy, Settled, TreeSoFar, Intended, Intact
  <1>3. ASSUME NEW r \in Editors, EditorStep(r) PROVE LifeInv'
    BY <1>1, <1>3, EditorWriter, EditorHealth DEF LifeInv
  <1>4. ASSUME NEW m \in Makers, MakerStep(m) PROVE LifeInv'
    BY <1>1, <1>4, MakerWriter, MakerHealth DEF LifeInv
  <1>5. QED
    BY <1>2, <1>3, <1>4, LifeSteps

(* They hold throughout.                                                   *)
LEMMA LifeInvariants == Undisturbed => (LifeSpec => []LifeInv)
  <1> SUFFICES ASSUME Undisturbed PROVE LifeSpec => []LifeInv
    OBVIOUS
  <1>1. LifeInit => LifeInv
    BY InitBase, InitBirth, InitWriter, InitHealth DEF LifeInv
  <1>2. LifeInv /\ [LifeNext]_lifeVars => LifeInv'
    BY NextLife
  <1>3. QED
    BY <1>1, <1>2, PTL DEF LifeSpec

(* A pack whose maker was told that it succeeded is listed, synchronised,  *)
(* and between mutations has the valid tree its rows describe, whatever    *)
(* visitors did to it while it was being imported.                         *)
THEOREM AnsweredPacksAreWhole == Undisturbed => (LifeSpec => []AnsweredPackIsWhole)
  <1>1. ASSUME LifeInv, NEW m \in Makers, mresult[m] = "ok"
        PROVE  /\ m \in listed
               /\ making[m] = "import" => m \in synced
               /\ mutex[m] = NoOne => tree[m] = Intact(rows[m])
    <2>1. m \in Projects /\ Progress(m) /\ Healthy(m)
      BY <1>1, MakerFacts DEF LifeInv, BirthInv, Progress, Healthy
    <2>2. Settled(m)
      BY <1>1, <2>1 DEF LifeInv, HealthInv
    <2>3. QED
      BY <1>1, <2>1, <2>2, MakerFacts DEF Progress, Settled
  <1>2. LifeInv => AnsweredPackIsWhole
    BY <1>1 DEF AnsweredPackIsWhole
  <1>3. QED
    BY <1>2, LifeInvariants, PTL

-----------------------------------------------------------------------------
(* What visitors are told.                                                 *)

(* Nobody is told anything, and there are no rows.                         *)
LEMMA InitAnswer == LifeInit => AnswerInv
  BY DEF LifeInit, AnswerInv

(* A visitor gets a row and its success in one step.                       *)
LEMMA EditorAnswer ==
  ASSUME Undisturbed, BaseInv, WriterInv, AnswerInv, NEW r \in Editors, EditorStep(r)
  PROVE  AnswerInv'
  <1>t. TypeOK
    BY DEF BaseInv, LifeTypeOK
  <1>u. UNCHANGED << listed, op, proj >>
    BY EditorsAreLocal DEF EditorLocal
  <1> USE <1>t, <1>u
  <1> USE DEF TypeOK, AnswerInv, Stored, Undecided, Jump, Err, InFlight, Applying, requestVars,
              diskVars
  <1>1. ASSUME Begin(r), proj[r] \in listed PROVE AnswerInv'
    BY <1>1 DEF Begin
  <1>2. ASSUME VisitLost(r) PROVE AnswerInv'
    BY <1>2 DEF VisitLost
  <1>3. ASSUME TreeVanished(r) PROVE AnswerInv'
    BY <1>3 DEF TreeVanished
  <1>4. ASSUME Stage(r), proj[r] \in listed PROVE AnswerInv'
    BY <1>4 DEF Stage
  <1>5. ASSUME StageFails(r) PROVE AnswerInv'
    BY <1>5 DEF StageFails
  <1>6. ASSUME LockProject(r) PROVE AnswerInv'
    BY <1>6 DEF LockProject
  <1>7. ASSUME CopyTree(r) PROVE AnswerInv'
    BY <1>7 DEF CopyTree
  <1>8. ASSUME CopyFails(r) PROVE AnswerInv'
    BY <1>8 DEF CopyFails
  <1>9. ASSUME WriteFiles(r), tree[proj[r]] # NoTree PROVE AnswerInv'
    BY <1>9 DEF WriteFiles
  <1>10. ASSUME WipeTree(r) PROVE AnswerInv'
    BY <1>10 DEF WipeTree
  <1>11. ASSUME FillTree(r) PROVE AnswerInv'
    BY <1>11 DEF FillTree
  <1>12. ASSUME FillFails(r) PROVE AnswerInv'
    BY <1>12 DEF FillFails
  <1>13. ASSUME Refresh(r), tree[proj[r]] # NoTree PROVE AnswerInv'
    BY <1>13 DEF Refresh
  <1>14. ASSUME ApplyFails(r), tree[proj[r]] # NoTree PROVE AnswerInv'
    BY <1>14 DEF ApplyFails
  <1>15. ASSUME Commit(r) PROVE AnswerInv'
    BY <1>15 DEF Commit, Intended
  <1>16. ASSUME CommitFails(r) PROVE AnswerInv'
    BY <1>16 DEF CommitFails
  <1>17. ASSUME MoveAside(r) PROVE AnswerInv'
    BY <1>17 DEF MoveAside
  <1>18. ASSUME MoveAsideFails(r) PROVE AnswerInv'
    BY <1>18 DEF MoveAsideFails
  <1>19. ASSUME Restore(r) PROVE AnswerInv'
    BY <1>19 DEF Restore
  <1>20. ASSUME RestoreFails(r) PROVE AnswerInv'
    BY <1>20 DEF RestoreFails
  <1>21. ASSUME Purge(r) PROVE AnswerInv'
    BY <1>21 DEF Purge
  <1>22. ASSUME DropBackup(r) PROVE AnswerInv'
    BY <1>22 DEF DropBackup
  <1>23. ASSUME Unlock(r) PROVE AnswerInv'
    BY <1>23 DEF Unlock
  <1>24. ASSUME End(r) PROVE AnswerInv'
    BY <1>24 DEF End
  <1>r. ASSUME Unread(r) PROVE AnswerInv'
    BY <1>r DEF Unread, ReadsBack
  <1>25. ASSUME Cancel(r) PROVE AnswerInv'
    BY <1>25 DEF Cancel
  <1>26. ASSUME AutoRollback(r) PROVE AnswerInv'
    BY <1>26 DEF AutoRollback
  <1>27. QED
    BY <1>1, <1>2, <1>3, <1>4, <1>5, <1>6, <1>7, <1>8, <1>9, <1>10, <1>11, <1>12, <1>13,
       <1>14, <1>15, <1>16, <1>17, <1>18, <1>19, <1>20, <1>21, <1>22, <1>23, <1>24,
       <1>25, <1>26, <1>r DEF EditorStep, Visit, VisitHandle, Handle, ReadBackFails, Applying,
       WriteFiles, Refresh, ApplyFails, Jump, Stage

(* A maker that has synchronised the items of its pack finds the rows it   *)
(* is about to write; one that gives up takes its pack off the list.       *)
LEMMA MakerAnswer ==
  ASSUME LifeInv, AnswerInv, NEW m \in Makers, MakerStep(m)
  PROVE  AnswerInv'
  <1>1. UNCHANGED << pc, proj, op, result >>
    BY MakersAreLocal DEF LifeInv, MakerLocal
  <1>2. \/ rows' = rows
        \/ rows' = [rows EXCEPT ![m] = {}] /\ m \notin listed'
    <2>1. CASE Finish(m)
      <3>1. seen[m] = rows[m]
        BY <2>1 DEF Finish, Step, LifeInv, HealthInv
      <3>2. QED
        BY <2>1, <3>1 DEF Finish, LifeInv, BaseInv, LifeTypeOK, TypeOK
    <2>2. CASE DropRow(m)
      BY <2>2 DEF DropRow
    <2>3. CASE ~Finish(m) /\ ~DropRow(m)
      BY <2>3 DEF MakerStep, Make, MBegin, MakeTree, MakeTreeFails, RunPackwiz, RunPackwizFails,
           InsertRow, InsertRowFails, SyncItems, SyncItemsFails, Walk, WalkFails, FinishFails,
           DropRowFails, Discard, Leave, LeftRollback, storeVars
    <2>4. QED
      BY <2>1, <2>2, <2>3
  <1>3. listed' \subseteq listed \/ (listed' = listed \cup {m} /\ Unvisited(m) /\ rows' = rows)
    <2>1. CASE InsertRow(m)
      BY <2>1 DEF InsertRow, Step, storeVars, LifeInv, BirthInv, Progress, Newborn
    <2>2. CASE ~InsertRow(m)
      BY <2>2 DEF MakerStep, Make, MBegin, MakeTree, MakeTreeFails, RunPackwiz, RunPackwizFails,
           InsertRowFails, SyncItems, SyncItemsFails, Walk, WalkFails, Finish, FinishFails,
           DropRow, DropRowFails, Discard, Leave, LeftRollback, packVars
    <2>3. QED
      BY <2>1, <2>2
  <1>4. \A p \in Projects : \A r \in rows'[p] : r \in rows[p]
    BY <1>2 DEF LifeInv, BaseInv, LifeTypeOK, TypeOK
  <1>5. ASSUME NEW r \in Editors, Stored(r), proj[r] \in listed'
        PROVE  r \in rows'[proj[r]] \/ \E s \in rows'[proj[r]] : op[s] = "replace"
    <2>1. proj[r] \in listed
      BY <1>3, <1>5 DEF Unvisited, AnswerInv, Undecided, Stored
    <2>2. proj[r] # m \/ rows' = rows
      BY <1>2, <1>5
    <2>3. rows'[proj[r]] = rows[proj[r]]
      BY <1>2, <2>2 DEF LifeInv, BaseInv, LifeTypeOK, TypeOK
    <2>4. QED
      BY <1>5, <2>1, <2>3 DEF AnswerInv, Stored
  <1>6. QED
    BY <1>1, <1>4, <1>5 DEF AnswerInv, Stored

(* Who was told that a change to a listed pack succeeded finds it there or *)
(* replaced, and who was told that it failed does not, whatever makers do. *)
THEOREM VisitorsKnow == Undisturbed => (LifeSpec => []VisitorsAreToldTheTruth)
  <1> SUFFICES ASSUME Undisturbed PROVE LifeSpec => []VisitorsAreToldTheTruth
    OBVIOUS
  <1>1. LifeInit => AnswerInv
    BY InitAnswer
  <1>2. ASSUME LifeInv, AnswerInv, [LifeNext]_lifeVars PROVE AnswerInv'
    <2>1. CASE UNCHANGED lifeVars
      BY <1>2, <2>1 DEF lifeVars, storeVars, packVars, makerVars, requestVars, diskVars, AnswerInv,
         Stored
    <2>2. QED
      BY <1>2, <2>1, LifeSteps, EditorAnswer, MakerAnswer DEF LifeInv
  <1>3. LifeInv /\ AnswerInv => VisitorsAreToldTheTruth
    BY DEF LifeInv, BaseInv, LifeTypeOK, TypeOK, AnswerInv, VisitorsAreToldTheTruth,
           Stored, Told
  <1>4. LifeSpec => []LifeInv
    BY LifeInvariants
  <1>5. QED
    BY <1>1, <1>2, <1>3, <1>4, PTL DEF LifeSpec
=============================================================================
