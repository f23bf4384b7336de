------------------------- MODULE ProjectStoreProofs -------------------------
(***************************************************************************)
(* Proofs about ProjectStore, for any number of requests and projects.     *)
(*                                                                         *)
(* The inductive invariants: LockInv holds whatever the environment does,  *)
(* crashes included: the steps between LockProject and Unlock are taken    *)
(* with the mutex held, hence by one request per project, and the tree     *)
(* such a request changes exists.  AnswerInv and IndexInv hold as well: a  *)
(* row belongs to a request that committed it, and what is committed is in *)
(* the tree and its index.  DoubtInv holds when renames, the copy of an    *)
(* archive and the process itself do not fail (Reliable): a project no     *)
(* request is in doubt about has the tree its rows describe, and a request *)
(* in doubt has a backup of that tree.  DebrisInv holds when renames and   *)
(* the process do not fail (RollbackWorks): backups and .failed            *)
(* directories belong to the request that will remove them.                *)
(***************************************************************************)
EXTENDS ProjectStore, TLAPS

LockHeld ==
  \A r \in Editors, p \in Projects :
    mutex[p] = r <=> pc[r] \in Locked /\ proj[r] = p

TreeThere ==
  \A r \in Editors : pc[r] \in {"apply", "refresh", "commit"} => tree[proj[r]] \in Trees

LockInv == TypeOK /\ LockHeld /\ TreeThere

-----------------------------------------------------------------------------
(* Before any request is sent no mutex is taken.                           *)
LEMMA InitLockInv == Init => LockInv
  BY EditorsAssumption DEF Init, LockInv, TypeOK, LockHeld, TreeThere, Intact, Trees,
     Steps, Locked

(* A mutex is taken by one request at a time, so two requests at a locked  *)
(* step work on two projects.                                              *)
LEMMA OneAtATime ==
  ASSUME TypeOK, LockHeld, NEW r \in Editors, NEW s \in Editors, r # s,
         pc[r] \in Locked, pc[s] \in Locked
  PROVE  proj[r] # proj[s]
  BY DEF TypeOK, LockHeld

(* Every step of a handler and of its surroundings keeps types, mutexes    *)
(* and trees in order, whatever fails.                                     *)
LEMMA NextLockInv == LockInv /\ [Next]_storeVars => LockInv'
  <1> SUFFICES ASSUME LockInv, [Next]_storeVars PROVE LockInv'
    OBVIOUS
  <1> USE EditorsAssumption, NoTreeAssumption
  <1> USE DEF LockInv, TypeOK, LockHeld, TreeThere, Steps, Locked, Trees,
              requestVars, diskVars, Jump, Err, InFlight
  <1>1. ASSUME NEW r \in Editors, Begin(r) PROVE LockInv'
    BY <1>1 DEF Begin
  <1>2. ASSUME NEW r \in Editors, Stage(r) PROVE LockInv'
    BY <1>2 DEF Stage
  <1>3. ASSUME NEW r \in Editors, StageFails(r) PROVE LockInv'
    BY <1>3 DEF StageFails
  <1>4. ASSUME NEW r \in Editors, LockProject(r) PROVE LockInv'
    BY <1>4 DEF LockProject
  <1>5. ASSUME NEW r \in Editors, CopyTree(r) PROVE LockInv'
    BY <1>5 DEF CopyTree
  <1>6. ASSUME NEW r \in Editors, CopyFails(r) PROVE LockInv'
    BY <1>6 DEF CopyFails
  <1>7. ASSUME NEW r \in Editors, WriteFiles(r) PROVE LockInv'
    BY <1>7 DEF WriteFiles
  <1>8. ASSUME NEW r \in Editors, WipeTree(r) PROVE LockInv'
    BY <1>8 DEF WipeTree
  <1>9. ASSUME NEW r \in Editors, FillTree(r) PROVE LockInv'
    BY <1>9 DEF FillTree
  <1>10. ASSUME NEW r \in Editors, FillFails(r) PROVE LockInv'
    BY <1>10 DEF FillFails
  <1>11. ASSUME NEW r \in Editors, Refresh(r) PROVE LockInv'
    BY <1>11 DEF Refresh
  <1>12. ASSUME NEW r \in Editors, ApplyFails(r) PROVE LockInv'
    BY <1>12 DEF ApplyFails
  <1>13. ASSUME NEW r \in Editors, Commit(r) PROVE LockInv'
    BY <1>13 DEF Commit, Intended
  <1>14. ASSUME NEW r \in Editors, CommitFails(r) PROVE LockInv'
    BY <1>14 DEF CommitFails
  <1>15. ASSUME NEW r \in Editors, MoveAside(r) PROVE LockInv'
    BY <1>15 DEF MoveAside
  <1>16. ASSUME NEW r \in Editors, MoveAsideFails(r) PROVE LockInv'
    BY <1>16 DEF MoveAsideFails
  <1>17. ASSUME NEW r \in Editors, Restore(r) PROVE LockInv'
    BY <1>17 DEF Restore
  <1>18. ASSUME NEW r \in Editors, RestoreFails(r) PROVE LockInv'
    BY <1>18 DEF RestoreFails
  <1>19. ASSUME NEW r \in Editors, Purge(r) PROVE LockInv'
    BY <1>19 DEF Purge
  <1>20. ASSUME NEW r \in Editors, DropBackup(r) PROVE LockInv'
    BY <1>20 DEF DropBackup
  <1>21. ASSUME NEW r \in Editors, Unlock(r) PROVE LockInv'
    BY <1>21 DEF Unlock
  <1>22. ASSUME NEW r \in Editors, End(r) PROVE LockInv'
    BY <1>22 DEF End
  <1>23. ASSUME NEW r \in Editors, Cancel(r) PROVE LockInv'
    BY <1>23 DEF Cancel
  <1>24. ASSUME NEW r \in Editors, AutoRollback(r) PROVE LockInv'
    BY <1>24 DEF AutoRollback
  <1>25. CASE Crash
    BY <1>25 DEF Crash, LoseRequests
  <1>26. CASE UNCHANGED storeVars
    BY <1>26 DEF storeVars
  <1>27. ASSUME NEW r \in Editors, ReadBackFails(r) PROVE LockInv'
    BY <1>27 DEF ReadBackFails, Unread
  <1>28. QED
    BY <1>1, <1>2, <1>3, <1>4, <1>5, <1>6, <1>7, <1>8, <1>9, <1>10, <1>11, <1>12, <1>13,
       <1>14, <1>15, <1>16, <1>17, <1>18, <1>19, <1>20, <1>21, <1>22, <1>23, <1>24, <1>25,
       <1>26, <1>27 DEF Next, Handle, AllAnswered

(* Type correctness, whatever fails: no step reads or changes a tree that  *)
(* is not there.                                                           *)
THEOREM TypeCorrect == Spec => []TypeOK
  <1>1. LockInv => TypeOK
    BY DEF LockInv
  <1>2. QED
    BY <1>1, InitLockInv, NextLockInv, PTL DEF Spec
-----------------------------------------------------------------------------
(* What holds under every fault, crashes included.                         *)

(* Before its commit or first error a request has no result and no row.    *)
Undecided == { "idle", "stage", "lock", "copy", "apply", "fill", "refresh", "commit" }

AnswerInv ==
  /\ \A r \in Editors : pc[r] \in Undecided => result[r] = "none"
  /\ \A p \in Projects : \A r \in rows[p] :
       proj[r] = p /\ result[r] \in {"ok", "unread", "lost"}
  /\ \A r \in Editors : result[r] = "unread" => op[r] = "replace"
  /\ \A r \in Editors : result[r] \in {"ok", "unread"} =>
       r \in rows[proj[r]] \/ \E s \in rows[proj[r]] : op[s] = "replace"

(* The tree of a request that has called packwiz holds its change.         *)
IndexInv ==
  \A r \in Editors :
    /\ pc[r] \in {"refresh", "commit"} => r \in tree[proj[r]].files
    /\ pc[r] = "commit" => tree[proj[r]].index = tree[proj[r]].files

(* No step tells a caller what the rows belie.                             *)
LEMMA NextAnswerInv == LockInv /\ AnswerInv /\ [Next]_storeVars => AnswerInv'
  <1> SUFFICES ASSUME LockInv, AnswerInv, [Next]_storeVars PROVE AnswerInv'
    OBVIOUS
  <1> USE DEF LockInv, TypeOK, AnswerInv, Undecided, requestVars, diskVars, Jump, Err, InFlight
  <1>1. ASSUME NEW r \in Editors, Begin(r) PROVE AnswerInv'
    BY <1>1 DEF Begin
  <1>2. ASSUME NEW r \in Editors, Stage(r) PROVE AnswerInv'
    BY <1>2 DEF Stage
  <1>3. ASSUME NEW r \in Editors, StageFails(r) PROVE AnswerInv'
    BY <1>3 DEF StageFails
  <1>4. ASSUME NEW r \in Editors, LockProject(r) PROVE AnswerInv'
    BY <1>4 DEF LockProject
  <1>5. ASSUME NEW r \in Editors, CopyTree(r) PROVE AnswerInv'
    BY <1>5 DEF CopyTree
  <1>6. ASSUME NEW r \in Editors, CopyFails(r) PROVE AnswerInv'
    BY <1>6 DEF CopyFails
  <1>7. ASSUME NEW r \in Editors, WriteFiles(r) PROVE AnswerInv'
    BY <1>7 DEF WriteFiles
  <1>8. ASSUME NEW r \in Editors, WipeTree(r) PROVE AnswerInv'
    BY <1>8 DEF WipeTree
  <1>9. ASSUME NEW r \in Editors, FillTree(r) PROVE AnswerInv'
    BY <1>9 DEF FillTree
  <1>10. ASSUME NEW r \in Editors, FillFails(r) PROVE AnswerInv'
    BY <1>10 DEF FillFails
  <1>11. ASSUME NEW r \in Editors, Refresh(r) PROVE AnswerInv'
    BY <1>11 DEF Refresh
  <1>12. ASSUME NEW r \in Editors, ApplyFails(r) PROVE AnswerInv'
    BY <1>12 DEF ApplyFails
  <1>13. ASSUME NEW r \in Editors, Commit(r) PROVE AnswerInv'
    BY <1>13 DEF Commit, Intended
  <1>14. ASSUME NEW r \in Editors, CommitFails(r) PROVE AnswerInv'
    BY <1>14 DEF CommitFails
  <1>15. ASSUME NEW r \in Editors, MoveAside(r) PROVE AnswerInv'
    BY <1>15 DEF MoveAside
  <1>16. ASSUME NEW r \in Editors, MoveAsideFails(r) PROVE AnswerInv'
    BY <1>16 DEF MoveAsideFails
  <1>17. ASSUME NEW r \in Editors, Restore(r) PROVE AnswerInv'
    BY <1>17 DEF Restore
  <1>18. ASSUME NEW r \in Editors, RestoreFails(r) PROVE AnswerInv'
    BY <1>18 DEF RestoreFails
  <1>19. ASSUME NEW r \in Editors, Purge(r) PROVE AnswerInv'
    BY <1>19 DEF Purge
  <1>20. ASSUME NEW r \in Editors, DropBackup(r) PROVE AnswerInv'
    BY <1>20 DEF DropBackup
  <1>21. ASSUME NEW r \in Editors, Unlock(r) PROVE AnswerInv'
    BY <1>21 DEF Unlock
  <1>22. ASSUME NEW r \in Editors, End(r) PROVE AnswerInv'
    BY <1>22 DEF End
  <1>r. ASSUME NEW r \in Editors, ReadBackFails(r) PROVE AnswerInv'
    BY <1>r DEF ReadBackFails, Unread, ReadsBack
  <1>23. ASSUME NEW r \in Editors, Cancel(r) PROVE AnswerInv'
    BY <1>23 DEF Cancel
  <1>24. ASSUME NEW r \in Editors, AutoRollback(r) PROVE AnswerInv'
    BY <1>24 DEF AutoRollback
  <1>25. CASE Crash
    BY <1>25 DEF Crash, LoseRequests
  <1>26. CASE UNCHANGED storeVars
    BY <1>26 DEF storeVars
  <1>27. QED
    BY <1>1, <1>2, <1>3, <1>4, <1>5, <1>6, <1>7, <1>8, <1>9, <1>10, <1>11, <1>12,
       <1>13, <1>14, <1>15, <1>16, <1>17, <1>18, <1>19, <1>20, <1>21, <1>22, <1>23, <1>24, <1>25, <1>26, <1>r DEF Next, Handle, AllAnswered

(* No step takes the change of another request out of its tree.            *)
LEMMA NextIndexInv == LockInv /\ IndexInv /\ [Next]_storeVars => IndexInv'
  <1> SUFFICES ASSUME LockInv, IndexInv, [Next]_storeVars PROVE IndexInv'
    OBVIOUS
  <1> USE NoTreeAssumption
  <1> USE DEF LockInv, TypeOK, LockHeld, TreeThere, IndexInv, Steps, Locked, Trees,
              requestVars, diskVars, Jump, Err, InFlight
  <1>1. ASSUME NEW r \in Editors, Begin(r) PROVE IndexInv'
    BY <1>1 DEF Begin
  <1>2. ASSUME NEW r \in Editors, Stage(r) PROVE IndexInv'
    BY <1>2 DEF Stage
  <1>3. ASSUME NEW r \in Editors, StageFails(r) PROVE IndexInv'
    BY <1>3 DEF StageFails
  <1>4. ASSUME NEW r \in Editors, LockProject(r) PROVE IndexInv'
    BY <1>4 DEF LockProject
  <1>5. ASSUME NEW r \in Editors, CopyTree(r) PROVE IndexInv'
    BY <1>5 DEF CopyTree
  <1>6. ASSUME NEW r \in Editors, CopyFails(r) PROVE IndexInv'
    BY <1>6 DEF CopyFails
  <1>7. ASSUME NEW r \in Editors, WriteFiles(r) PROVE IndexInv'
    BY <1>7 DEF WriteFiles
  <1>8. ASSUME NEW r \in Editors, WipeTree(r) PROVE IndexInv'
    BY <1>8 DEF WipeTree
  <1>9. ASSUME NEW r \in Editors, FillTree(r) PROVE IndexInv'
    BY <1>9 DEF FillTree
  <1>10. ASSUME NEW r \in Editors, FillFails(r) PROVE IndexInv'
    BY <1>10 DEF FillFails
  <1>11. ASSUME NEW r \in Editors, Refresh(r) PROVE IndexInv'
    BY <1>11 DEF Refresh
  <1>12. ASSUME NEW r \in Editors, ApplyFails(r) PROVE IndexInv'
    BY <1>12 DEF ApplyFails
  <1>13. ASSUME NEW r \in Editors, Commit(r) PROVE IndexInv'
    BY <1>13 DEF Commit
  <1>14. ASSUME NEW r \in Editors, CommitFails(r) PROVE IndexInv'
    BY <1>14 DEF CommitFails
  <1>15. ASSUME NEW r \in Editors, MoveAside(r) PROVE IndexInv'
    BY <1>15 DEF MoveAside
  <1>16. ASSUME NEW r \in Editors, MoveAsideFails(r) PROVE IndexInv'
    BY <1>16 DEF MoveAsideFails
  <1>17. ASSUME NEW r \in Editors, Restore(r) PROVE IndexInv'
    BY <1>17 DEF Restore
  <1>18. ASSUME NEW r \in Editors, RestoreFails(r) PROVE IndexInv'
    BY <1>18 DEF RestoreFails
  <1>19. ASSUME NEW r \in Editors, Purge(r) PROVE IndexInv'
    BY <1>19 DEF Purge
  <1>20. ASSUME NEW r \in Editors, DropBackup(r) PROVE IndexInv'
    BY <1>20 DEF DropBackup
  <1>21. ASSUME NEW r \in Editors, Unlock(r) PROVE IndexInv'
    BY <1>21 DEF Unlock
  <1>22. ASSUME NEW r \in Editors, End(r) PROVE IndexInv'
    BY <1>22 DEF End
  <1>r. ASSUME NEW r \in Editors, ReadBackFails(r) PROVE IndexInv'
    BY <1>r DEF ReadBackFails, Unread
  <1>23. ASSUME NEW r \in Editors, Cancel(r) PROVE IndexInv'
    BY <1>23 DEF Cancel
  <1>24. ASSUME NEW r \in Editors, AutoRollback(r) PROVE IndexInv'
    BY <1>24 DEF AutoRollback
  <1>25. CASE Crash
    BY <1>25 DEF Crash, LoseRequests
  <1>26. CASE UNCHANGED storeVars
    BY <1>26 DEF storeVars
  <1>27. QED
    BY <1>1, <1>2, <1>3, <1>4, <1>5, <1>6, <1>7, <1>8, <1>9, <1>10, <1>11, <1>12,
       <1>13, <1>14, <1>15, <1>16, <1>17, <1>18, <1>19, <1>20, <1>21, <1>22, <1>23, <1>24, <1>25, <1>26, <1>r DEF Next, Handle, AllAnswered

(* Whatever fails, what a caller was told agrees with the rows.            *)
THEOREM AnswersAreTrue == Spec => []AnswersMatchRows
  <1>1. Init => LockInv /\ AnswerInv
    BY InitLockInv DEF Init, AnswerInv
  <1>2. LockInv /\ AnswerInv /\ [Next]_storeVars => (LockInv /\ AnswerInv)'
    BY NextLockInv, NextAnswerInv
  <1>3. LockInv /\ AnswerInv => AnswersMatchRows
    BY DEF LockInv, TypeOK, AnswerInv, AnswersMatchRows, Told, Stored
  <1>4. QED
    BY <1>1, <1>2, <1>3, PTL DEF Spec

(* Only a commit changes rows.                                             *)
LEMMA RowsChangeByCommit ==
  ASSUME [Next]_storeVars, rows' # rows
  PROVE  \E r \in Editors : Commit(r)
  BY DEF Next, Handle, AllAnswered, storeVars, Begin, Stage, StageFails, LockProject, CopyTree,
         CopyFails, WriteFiles, WipeTree, FillTree, FillFails, Refresh, ApplyFails, CommitFails,
         MoveAside, MoveAsideFails, Restore, RestoreFails, Purge, DropBackup, Unlock, End,
         ReadBackFails, Unread, Cancel, AutoRollback, Crash, LoseRequests

(* Whatever fails, rows are committed over a tree that is there, indexed   *)
(* and holds the change: no crash or failed rename before can prevent it.  *)
THEOREM CommitsAreIndexed == Spec => CommitsIndexedTree
  <1>1. Init => LockInv /\ IndexInv
    BY InitLockInv DEF Init, IndexInv
  <1>2. LockInv /\ IndexInv /\ [Next]_storeVars => (LockInv /\ IndexInv)'
    BY NextLockInv, NextIndexInv
  <1>3. ASSUME LockInv, IndexInv, [Next]_storeVars, NEW p \in Projects, rows'[p] # rows[p]
        PROVE  /\ tree[p] # NoTree /\ tree[p].index = tree[p].files
               /\ \A r \in rows'[p] \ rows[p] : r \in tree[p].files
    <2>1. PICK r \in Editors : Commit(r)
      BY <1>3, RowsChangeByCommit
    <2>2. proj[r] = p /\ pc[r] = "commit" /\ rows'[p] = Intended(r)
      BY <1>3, <2>1 DEF Commit, Jump, LockInv, TypeOK
    <2>3. tree[p] # NoTree /\ tree[p].index = tree[p].files /\ r \in tree[p].files
      BY <1>3, <2>2, NoTreeAssumption DEF LockInv, TreeThere, Trees, IndexInv
    <2>4. rows'[p] \ rows[p] \subseteq {r}
      BY <2>2 DEF Intended
    <2>5. QED
      BY <2>3, <2>4
  <1>4. LockInv /\ IndexInv /\ [Next]_storeVars =>
          [\A p \in Projects : rows'[p] # rows[p] =>
             /\ tree[p] # NoTree /\ tree[p].index = tree[p].files
             /\ \A r \in rows'[p] \ rows[p] : r \in tree[p].files]_storeVars
    BY <1>3
  <1>5. QED
    BY <1>1, <1>2, <1>4, PTL DEF Spec, CommitsIndexedTree

-----------------------------------------------------------------------------
(* The faults under which MutateAndCommit keeps its promise: packwiz, file *)
(* operations and clients may fail, the copies and renames of the rollback *)
(* and the process may not.                                                *)
Reliable == Faults \cap {"wipe", "rename", "crash"} = {}

Settled ==
  \A p \in Projects :
    mutex[p] \notin Editors \/ pc[mutex[p]] \notin InDoubt => tree[p] = Intact(rows[p])

BackupGood ==
  \A r \in Editors : pc[r] \in InDoubt => backup[r] = Intact(rows[proj[r]])

(* What a request in doubt has made of the tree so far.                    *)
TreeSoFar(r) ==
  /\ pc[r] = "apply" => tree[proj[r]] = Intact(rows[proj[r]])
  /\ pc[r] = "fill" => op[r] = "replace"
  /\ pc[r] = "refresh" => tree[proj[r]].files = Intended(r)
  /\ pc[r] = "commit" => tree[proj[r]] = Intact(Intended(r))
  /\ pc[r] = "aside" => tree[proj[r]] # NoTree

(* The handler knows its answer from the commit or the first error on.     *)
ResultKnown ==
  \A r \in Editors :
    /\ result[r] = "none" <=> pc[r] \in {"idle", "stage", "lock", "copy", "apply", "fill",
                                         "refresh", "commit"}
    /\ result[r] # "lost"
    /\ result[r] = "unread" => pc[r] = "done" /\ op[r] = "replace"

DoubtInv ==
  /\ Settled
  /\ BackupGood
  /\ \A r \in Editors : TreeSoFar(r)
  /\ ResultKnown

(* All packs start empty, in rows and on disk.                             *)
LEMMA InitDoubtInv == Init => DoubtInv
  BY DEF Init, DoubtInv, Settled, BackupGood, TreeSoFar, ResultKnown, Intact, InDoubt

(* A step of a request that holds the mutex of its project, and that       *)
(* changes no tree and no rows but those of this project, does not touch   *)
(* what another request has made of its own tree.                          *)
LEMMA Undisturbed ==
  ASSUME LockInv, NEW r \in Editors, pc[r] \in Locked, UNCHANGED << proj, op >>,
         \A p \in Projects \ {proj[r]} : tree'[p] = tree[p] /\ rows'[p] = rows[p],
         NEW s \in Editors, s # r, TreeSoFar(s), pc'[s] = pc[s]
  PROVE  TreeSoFar(s)'
  <1>1. pc[s] \in {"apply", "fill", "refresh", "commit", "aside"} =>
          /\ tree'[proj[s]] = tree[proj[s]]
          /\ rows'[proj[s]] = rows[proj[s]]
    BY OneAtATime DEF LockInv, TypeOK, Locked
  <1>2. QED
    BY <1>1 DEF TreeSoFar, Intended, Intact

(* The same for a step that changes no tree and no rows at all.            *)
LEMMA Untouched ==
  ASSUME NEW s \in Editors, TreeSoFar(s), UNCHANGED << proj, op, tree, rows >>,
         \/ pc'[s] = pc[s]
         \/ pc'[s] \notin {"apply", "fill", "refresh", "commit", "aside"}
  PROVE  TreeSoFar(s)'
  BY DEF TreeSoFar, Intended, Intact

(* No step puts the rows, the tree or the backup of a project out of line, *)
(* as long as renames work and the process lives.                          *)
LEMMA NextDoubtInv ==
  ASSUME Reliable, LockInv, DoubtInv, [Next]_storeVars
  PROVE  DoubtInv'
  <1> USE EditorsAssumption, NoTreeAssumption
  <1> USE DEF LockInv, TypeOK, LockHeld, DoubtInv, Locked, InDoubt, Jump, Err, InFlight,
              requestVars, diskVars
  <1>f. "wipe" \notin Faults /\ "rename" \notin Faults /\ "crash" \notin Faults
    BY DEF Reliable
  <1>1. ASSUME NEW r \in Editors, Begin(r) PROVE DoubtInv'
    <2>1. Settled'
      BY <1>1 DEF Begin, Settled, Intact
    <2>2. BackupGood'
      BY <1>1 DEF Begin, BackupGood
    <2>3. \A s \in Editors : TreeSoFar(s)'
      BY <1>1, Untouched DEF Begin
    <2>4. ResultKnown'
      BY <1>1 DEF Begin, ResultKnown
    <2>5. QED
      BY <2>1, <2>2, <2>3, <2>4
  <1>2. ASSUME NEW r \in Editors, Stage(r) PROVE DoubtInv'
    <2>1. Settled'
      BY <1>2 DEF Stage, Settled, Intact
    <2>2. BackupGood'
      BY <1>2 DEF Stage, BackupGood
    <2>3. \A s \in Editors : TreeSoFar(s)'
      BY <1>2, Untouched DEF Stage
    <2>4. ResultKnown'
      BY <1>2 DEF Stage, ResultKnown
    <2>5. QED
      BY <2>1, <2>2, <2>3, <2>4
  <1>3. ASSUME NEW r \in Editors, StageFails(r) PROVE DoubtInv'
    <2>1. Settled'
      BY <1>3 DEF StageFails, Settled, Intact
    <2>2. BackupGood'
      BY <1>3 DEF StageFails, BackupGood
    <2>3. \A s \in Editors : TreeSoFar(s)'
      BY <1>3, Untouched DEF StageFails
    <2>4. ResultKnown'
      BY <1>3 DEF StageFails, ResultKnown
    <2>5. QED
      BY <2>1, <2>2, <2>3, <2>4
  <1>4. ASSUME NEW r \in Editors, LockProject(r) PROVE DoubtInv'
    <2>1. Settled'
      BY <1>4 DEF LockProject, Settled, Intact
    <2>2. BackupGood'
      BY <1>4 DEF LockProject, BackupGood
    <2>3. \A s \in Editors : TreeSoFar(s)'
      BY <1>4, Untouched DEF LockProject
    <2>4. ResultKnown'
      BY <1>4 DEF LockProject, ResultKnown
    <2>5. QED
      BY <2>1, <2>2, <2>3, <2>4
  <1>5. ASSUME NEW r \in Editors, CopyTree(r) PROVE DoubtInv'
    <2>1. Settled'
      BY <1>5 DEF CopyTree, Settled, Intact
    <2>2. BackupGood'
      BY <1>5 DEF CopyTree, BackupGood, Settled
    <2>3. \A s \in Editors : TreeSoFar(s)'
      <3>1. tree[proj[r]] = Intact(rows[proj[r]])
        BY <1>5 DEF CopyTree, Settled
      <3>2. TreeSoFar(r)'
        BY <1>5, <3>1 DEF CopyTree, TreeSoFar
      <3>3. QED
        BY <1>5, <3>2, Undisturbed DEF CopyTree
    <2>4. ResultKnown'
      BY <1>5 DEF CopyTree, ResultKnown
    <2>5. QED
      BY <2>1, <2>2, <2>3, <2>4
  <1>6. ASSUME NEW r \in Editors, CopyFails(r) PROVE DoubtInv'
    <2>1. Settled'
      BY <1>6 DEF CopyFails, Settled, Intact
    <2>2. BackupGood'
      BY <1>6 DEF CopyFails, BackupGood
    <2>3. \A s \in Editors : TreeSoFar(s)'
      BY <1>6, Untouched DEF CopyFails
    <2>4. ResultKnown'
      BY <1>6 DEF CopyFails, ResultKnown
    <2>5. QED
      BY <2>1, <2>2, <2>3, <2>4
  <1>7. ASSUME NEW r \in Editors, WriteFiles(r) PROVE DoubtInv'
    <2>1. Settled'
      BY <1>7 DEF WriteFiles, Settled, Intact
    <2>2. BackupGood'
      BY <1>7 DEF WriteFiles, BackupGood
    <2>3. \A s \in Editors : TreeSoFar(s)'
      <3>1. tree[proj[r]] = Intact(rows[proj[r]])
        BY <1>7 DEF WriteFiles, TreeSoFar
      <3>2. TreeSoFar(r)'
        BY <1>7, <3>1 DEF WriteFiles, TreeSoFar, Intended, Intact
      <3>3. QED
        BY <1>7, <3>2, Undisturbed DEF WriteFiles
    <2>4. ResultKnown'
      BY <1>7 DEF WriteFiles, ResultKnown
    <2>5. QED
      BY <2>1, <2>2, <2>3, <2>4
  <1>8. ASSUME NEW r \in Editors, WipeTree(r) PROVE DoubtInv'
    <2>1. Settled'
      BY <1>8 DEF WipeTree, Settled, Intact
    <2>2. BackupGood'
      BY <1>8 DEF WipeTree, BackupGood
    <2>3. \A s \in Editors : TreeSoFar(s)'
      <3>2. TreeSoFar(r)'
        BY <1>8 DEF WipeTree, TreeSoFar
      <3>3. QED
        BY <1>8, <3>2, Undisturbed DEF WipeTree
    <2>4. ResultKnown'
      BY <1>8 DEF WipeTree, ResultKnown
    <2>5. QED
      BY <2>1, <2>2, <2>3, <2>4
  <1>9. ASSUME NEW r \in Editors, FillTree(r) PROVE DoubtInv'
    <2>1. Settled'
      BY <1>9 DEF FillTree, Settled, Intact
    <2>2. BackupGood'
      BY <1>9 DEF FillTree, BackupGood
    <2>3. \A s \in Editors : TreeSoFar(s)'
      <3>1. op[r] = "replace"
        BY <1>9 DEF FillTree, TreeSoFar
      <3>2. TreeSoFar(r)'
        BY <1>9, <3>1 DEF FillTree, TreeSoFar, Intended
      <3>3. QED
        BY <1>9, <3>2, Undisturbed DEF FillTree
    <2>4. ResultKnown'
      BY <1>9 DEF FillTree, ResultKnown
    <2>5. QED
      BY <2>1, <2>2, <2>3, <2>4
  <1>10. ASSUME NEW r \in Editors, FillFails(r) PROVE DoubtInv'
    BY <1>f, <1>10 DEF FillFails
  <1>11. ASSUME NEW r \in Editors, Refresh(r) PROVE DoubtInv'
    <2>1. Settled'
      BY <1>11 DEF Refresh, Settled, Intact
    <2>2. BackupGood'
      BY <1>11 DEF Refresh, BackupGood
    <2>3. \A s \in Editors : TreeSoFar(s)'
      <3>1. tree[proj[r]] \in Trees /\ tree[proj[r]].files = Intended(r)
        BY <1>11 DEF Refresh, TreeSoFar, TreeThere
      <3>2. tree'[proj[r]] = Intact(Intended(r))
        BY <1>11, <3>1 DEF Refresh, Intact, Trees
      <3>4. TreeSoFar(r)'
        BY <1>11, <3>2 DEF Refresh, TreeSoFar, Intended, Intact
      <3>3. QED
        BY <1>11, <3>4, Undisturbed DEF Refresh
    <2>4. ResultKnown'
      BY <1>11 DEF Refresh, ResultKnown
    <2>5. QED
      BY <2>1, <2>2, <2>3, <2>4
  <1>12. ASSUME NEW r \in Editors, ApplyFails(r) PROVE DoubtInv'
    <2>1. Settled'
      BY <1>12 DEF ApplyFails, Settled, Intact
    <2>2. BackupGood'
      BY <1>12 DEF ApplyFails, BackupGood
    <2>3. \A s \in Editors : TreeSoFar(s)'
      <3>1. tree'[proj[r]] \in Trees
        BY <1>12 DEF ApplyFails, TreeThere, Trees
      <3>4. tree'[proj[r]] # NoTree
        BY <3>1 DEF Trees
      <3>5. pc'[r] = "aside" /\ proj'[r] = proj[r]
        BY <1>12 DEF ApplyFails
      <3>2. TreeSoFar(r)'
        BY <3>4, <3>5 DEF TreeSoFar
      <3>3. QED
        BY <1>12, <3>2, Undisturbed DEF ApplyFails
    <2>4. ResultKnown'
      BY <1>12 DEF ApplyFails, ResultKnown
    <2>5. QED
      BY <2>1, <2>2, <2>3, <2>4
  <1>13. ASSUME NEW r \in Editors, Commit(r) PROVE DoubtInv'
    <2>1. Settled'
      <3>1. tree'[proj[r]] = Intact(rows'[proj[r]])
        BY <1>13 DEF Commit, TreeSoFar
      <3>2. \A p \in Projects \ {proj[r]} :
              mutex[p] # r /\ tree'[p] = tree[p] /\ rows'[p] = rows[p]
        BY <1>13 DEF Commit
      <3>3. QED
        BY <1>13, <3>1, <3>2 DEF Commit, Settled, Intact
    <2>2. BackupGood'
      BY <1>13 DEF Commit, BackupGood
    <2>3. \A s \in Editors : TreeSoFar(s)'
      <3>2. TreeSoFar(r)'
        BY <1>13 DEF Commit, TreeSoFar
      <3>3. QED
        BY <1>13, <3>2, Undisturbed DEF Commit
    <2>4. ResultKnown'
      BY <1>13 DEF Commit, ResultKnown
    <2>5. QED
      BY <2>1, <2>2, <2>3, <2>4
  <1>14. ASSUME NEW r \in Editors, CommitFails(r) PROVE DoubtInv'
    <2>1. Settled'
      BY <1>14 DEF CommitFails, Settled, Intact
    <2>2. BackupGood'
      BY <1>14 DEF CommitFails, BackupGood
    <2>3. \A s \in Editors : TreeSoFar(s)'
      <3>1. TreeSoFar(r)'
        BY <1>14 DEF CommitFails, TreeSoFar, TreeThere, Trees
      <3>2. \A s \in Editors \ {r} : TreeSoFar(s)'
        BY <1>14, Untouched DEF CommitFails
      <3>3. QED
        BY <3>1, <3>2
    <2>4. ResultKnown'
      BY <1>14 DEF CommitFails, ResultKnown
    <2>5. QED
      BY <2>1, <2>2, <2>3, <2>4
  <1>15. ASSUME NEW r \in Editors, MoveAside(r) PROVE DoubtInv'
    <2>1. Settled'
      BY <1>15 DEF MoveAside, Settled, Intact
    <2>2. BackupGood'
      BY <1>15 DEF MoveAside, BackupGood
    <2>3. \A s \in Editors : TreeSoFar(s)'
      <3>2. TreeSoFar(r)'
        BY <1>15 DEF MoveAside, TreeSoFar
      <3>3. QED
        BY <1>15, <3>2, Undisturbed DEF MoveAside
    <2>4. ResultKnown'
      BY <1>15 DEF MoveAside, ResultKnown
    <2>5. QED
      BY <2>1, <2>2, <2>3, <2>4
  <1>16. ASSUME NEW r \in Editors, MoveAsideFails(r) PROVE DoubtInv'
    <2>1. TreeSoFar(r)
      OBVIOUS
    <2>2. QED
      BY <1>f, <1>16, <2>1 DEF MoveAsideFails, TreeSoFar
  <1>17. ASSUME NEW r \in Editors, Restore(r) PROVE DoubtInv'
    <2>1. Settled'
      <3>1. tree'[proj[r]] = Intact(rows'[proj[r]])
        BY <1>17 DEF Restore, BackupGood
      <3>2. \A p \in Projects \ {proj[r]} :
              mutex[p] # r /\ tree'[p] = tree[p] /\ rows'[p] = rows[p]
        BY <1>17 DEF Restore
      <3>3. QED
        BY <1>17, <3>1, <3>2 DEF Restore, Settled, Intact
    <2>2. BackupGood'
      BY <1>17 DEF Restore, BackupGood
    <2>3. \A s \in Editors : TreeSoFar(s)'
      <3>2. TreeSoFar(r)'
        BY <1>17 DEF Restore, TreeSoFar
      <3>3. QED
        BY <1>17, <3>2, Undisturbed DEF Restore
    <2>4. ResultKnown'
      BY <1>17 DEF Restore, ResultKnown
    <2>5. QED
      BY <2>1, <2>2, <2>3, <2>4
  <1>18. ASSUME NEW r \in Editors, RestoreFails(r) PROVE DoubtInv'
    BY <1>f, <1>18 DEF RestoreFails
  <1>19. ASSUME NEW r \in Editors, Purge(r) PROVE DoubtInv'
    <2>1. Settled'
      BY <1>19 DEF Purge, Settled, Intact
    <2>2. BackupGood'
      BY <1>19 DEF Purge, BackupGood
    <2>3. \A s \in Editors : TreeSoFar(s)'
      BY <1>19, Untouched DEF Purge
    <2>4. ResultKnown'
      BY <1>19 DEF Purge, ResultKnown
    <2>5. QED
      BY <2>1, <2>2, <2>3, <2>4
  <1>20. ASSUME NEW r \in Editors, DropBackup(r) PROVE DoubtInv'
    <2>1. Settled'
      BY <1>20 DEF DropBackup, Settled, Intact
    <2>2. BackupGood'
      BY <1>20 DEF DropBackup, BackupGood
    <2>3. \A s \in Editors : TreeSoFar(s)'
      BY <1>20, Untouched DEF DropBackup
    <2>4. ResultKnown'
      BY <1>20 DEF DropBackup, ResultKnown
    <2>5. QED
      BY <2>1, <2>2, <2>3, <2>4
  <1>21. ASSUME NEW r \in Editors, Unlock(r) PROVE DoubtInv'
    <2>1. Settled'
      BY <1>21 DEF Unlock, Settled, Intact
    <2>2. BackupGood'
      BY <1>21 DEF Unlock, BackupGood
    <2>3. \A s \in Editors : TreeSoFar(s)'
      BY <1>21, Untouched DEF Unlock
    <2>4. ResultKnown'
      BY <1>21 DEF Unlock, ResultKnown
    <2>5. QED
      BY <2>1, <2>2, <2>3, <2>4
  <1>22. ASSUME NEW r \in Editors, End(r) PROVE DoubtInv'
    <2>1. Settled'
      BY <1>22 DEF End, Settled, Intact
    <2>2. BackupGood'
      BY <1>22 DEF End, BackupGood
    <2>3. \A s \in Editors : TreeSoFar(s)'
      BY <1>22, Untouched DEF End
    <2>4. ResultKnown'
      BY <1>22 DEF End, ResultKnown
    <2>5. QED
      BY <2>1, <2>2, <2>3, <2>4
  <1>r. ASSUME NEW r \in Editors, ReadBackFails(r) PROVE DoubtInv'
    <2>1. Settled'
      BY <1>r DEF ReadBackFails, Unread, Settled, Intact
    <2>2. BackupGood'
      BY <1>r DEF ReadBackFails, Unread, BackupGood
    <2>3. \A s \in Editors : TreeSoFar(s)'
      BY <1>r, Untouched DEF ReadBackFails, Unread
    <2>4. ResultKnown'
      BY <1>r DEF ReadBackFails, Unread, ReadsBack, ResultKnown
    <2>5. QED
      BY <2>1, <2>2, <2>3, <2>4
  <1>23. ASSUME NEW r \in Editors, Cancel(r) PROVE DoubtInv'
    <2>1. Settled'
      BY <1>23 DEF Cancel, Settled, Intact
    <2>2. BackupGood'
      BY <1>23 DEF Cancel, BackupGood
    <2>3. \A s \in Editors : TreeSoFar(s)'
      BY <1>23, Untouched DEF Cancel
    <2>4. ResultKnown'
      BY <1>23 DEF Cancel, ResultKnown
    <2>5. QED
      BY <2>1, <2>2, <2>3, <2>4
  <1>24. ASSUME NEW r \in Editors, AutoRollback(r) PROVE DoubtInv'
    <2>1. Settled'
      BY <1>24 DEF AutoRollback, Settled, Intact
    <2>2. BackupGood'
      BY <1>24 DEF AutoRollback, BackupGood
    <2>3. \A s \in Editors : TreeSoFar(s)'
      BY <1>24, Untouched DEF AutoRollback
    <2>4. ResultKnown'
      BY <1>24 DEF AutoRollback, ResultKnown
    <2>5. QED
      BY <2>1, <2>2, <2>3, <2>4
  <1>25. CASE Crash
    BY <1>f, <1>25 DEF Crash, LoseRequests
  <1>26. CASE UNCHANGED storeVars
    BY <1>26 DEF storeVars, Settled, BackupGood, TreeSoFar, Intended, ResultKnown
  <1>27. QED
    BY <1>1, <1>2, <1>3, <1>4, <1>5, <1>6, <1>7, <1>8, <1>9, <1>10, <1>11, <1>12, <1>13, <1>14, <1>15, <1>16, <1>17, <1>18, <1>19, <1>20, <1>21, <1>22, <1>23, <1>24, <1>25, <1>26, <1>r
       DEF Next, Handle, AllAnswered

(* Both invariants hold throughout.                                        *)
LEMMA Invariants == Reliable => (Spec => [](LockInv /\ DoubtInv))
  <1> SUFFICES ASSUME Reliable PROVE Spec => [](LockInv /\ DoubtInv)
    OBVIOUS
  <1>1. Init => LockInv /\ DoubtInv
    BY InitLockInv, InitDoubtInv
  <1>2. LockInv /\ DoubtInv /\ [Next]_storeVars => (LockInv /\ DoubtInv)'
    BY NextLockInv, NextDoubtInv
  <1>3. QED
    BY <1>1, <1>2, PTL DEF Spec

(* Whenever the mutex of a project is free its working tree is valid and   *)
(* is the one its rows describe: MutateAndCommit either committed or       *)
(* rolled back, at whatever step it failed.                                *)
THEOREM TreeFollowsRows == Reliable => (Spec => []TreeMatchesRows)
  <1>1. LockInv /\ DoubtInv => TreeMatchesRows
    BY EditorsAssumption DEF LockInv, DoubtInv, Settled, TreeMatchesRows
  <1>2. QED
    BY <1>1, Invariants, PTL

(* At every moment, in the middle of a mutation and of a rollback too, the *)
(* pack the rows describe is on disk, as the tree or as a backup.          *)
THEOREM GoodCopyKept == Reliable => (Spec => []CommittedCopyOnDisk)
  <1>1. ASSUME LockInv, DoubtInv, NEW p \in Projects
        PROVE  \/ tree[p] = Intact(rows[p])
               \/ \E r \in Editors : proj[r] = p /\ backup[r] = Intact(rows[p])
    <2>1. CASE mutex[p] \notin Editors \/ pc[mutex[p]] \notin InDoubt
      BY <1>1, <2>1 DEF DoubtInv, Settled
    <2>2. CASE mutex[p] \in Editors /\ pc[mutex[p]] \in InDoubt
      BY <1>1, <2>2 DEF LockInv, LockHeld, DoubtInv, BackupGood
    <2>3. QED
      BY <2>1, <2>2
  <1>2. LockInv /\ DoubtInv => CommittedCopyOnDisk
    BY <1>1 DEF CommittedCopyOnDisk
  <1>3. QED
    BY <1>2, Invariants, PTL

-----------------------------------------------------------------------------
(* What a request leaves on disk.  An archive that cannot be copied does   *)
(* no harm here; a rename that fails and a crash do.                       *)
RollbackWorks == Faults \cap {"rename", "crash"} = {}

(* A backup exists from the copy to its removal, a .failed directory while *)
(* its maker, with the mutex held, has not removed it yet.                 *)
DebrisInv ==
  /\ \A r \in Editors : pc[r] \notin InDoubt \cup {"drop"} => backup[r] = NoTree
  /\ \A p \in Projects : failed[p] # NoTree =>
       \E r \in Editors : proj[r] = p /\ pc[r] \in {"restore", "purge"}

(* No step parts a backup or a .failed directory from the request that     *)
(* will remove it.                                                         *)
LEMMA NextDebrisInv ==
  ASSUME RollbackWorks, LockInv, DebrisInv, [Next]_storeVars
  PROVE  DebrisInv'
  <1> USE DEF LockInv, TypeOK, DebrisInv, InDoubt, Steps, Jump, Err, InFlight,
              requestVars, diskVars
  <1>f. "rename" \notin Faults /\ "crash" \notin Faults
    BY DEF RollbackWorks
  <1>1. ASSUME NEW r \in Editors, Begin(r) PROVE DebrisInv'
    BY <1>f, <1>1 DEF Begin
  <1>2. ASSUME NEW r \in Editors, Stage(r) PROVE DebrisInv'
    BY <1>f, <1>2 DEF Stage
  <1>3. ASSUME NEW r \in Editors, StageFails(r) PROVE DebrisInv'
    BY <1>f, <1>3 DEF StageFails
  <1>4. ASSUME NEW r \in Editors, LockProject(r) PROVE DebrisInv'
    BY <1>f, <1>4 DEF LockProject
  <1>5. ASSUME NEW r \in Editors, CopyTree(r) PROVE DebrisInv'
    BY <1>f, <1>5 DEF CopyTree
  <1>6. ASSUME NEW r \in Editors, CopyFails(r) PROVE DebrisInv'
    BY <1>f, <1>6 DEF CopyFails
  <1>7. ASSUME NEW r \in Editors, WriteFiles(r) PROVE DebrisInv'
    BY <1>f, <1>7 DEF WriteFiles
  <1>8. ASSUME NEW r \in Editors, WipeTree(r) PROVE DebrisInv'
    BY <1>f, <1>8 DEF WipeTree
  <1>9. ASSUME NEW r \in Editors, FillTree(r) PROVE DebrisInv'
    BY <1>f, <1>9 DEF FillTree
  <1>10. ASSUME NEW r \in Editors, FillFails(r) PROVE DebrisInv'
    BY <1>f, <1>10 DEF FillFails
  <1>11. ASSUME NEW r \in Editors, Refresh(r) PROVE DebrisInv'
    BY <1>f, <1>11 DEF Refresh
  <1>12. ASSUME NEW r \in Editors, ApplyFails(r) PROVE DebrisInv'
    BY <1>f, <1>12 DEF ApplyFails
  <1>13. ASSUME NEW r \in Editors, Commit(r) PROVE DebrisInv'
    BY <1>f, <1>13 DEF Commit
  <1>14. ASSUME NEW r \in Editors, CommitFails(r) PROVE DebrisInv'
    BY <1>f, <1>14 DEF CommitFails
  <1>15. ASSUME NEW r \in Editors, MoveAside(r) PROVE DebrisInv'
    BY <1>f, <1>15 DEF MoveAside
  <1>16. ASSUME NEW r \in Editors, MoveAsideFails(r) PROVE DebrisInv'
    BY <1>f, <1>16 DEF MoveAsideFails
  <1>17. ASSUME NEW r \in Editors, Restore(r) PROVE DebrisInv'
    BY <1>f, <1>17 DEF Restore
  <1>18. ASSUME NEW r \in Editors, RestoreFails(r) PROVE DebrisInv'
    BY <1>f, <1>18 DEF RestoreFails
  <1>19. ASSUME NEW r \in Editors, Purge(r) PROVE DebrisInv'
    BY <1>f, <1>19 DEF Purge
  <1>20. ASSUME NEW r \in Editors, DropBackup(r) PROVE DebrisInv'
    BY <1>f, <1>20 DEF DropBackup
  <1>21. ASSUME NEW r \in Editors, Unlock(r) PROVE DebrisInv'
    BY <1>f, <1>21 DEF Unlock
  <1>22. ASSUME NEW r \in Editors, End(r) PROVE DebrisInv'
    BY <1>f, <1>22 DEF End
  <1>r. ASSUME NEW r \in Editors, ReadBackFails(r) PROVE DebrisInv'
    BY <1>f, <1>r DEF ReadBackFails, Unread
  <1>23. ASSUME NEW r \in Editors, Cancel(r) PROVE DebrisInv'
    BY <1>f, <1>23 DEF Cancel
  <1>24. ASSUME NEW r \in Editors, AutoRollback(r) PROVE DebrisInv'
    BY <1>f, <1>24 DEF AutoRollback
  <1>25. CASE Crash
    BY <1>f, <1>25 DEF Crash, LoseRequests
  <1>26. CASE UNCHANGED storeVars
    BY <1>26 DEF storeVars
  <1>27. QED
    BY <1>1, <1>2, <1>3, <1>4, <1>5, <1>6, <1>7, <1>8, <1>9, <1>10, <1>11, <1>12, <1>13, <1>14, <1>15, <1>16, <1>17, <1>18, <1>19, <1>20, <1>21, <1>22, <1>23, <1>24, <1>25, <1>26, <1>r
       DEF Next, Handle, AllAnswered

(* Who is answered has removed its backup container, and where no mutation *)
(* runs there is no .failed directory, even if copies to the tree fail.    *)
THEOREM NothingLeftBehind == RollbackWorks => (Spec => []NoDebris)
  <1> SUFFICES ASSUME RollbackWorks PROVE Spec => []NoDebris
    OBVIOUS
  <1>1. Init => LockInv /\ DebrisInv
    BY InitLockInv DEF Init, DebrisInv
  <1>2. LockInv /\ DebrisInv /\ [Next]_storeVars => (LockInv /\ DebrisInv)'
    BY NextLockInv, NextDebrisInv
  <1>3. LockInv /\ DebrisInv => NoDebris
    BY EditorsAssumption DEF LockInv, LockHeld, Locked, DebrisInv, InDoubt, NoDebris
  <1>4. QED
    BY <1>1, <1>2, <1>3, PTL DEF Spec

-----------------------------------------------------------------------------
(* MutateAndCommit implements AtomicPack.                                  *)

(* What a reader of the pack sees is what the rows say.                    *)
LEMMA VisibleFilesAreRows ==
  ASSUME LockInv, DoubtInv
  PROVE  VisibleFiles = rows
  <1>1. ASSUME NEW p \in Projects PROVE VisibleFiles[p] = rows[p]
    <2>1. CASE mutex[p] \in Editors /\ pc[mutex[p]] \in InDoubt
      <3>1. backup[mutex[p]] = Intact(rows[p])
        BY <2>1 DEF LockInv, LockHeld, DoubtInv, BackupGood
      <3>2. QED
        BY <2>1, <3>1 DEF VisibleFiles, Intact
    <2>2. CASE ~(mutex[p] \in Editors /\ pc[mutex[p]] \in InDoubt)
      <3>1. tree[p] = Intact(rows[p])
        BY <2>2 DEF DoubtInv, Settled
      <3>2. QED
        BY <2>2, <3>1 DEF VisibleFiles, Intact
    <2>3. QED
      BY <2>1, <2>2
  <1>2. QED
    BY <1>1 DEF VisibleFiles, LockInv, TypeOK

(* The same after a step.                                                  *)
LEMMA VisibleFilesAreRowsNext == (LockInv /\ DoubtInv)' => (VisibleFiles = rows)'
  <1>1. LockInv /\ DoubtInv => VisibleFiles = rows
    BY VisibleFilesAreRows
  <1>2. QED
    BY <1>1, PTL

Outcome == [r \in Editors |-> CASE result[r] = "none" -> "pending"
                                [] Stored(r) -> op[r]
                                [] OTHER -> "rejected"]
Answered == [r \in Editors |-> IF pc[r] = "done" THEN Told(r) ELSE "none"]

(* Initial states map to initial states.                                   *)
LEMMA InitImplements == Init => Pack!Init
  BY EditorsAssumption DEF Init, Pack!Init, VisibleFiles, Intact, Stored, Told

(* No step changes what a request asks for.                                *)
LEMMA OpsStay ==
  ASSUME [Next]_storeVars
  PROVE  UNCHANGED op
  BY DEF Next, Handle, AllAnswered, storeVars, requestVars, Begin, Stage, StageFails, LockProject,
         CopyTree, CopyFails, WriteFiles, WipeTree, FillTree, FillFails, Refresh, ApplyFails,
         Commit, CommitFails, MoveAside, MoveAsideFails, Restore, RestoreFails, Purge, DropBackup,
         Unlock, End, ReadBackFails, Unread, Cancel, AutoRollback, Crash, LoseRequests

(* The three kinds of steps: the commit, the first error, the response;    *)
(* every other step is invisible.                                          *)
LEMMA StepImplements ==
  ASSUME Reliable, LockInv, DoubtInv, LockInv', DoubtInv', [Next]_storeVars
  PROVE  [Pack!Next]_(Pack!vars)
  <1> USE DEF Stored, Told
  <1> DEFINE Hidden == UNCHANGED << rows, Outcome, Answered >>
  <1>o. UNCHANGED op
    BY OpsStay
  <1>v. VisibleFiles = rows /\ VisibleFiles' = rows'
    BY VisibleFilesAreRows, VisibleFilesAreRowsNext
  <1>h. ASSUME Hidden PROVE UNCHANGED Pack!vars
    BY <1>v, <1>h DEF Pack!vars, Outcome, Answered
  <1>q. ASSUME UNCHANGED << rows, result >>,
               \A r \in Editors : pc'[r] = "done" <=> pc[r] = "done"
        PROVE  UNCHANGED Pack!vars
    BY <1>q, <1>h, <1>o DEF Outcome, Answered
  <1>e. ASSUME NEW r \in Editors, result[r] = "none", Err(r), UNCHANGED rows,
               \A s \in Editors : pc'[s] = "done" <=> pc[s] = "done", pc[r] # "done"
        PROVE  Pack!Next
    <2>1. Outcome[r] = "pending" /\ Outcome' = [Outcome EXCEPT ![r] = "rejected"]
      BY <1>e, <1>o DEF Outcome, Err, LockInv, TypeOK
    <2>2. Answered' = Answered
      BY <1>e DEF Answered, Err, LockInv, TypeOK
    <2>3. Pack!Reject(r)
      BY <1>e, <1>v, <2>1, <2>2 DEF Pack!Reject, Outcome, Answered
    <2>4. QED
      BY <2>3 DEF Pack!Next
  <1>c. ASSUME NEW r \in Editors, Commit(r) PROVE Pack!Next
    <2>1. result[r] = "none" /\ proj[r] \in Projects /\ pc[r] = "commit"
      BY <1>c DEF Commit, Jump, DoubtInv, ResultKnown, LockInv, TypeOK
    <2>2. /\ Outcome[r] = "pending" /\ op[r] \in {"edit", "replace"}
          /\ Outcome' = [Outcome EXCEPT ![r] = op[r]]
      BY <1>c, <1>o, <2>1 DEF Commit, Outcome, LockInv, TypeOK
    <2>3. Answered' = Answered
      BY <1>c, <2>1 DEF Commit, Jump, Answered, LockInv, TypeOK
    <2>4. rows' = [rows EXCEPT ![proj[r]] = IF op[r] = "replace" THEN {r}
                                           ELSE rows[proj[r]] \cup {r}]
      BY <1>c DEF Commit, Intended
    <2>5. PICK p \in Projects : p = proj[r]
      BY <2>1
    <2>6. CASE op[r] = "edit"
      <3>1. Pack!Edit(r, p)
        BY <1>v, <2>2, <2>3, <2>4, <2>5, <2>6 DEF Pack!Edit, Pack!Store, Outcome, Answered
      <3> QED BY <3>1 DEF Pack!Next
    <2>7. CASE op[r] = "replace"
      <3>1. Pack!Replace(r, p)
        BY <1>v, <2>2, <2>3, <2>4, <2>5, <2>7 DEF Pack!Replace, Pack!Store, Outcome, Answered
      <3> QED BY <3>1 DEF Pack!Next
    <2>8. QED
      BY <2>2, <2>6, <2>7
  <1>d. ASSUME NEW r \in Editors, End(r) PROVE Pack!Next
    <2>1. pc[r] = "end" /\ pc' = [pc EXCEPT ![r] = "done"] /\ UNCHANGED << rows, result >>
      BY <1>d DEF End, Jump, requestVars, diskVars
    <2>2. result[r] \in {"ok", "error"} /\ op[r] \in {"edit", "replace"}
      BY <2>1 DEF DoubtInv, ResultKnown, LockInv, TypeOK
    <2>3. Answered[r] = "none" /\ Outcome[r] # "pending" /\ Outcome' = Outcome
      BY <1>o, <2>1, <2>2 DEF Answered, Outcome
    <2>4. result[r] \in Pack!Answers(Outcome[r])
      BY <2>2 DEF Pack!Answers, Outcome
    <2>5. Answered' = [Answered EXCEPT ![r] = result[r]]
      BY <2>1, <2>2 DEF Answered, LockInv, TypeOK
    <2>6. Pack!Answer(r)
      BY <1>v, <2>1, <2>3, <2>4, <2>5 DEF Pack!Answer, Outcome, Answered
    <2>7. QED
      BY <2>6 DEF Pack!Next
  <1>r. ASSUME NEW r \in Editors, ReadBackFails(r) PROVE Pack!Next
    <2>1. /\ pc[r] = "end" /\ pc' = [pc EXCEPT ![r] = "done"] /\ UNCHANGED rows
          /\ op[r] = "replace" /\ result[r] = "ok"
          /\ result' = [result EXCEPT ![r] = "unread"]
      BY <1>r DEF ReadBackFails, Unread, ReadsBack, Jump, requestVars, diskVars
    <2>2. Answered[r] = "none" /\ Outcome[r] = "replace" /\ Outcome' = Outcome
      BY <1>o, <2>1 DEF Answered, Outcome, LockInv, TypeOK
    <2>3. Answered' = [Answered EXCEPT ![r] = "error"]
      BY <2>1 DEF Answered, LockInv, TypeOK
    <2>4. "error" \in Pack!Answers(Outcome[r])
      BY <2>2 DEF Pack!Answers
    <2>5. Pack!Answer(r)
      BY <1>v, <2>1, <2>2, <2>3, <2>4 DEF Pack!Answer, Outcome, Answered
    <2>6. QED
      BY <2>5 DEF Pack!Next
  <1>1. ASSUME NEW r \in Editors,
               StageFails(r) \/ CopyFails(r) \/ FillFails(r) \/ ApplyFails(r) \/ CommitFails(r)
        PROVE  Pack!Next
    <2>1. result[r] = "none" /\ pc[r] # "done" /\ Err(r) /\ UNCHANGED rows
      BY <1>1 DEF StageFails, CopyFails, FillFails, ApplyFails, CommitFails, Jump,
                  DoubtInv, ResultKnown, diskVars
    <2>2. \A s \in Editors : pc'[s] = "done" <=> pc[s] = "done"
      BY <1>1 DEF StageFails, CopyFails, FillFails, ApplyFails, CommitFails, Jump,
                  LockInv, TypeOK
    <2>3. QED
      BY <2>1, <2>2, <1>e
  <1>2. ASSUME NEW r \in Editors,
               \/ Begin(r) \/ Stage(r) \/ LockProject(r) \/ CopyTree(r) \/ WriteFiles(r)
               \/ WipeTree(r) \/ FillTree(r) \/ Refresh(r) \/ MoveAside(r) \/ MoveAsideFails(r)
               \/ Restore(r) \/ RestoreFails(r) \/ Purge(r) \/ DropBackup(r) \/ Unlock(r)
        PROVE  UNCHANGED Pack!vars
    <2>1. UNCHANGED << rows, result >>
      BY <1>2 DEF Begin, Stage, LockProject, CopyTree, WriteFiles, WipeTree, FillTree, Refresh,
                  MoveAside, MoveAsideFails, Restore, RestoreFails, Purge, DropBackup, Unlock
    <2>2. \A s \in Editors : pc'[s] = "done" <=> pc[s] = "done"
      BY <1>2 DEF Begin, Stage, LockProject, CopyTree, WriteFiles, WipeTree, FillTree, Refresh,
                  MoveAside, MoveAsideFails, Restore, RestoreFails, Purge, DropBackup, Unlock,
                  Jump, LockInv, TypeOK
    <2>3. QED
      BY <2>1, <2>2, <1>q
  <1>3. ASSUME NEW r \in Editors, Cancel(r) \/ AutoRollback(r) PROVE UNCHANGED Pack!vars
    BY <1>3, <1>q DEF Cancel, AutoRollback
  <1>4. CASE UNCHANGED storeVars
    BY <1>4, <1>q DEF storeVars
  <1>5. ~Crash
    BY DEF Crash, LoseRequests, Reliable
  <1>6. QED
    BY <1>c, <1>d, <1>r, <1>1, <1>2, <1>3, <1>4, <1>5 DEF Next, Handle, AllAnswered

(* Every execution of the handlers, with cancelled clients and failing     *)
(* callbacks, is one in which each request replaces rows and files         *)
(* together or leaves both alone, and is answered accordingly.             *)
THEOREM Implements == Reliable => (Spec => ImplementsAtomicPack)
  <1> SUFFICES ASSUME Reliable PROVE Spec => Pack!Spec
    BY DEF ImplementsAtomicPack
  <1>1. Init => Pack!Init
    BY InitImplements
  <1>2. /\ LockInv /\ DoubtInv /\ (LockInv /\ DoubtInv)' /\ [Next]_storeVars
        => [Pack!Next]_(Pack!vars)
    BY StepImplements
  <1>3. Spec => [](LockInv /\ DoubtInv)
    BY Invariants
  <1>4. QED
    BY <1>1, <1>2, <1>3, PTL DEF Spec, Pack!Spec
=============================================================================
