---------------------------- MODULE ProjectStore ----------------------------
(***************************************************************************)
(* The two-store mutation of a pack: service/internal/projects/manager.go  *)
(* (Lock, MutateAndCommit) together with what every handler of             *)
(* service/internal/api does around it.  A handler opens a SQLite          *)
(* transaction and stages its rows (which takes the one write lock of the  *)
(* database), then MutateAndCommit takes the mutex of the project, copies  *)
(* the working tree to a backup, changes the tree, lets packwiz rewrite    *)
(* the index, and commits.  Any error moves the tree aside and moves the   *)
(* backup back.  The handler that replaces a pack by an archive then reads *)
(* the pack again to answer with it, and answers the error of that.        *)
(*                                                                         *)
(* The content of a pack is abstracted to the set of requests whose change *)
(* it holds.  A tree is valid when its index lists exactly its files.      *)
(***************************************************************************)
CONSTANTS
  Editors,   \* requests that mutate a pack, each sent once
  Holders,   \* all that may hold a mutex or the write lock
  Projects,
  NoOne,     \* a mutex or the write lock nobody holds
  NoTree,    \* a directory that does not exist
  Faults     \* what the environment may do wrong in this instance

ASSUME EditorsAssumption == Editors \subseteq Holders /\ NoOne \notin Holders
ASSUME NoTreeAssumption ==
  NoTree \notin [files : SUBSET Editors, index : SUBSET Editors]
ASSUME FaultsAssumption ==
  Faults \subseteq {"fail", "cancel", "copy", "wipe", "rename", "crash"}

VARIABLES
  pc,         \* the step each request takes next
  proj,       \* the project it names
  op,         \* "edit" changes some files, "replace" the whole tree
  cancelled,  \* its HTTP context is done
  result,     \* the err of its handler; "unread" is that of the read after the commit
  writer,     \* the holder of SQLite's write lock: an open transaction with staged rows
  mutex,      \* Manager.locks
  rows,       \* rows[p]: committed rows of the project
  tree,       \* tree[p]: the working directory
  backup,     \* backup[r]: the tree in the request's backup container
  failed      \* failed[p]: the directory <working directory>.failed

requestVars == << proj, op, cancelled >>
diskVars == << tree, backup, failed >>
storeVars == << pc, requestVars, result, writer, mutex, rows, diskVars >>

Steps == { "idle", "stage", "lock", "copy", "apply", "fill", "refresh", "commit",
           "aside", "restore", "purge", "drop", "unlock", "end", "done" }

(* The steps a request takes with the mutex of its project held.           *)
Locked == { "copy", "apply", "fill", "refresh", "commit", "aside", "restore",
            "purge", "drop", "unlock" }

(* The steps at which the tree is not yet what the rows say.               *)
InDoubt == { "apply", "fill", "refresh", "commit", "aside", "restore" }

Trees == [files : SUBSET Editors, index : SUBSET Editors]
Intact(content) == [files |-> content, index |-> content]

(* What the pack becomes if request r succeeds.                            *)
Intended(r) == IF op[r] = "replace" THEN {r} ELSE rows[proj[r]] \cup {r}

Init ==
  /\ pc = [r \in Editors |-> "idle"]
  /\ proj \in [Editors -> Projects]
  /\ op \in [Editors -> {"edit", "replace"}]
  /\ cancelled = [r \in Editors |-> FALSE]
  /\ result = [r \in Editors |-> "none"]
  /\ writer = NoOne
  /\ mutex = [p \in Projects |-> NoOne]
  /\ rows = [p \in Projects |-> {}]
  /\ tree = [p \in Projects |-> Intact({})]
  /\ backup = [r \in Editors |-> NoTree]
  /\ failed = [p \in Projects |-> NoTree]

-----------------------------------------------------------------------------
(* Steps of a handler.                                                     *)

Jump(r, from, to) == pc[r] = from /\ pc' = [pc EXCEPT ![r] = to]
Err(r) == result' = [result EXCEPT ![r] = "error"]

Begin(r) ==
  /\ Jump(r, "idle", "stage")
  /\ UNCHANGED << requestVars, result, writer, mutex, rows, diskVars >>

(* BeginTx and the first INSERT, UPDATE or DELETE: from here the request   *)
(* holds the write lock until it commits or rolls back.                    *)
Stage(r) ==
  /\ Jump(r, "stage", "lock")
  /\ ~cancelled[r] /\ writer = NoOne
  /\ writer' = r
  /\ UNCHANGED << requestVars, result, mutex, rows, diskVars >>

(* busy_timeout elapsed while another transaction held the write lock, or  *)
(* the context is done.                                                    *)
StageFails(r) ==
  /\ Jump(r, "stage", "end")
  /\ cancelled[r] \/ writer # NoOne
  /\ Err(r)
  /\ UNCHANGED << requestVars, writer, mutex, rows, diskVars >>

LockProject(r) ==
  /\ Jump(r, "lock", "copy")
  /\ mutex[proj[r]] = NoOne
  /\ mutex' = [mutex EXCEPT ![proj[r]] = r]
  /\ UNCHANGED << requestVars, result, writer, rows, diskVars >>

CopyTree(r) ==
  /\ Jump(r, "copy", "apply")
  /\ ~cancelled[r] /\ tree[proj[r]] # NoTree
  /\ backup' = [backup EXCEPT ![r] = tree[proj[r]]]
  /\ UNCHANGED << requestVars, result, writer, mutex, rows, tree, failed >>

(* Mutant: the error of CopyFS is not looked at.                           *)
CopyErrorIgnored(r) ==
  /\ Jump(r, "copy", "apply")
  /\ cancelled[r] \/ tree[proj[r]] = NoTree \/ "copy" \in Faults
  /\ UNCHANGED << requestVars, result, writer, mutex, rows, diskVars >>

(* Mutant: a return before the deferred unlock is set up.                  *)
CopyFailsLocked(r) ==
  /\ Jump(r, "copy", "end")
  /\ cancelled[r] \/ tree[proj[r]] = NoTree \/ "copy" \in Faults
  /\ Err(r)
  /\ UNCHANGED << requestVars, writer, mutex, rows, diskVars >>

(* Get fails, or MkdirTemp, or CopyFS part of the way.                     *)
CopyFails(r) ==
  /\ Jump(r, "copy", "drop")
  /\ cancelled[r] \/ tree[proj[r]] = NoTree \/ "copy" \in Faults
  /\ Err(r)
  /\ UNCHANGED << requestVars, writer, mutex, rows, diskVars >>

(* Mutant: the callback returns without packwiz refresh.                   *)
WriteFilesNoRefresh(r) ==
  /\ Jump(r, "apply", "commit")
  /\ op[r] = "edit"
  /\ tree' = [tree EXCEPT ![proj[r]].files = @ \cup {r}]
  /\ UNCHANGED << requestVars, result, writer, mutex, rows, backup, failed >>

(* The callback of an ordinary handler: it writes or removes its files.    *)
WriteFiles(r) ==
  /\ Jump(r, "apply", "refresh")
  /\ op[r] = "edit"
  /\ tree' = [tree EXCEPT ![proj[r]].files = @ \cup {r}]
  /\ UNCHANGED << requestVars, result, writer, mutex, rows, backup, failed >>

(* The callback of replaceProjectFromArchive: RemoveAll of the tree, then  *)
(* a copy of the archive in its place.                                     *)
WipeTree(r) ==
  /\ Jump(r, "apply", "fill")
  /\ op[r] = "replace"
  /\ tree' = [tree EXCEPT ![proj[r]] = NoTree]
  /\ UNCHANGED << requestVars, result, writer, mutex, rows, backup, failed >>

(* Mutant: an archive is accepted without an index.                        *)
FillTreeNoIndex(r) ==
  /\ Jump(r, "fill", "refresh")
  /\ tree' = [tree EXCEPT ![proj[r]] = [files |-> {r}]]
  /\ UNCHANGED << requestVars, result, writer, mutex, rows, backup, failed >>

(* What the archive holds is copied; its index is not trusted.             *)
FillTree(r) ==
  /\ Jump(r, "fill", "refresh")
  /\ tree' = [tree EXCEPT ![proj[r]] = [files |-> {r}, index |-> {}]]
  /\ UNCHANGED << requestVars, result, writer, mutex, rows, backup, failed >>

(* os.CopyFS could not create the root of the tree.                        *)
FillFails(r) ==
  /\ Jump(r, "fill", "aside")
  /\ "wipe" \in Faults
  /\ Err(r)
  /\ UNCHANGED << requestVars, writer, mutex, rows, diskVars >>

(* The last act of every callback: packwiz refresh rewrites the index.     *)
Refresh(r) ==
  /\ Jump(r, "refresh", "commit")
  /\ ~cancelled[r]
  /\ tree' = [tree EXCEPT ![proj[r]].index = tree[proj[r]].files]
  /\ UNCHANGED << requestVars, result, writer, mutex, rows, backup, failed >>

(* The callback returns an error, with any part of the tree changed: a     *)
(* file operation or packwiz failed, or the context is done and packwiz    *)
(* is not run.                                                             *)
ApplyFails(r) ==
  /\ pc[r] \in {"apply", "refresh"}
  /\ Jump(r, pc[r], "aside")
  /\ "fail" \in Faults \/ (pc[r] = "refresh" /\ cancelled[r])
  /\ \E part \in SUBSET (tree[proj[r]].files \cup {r}) :
       tree' = [tree EXCEPT ![proj[r]].files = part]
  /\ Err(r)
  /\ UNCHANGED << requestVars, writer, mutex, rows, backup, failed >>

Commit(r) ==
  /\ Jump(r, "commit", "drop")
  /\ ~cancelled[r] /\ writer = r
  /\ rows' = [rows EXCEPT ![proj[r]] = Intended(r)]
  /\ writer' = NoOne
  /\ result' = [result EXCEPT ![r] = "ok"]
  /\ UNCHANGED << requestVars, mutex, diskVars >>

(* Mutant: the tree is kept when only the commit failed.                   *)
CommitFailsKeepsTree(r) ==
  /\ Jump(r, "commit", "drop")
  /\ cancelled[r]
  /\ Err(r)
  /\ UNCHANGED << requestVars, writer, mutex, rows, diskVars >>

(* Mutant: a transaction that is already done counts as committed.         *)
CommitDoneIsOk(r) ==
  /\ Jump(r, "commit", "drop")
  /\ cancelled[r]
  /\ result' = [result EXCEPT ![r] = "ok"]
  /\ UNCHANGED << requestVars, writer, mutex, rows, diskVars >>

(* tx.Commit refuses: the context is done.                                 *)
CommitFails(r) ==
  /\ Jump(r, "commit", "aside")
  /\ cancelled[r]
  /\ Err(r)
  /\ UNCHANGED << requestVars, writer, mutex, rows, diskVars >>

(* RemoveAll of an older .failed directory, then the tree is renamed to it.*)
MoveAside(r) ==
  /\ Jump(r, "aside", "restore")
  /\ tree[proj[r]] # NoTree
  /\ failed' = [failed EXCEPT ![proj[r]] = tree[proj[r]]]
  /\ tree' = [tree EXCEPT ![proj[r]] = NoTree]
  /\ UNCHANGED << requestVars, result, writer, mutex, rows, backup >>

(* There is no tree to rename, or the rename fails: "rollback move failed".*)
MoveAsideFails(r) ==
  /\ Jump(r, "aside", "drop")
  /\ tree[proj[r]] = NoTree \/ "rename" \in Faults
  /\ failed' = [failed EXCEPT ![proj[r]] = NoTree]
  /\ UNCHANGED << requestVars, result, writer, mutex, rows, tree, backup >>

(* Mutant: the directory that was moved aside is not removed.              *)
RestoreKeepsFailed(r) ==
  /\ Jump(r, "restore", "drop")
  /\ tree' = [tree EXCEPT ![proj[r]] = backup[r]]
  /\ backup' = [backup EXCEPT ![r] = NoTree]
  /\ UNCHANGED << requestVars, result, writer, mutex, rows, failed >>

(* The backup is renamed to the working directory.                         *)
Restore(r) ==
  /\ Jump(r, "restore", "purge")
  /\ tree' = [tree EXCEPT ![proj[r]] = backup[r]]
  /\ backup' = [backup EXCEPT ![r] = NoTree]
  /\ UNCHANGED << requestVars, result, writer, mutex, rows, failed >>

(* "rollback restore failed": the changed tree is put back, if that rename *)
(* works; its error is not looked at.                                      *)
RestoreFails(r) ==
  /\ Jump(r, "restore", "drop")
  /\ "rename" \in Faults
  /\ \/ /\ tree' = [tree EXCEPT ![proj[r]] = failed[proj[r]]]
        /\ failed' = [failed EXCEPT ![proj[r]] = NoTree]
     \/ UNCHANGED << tree, failed >>
  /\ UNCHANGED << requestVars, result, writer, mutex, rows, backup >>

Purge(r) ==
  /\ Jump(r, "purge", "drop")
  /\ failed' = [failed EXCEPT ![proj[r]] = NoTree]
  /\ UNCHANGED << requestVars, result, writer, mutex, rows, tree, backup >>

(* The deferred RemoveAll of the backup container, however the call ended. *)
DropBackup(r) ==
  /\ Jump(r, "drop", "unlock")
  /\ backup' = [backup EXCEPT ![r] = NoTree]
  /\ UNCHANGED << requestVars, result, writer, mutex, rows, tree, failed >>

Unlock(r) ==
  /\ Jump(r, "unlock", "end")
  /\ mutex' = [mutex EXCEPT ![proj[r]] = NoOne]
  /\ UNCHANGED << requestVars, result, writer, rows, diskVars >>

(* replaceProjectFromArchive calls Get after its commit.                   *)
ReadsBack(r) == op[r] = "replace" /\ result[r] = "ok"

(* The deferred tx.Rollback, which does nothing after a commit, and the    *)
(* response.                                                               *)
End(r) ==
  /\ Jump(r, "end", "done")
  /\ ReadsBack(r) => ~cancelled[r]
  /\ writer' = IF writer = r THEN NoOne ELSE writer
  /\ UNCHANGED << requestVars, result, mutex, rows, diskVars >>

(* The response is the error of that Get; what was committed stays.        *)
Unread(r) ==
  /\ Jump(r, "end", "done")
  /\ ReadsBack(r)
  /\ result' = [result EXCEPT ![r] = "unread"]
  /\ UNCHANGED << requestVars, writer, mutex, rows, diskVars >>

(* The context is done, or the database cannot be read.                    *)
ReadBackFails(r) == (cancelled[r] \/ "fail" \in Faults) /\ Unread(r)

-----------------------------------------------------------------------------
(* What happens to a request from outside.                                 *)

InFlight(r) == pc[r] \notin {"idle", "done"}

(* The client goes away: net/http cancels the request's context.           *)
Cancel(r) ==
  /\ "cancel" \in Faults /\ InFlight(r) /\ ~cancelled[r]
  /\ cancelled' = [cancelled EXCEPT ![r] = TRUE]
  /\ UNCHANGED << pc, proj, op, result, writer, mutex, rows, diskVars >>

(* database/sql rolls the transaction of a done context back on a          *)
(* goroutine of its own, at whatever step the handler then is.             *)
AutoRollback(r) ==
  /\ cancelled[r] /\ writer = r
  /\ writer' = NoOne
  /\ UNCHANGED << pc, requestVars, result, mutex, rows, diskVars >>

(* The process dies and systemd restarts it.  Locks and transactions are   *)
(* gone, what is on disk stays as it is: main opens the database and       *)
(* serves, nothing looks at backups or at .failed directories.             *)
LoseRequests ==
  /\ "crash" \in Faults
  /\ pc' = [r \in Editors |-> IF InFlight(r) THEN "done" ELSE pc[r]]
  /\ result' = [r \in Editors |-> IF InFlight(r) THEN "lost" ELSE result[r]]
  /\ writer' = NoOne
  /\ mutex' = [p \in Projects |-> NoOne]
  /\ UNCHANGED << requestVars, rows, diskVars >>

Crash == (\E r \in Editors : InFlight(r)) /\ LoseRequests

-----------------------------------------------------------------------------
Handle(r) ==
  \/ Stage(r) \/ StageFails(r) \/ LockProject(r)
  \/ CopyTree(r) \/ CopyFails(r)
  \/ WriteFiles(r) \/ WipeTree(r) \/ FillTree(r) \/ FillFails(r)
  \/ Refresh(r) \/ ApplyFails(r)
  \/ Commit(r) \/ CommitFails(r)
  \/ MoveAside(r) \/ MoveAsideFails(r) \/ Restore(r) \/ RestoreFails(r) \/ Purge(r)
  \/ DropBackup(r) \/ Unlock(r) \/ End(r) \/ ReadBackFails(r)

(* All requests have been answered; the service waits for more.            *)
AllAnswered == (\A r \in Editors : pc[r] = "done") /\ UNCHANGED storeVars

Next ==
  \/ \E r \in Editors : Begin(r) \/ Handle(r) \/ Cancel(r) \/ AutoRollback(r)
  \/ Crash
  \/ AllAnswered

Fairness == \A r \in Editors : WF_storeVars(Handle(r))

Spec == Init /\ [][Next]_storeVars
FairSpec == Spec /\ Fairness

-----------------------------------------------------------------------------
(* Properties.                                                             *)

(* Every variable keeps to its range; a directory is missing or a tree.    *)
TypeOK ==
  /\ pc \in [Editors -> Steps]
  /\ proj \in [Editors -> Projects]
  /\ op \in [Editors -> {"edit", "replace"}]
  /\ cancelled \in [Editors -> BOOLEAN]
  /\ result \in [Editors -> {"none", "ok", "unread", "error", "lost"}]
  /\ writer \in Holders \cup {NoOne}
  /\ mutex \in [Projects -> Holders \cup {NoOne}]
  /\ rows \in [Projects -> SUBSET Editors]
  /\ tree \in [Projects -> Trees \cup {NoTree}]
  /\ backup \in [Editors -> Trees \cup {NoTree}]
  /\ failed \in [Projects -> Trees \cup {NoTree}]

(* Whenever nobody holds the mutex of a project, its working tree is       *)
(* valid and holds exactly the changes whose rows are committed: this is   *)
(* what publishing and the next mutation build on, whichever of its steps  *)
(* the last mutation failed at.                                            *)
TreeMatchesRows ==
  \A p \in Projects : mutex[p] = NoOne => tree[p] = Intact(rows[p])

(* At every moment some directory on disk, the working tree or the backup  *)
(* of a request for the project, holds the pack the database describes:    *)
(* rollback never destroys the only good copy.                             *)
CommittedCopyOnDisk ==
  \A p \in Projects :
    \/ tree[p] = Intact(rows[p])
    \/ \E r \in Editors : proj[r] = p /\ backup[r] = Intact(rows[p])

(* A request that is answered leaves no backup container and no .failed    *)
(* directory of its making behind.                                         *)
NoDebris ==
  /\ \A r \in Editors : pc[r] = "done" => backup[r] = NoTree
  /\ \A p \in Projects : mutex[p] = NoOne => failed[p] = NoTree

(* The working tree is there and its index lists its files whenever nobody *)
(* is changing it, be it because the last mutation succeeded or because it *)
(* was rolled back.                                                        *)
ValidOrRolledBack ==
  \A p \in Projects :
    mutex[p] = NoOne => tree[p] # NoTree /\ tree[p].index = tree[p].files

(* What the caller is told: it cannot tell one error from the other.       *)
Told(r) == IF result[r] = "unread" THEN "error" ELSE result[r]

(* MutateAndCommit returned no error.                                      *)
Stored(r) == result[r] \in {"ok", "unread"}

(* Whatever fails, the rows agree with what the callers were told.  The    *)
(* caller of an edit who is told an error can rely on the change not being *)
(* stored; of those who replace a pack only the one whose pack could not   *)
(* be read after the commit is told an error although it is stored.  And   *)
(* a stored change only disappears because an archive replaced the pack    *)
(* after it.                                                               *)
AnswersMatchRows ==
  \A r \in Editors :
    /\ Told(r) = "error" /\ r \in rows[proj[r]] => op[r] = "replace" /\ Stored(r)
    /\ Stored(r) =>
         \/ r \in rows[proj[r]]
         \/ \E s \in rows[proj[r]] : op[s] = "replace"

(* Whatever fails, rows are committed only when the working tree exists    *)
(* and has just been indexed with the change in it.                        *)
CommitsIndexedTree ==
  [][\A p \in Projects : rows'[p] # rows[p] =>
       /\ tree[p] # NoTree /\ tree[p].index = tree[p].files
       /\ \A r \in rows'[p] \ rows[p] : r \in tree[p].files]_storeVars

(* Seen from outside, MutateAndCommit changes rows and files in one step.  *)
(* While a request is in doubt the pack is what its backup holds.          *)
VisibleFiles ==
  [p \in Projects |->
     IF mutex[p] \in Editors /\ pc[mutex[p]] \in InDoubt
       THEN backup[mutex[p]].files
       ELSE tree[p].files]

Pack == INSTANCE AtomicPack WITH
  files <- VisibleFiles,
  outcome <- [r \in Editors |-> CASE result[r] = "none" -> "pending"
                                  [] Stored(r) -> op[r]
                                  [] OTHER -> "rejected"],
  answer <- [r \in Editors |-> IF pc[r] = "done" THEN Told(r) ELSE "none"]

(* The handlers around MutateAndCommit implement the atomic change of      *)
(* AtomicPack, the answers they give included.                             *)
ImplementsAtomicPack == Pack!Spec

(* Every request that is sent is answered: the mutex, the write lock and   *)
(* the rollback never leave a handler waiting for ever.                    *)
EveryRequestAnswered ==
  \A r \in Editors : (pc[r] = "stage") ~> (pc[r] = "done")
=============================================================================
