----------------------------- MODULE Publishing -----------------------------
(***************************************************************************)
(* Publishing a pack and rolling a publication back:                       *)
(* service/internal/publishing/publisher.go (Publish, Rollback,            *)
(* atomicCurrent, restoreCurrent), next to the mutations of ProjectStore   *)
(* with which it shares the mutex of the project and the write lock of the *)
(* database.  A mutation takes the write lock and then the mutex, a        *)
(* publication the mutex and then the write lock; SQLite's busy timeout    *)
(* ends the wait of whichever asks for the write lock.                     *)
(***************************************************************************)
EXTENDS ProjectStore, Naturals, FiniteSets, FiniteSetsExt

CONSTANTS
  Publishers   \* requests that publish or roll back, each sent once

ASSUME PublishersAssumption ==
  /\ Publishers \subseteq Holders
  /\ Publishers \cap Editors = {}
  /\ IsFiniteSet(Publishers)

VARIABLES
  ppc,        \* the step each publisher takes next
  pproj,      \* the project it names
  pop,        \* "publish" or "rollback"
  gone,       \* its HTTP context is done
  presult,    \* the error it returns, if any
  number,     \* the revision it publishes or goes back to
  staging,    \* the directory .<id>.staging it fills
  previous,   \* what Readlink of current returned, 0 for no link
  releases,   \* releases[p][n]: the directory releases/<n>
  revisions,  \* committed rows of the table revisions, by number
  current,    \* committed projects.current_revision_id, by number, 0 for NULL
  link        \* the number the symbolic link current points to, 0 for no link

publisherVars == << pproj, pop, gone >>
releaseVars == << staging, releases, link >>
recordVars == << revisions, current >>
publishVars == << ppc, publisherVars, presult, number, previous, releaseVars, recordVars >>
systemVars == << storeVars, publishVars >>

(* A publication takes one number; there are no more numbers than requests.*)
Numbers == 1 .. Cardinality(Publishers)

PublishSteps == { "idle", "lock", "prepare", "copy", "promote", "begin", "switch",
                  "commit", "relink", "tidy", "unlock", "done" }

PublishInit ==
  /\ ppc = [q \in Publishers |-> "idle"]
  /\ pproj \in [Publishers -> Projects]
  /\ pop \in [Publishers -> {"publish", "rollback"}]
  /\ gone = [q \in Publishers |-> FALSE]
  /\ presult = [q \in Publishers |-> "none"]
  /\ number = [q \in Publishers |-> 0]
  /\ staging = [q \in Publishers |-> NoTree]
  /\ previous = [q \in Publishers |-> 0]
  /\ releases = [p \in Projects |-> [n \in Numbers |-> NoTree]]
  /\ revisions = [p \in Projects |-> {}]
  /\ current = [p \in Projects |-> 0]
  /\ link = [p \in Projects |-> 0]

SystemInit == Init /\ PublishInit

-----------------------------------------------------------------------------
(* Steps of Publish and Rollback.                                          *)

Goto(q, from, to) == ppc[q] = from /\ ppc' = [ppc EXCEPT ![q] = to]
PErr(q) == presult' = [presult EXCEPT ![q] = "error"]

(* What the steps of a publisher leave alone in ProjectStore, apart from   *)
(* the mutex, the write lock and the tree.                                 *)
editorVars == << pc, requestVars, result, rows, backup, failed >>

PBegin(q) ==
  /\ Goto(q, "idle", "lock")
  /\ UNCHANGED << storeVars, publisherVars, presult, number, previous, releaseVars, recordVars >>

(* Mutant: the mutex is taken whoever holds it.                            *)
PLockAtOnce(q) ==
  /\ Goto(q, "lock", "prepare")
  /\ mutex' = [mutex EXCEPT ![pproj[q]] = q]
  /\ UNCHANGED << editorVars, writer, tree, publisherVars, presult, number, previous,
                  releaseVars, recordVars >>

(* The mutex a mutation of the project takes, too.                         *)
PLock(q) ==
  /\ Goto(q, "lock", "prepare")
  /\ mutex[pproj[q]] = NoOne
  /\ mutex' = [mutex EXCEPT ![pproj[q]] = q]
  /\ UNCHANGED << editorVars, writer, tree, publisherVars, presult, number, previous,
                  releaseVars, recordVars >>

(* Mutant: the next number is one too large.                               *)
NextNumberGap(p) == 2 + Max(revisions[p] \cup {0})

(* The next number is one more than the largest recorded one.              *)
NextNumber(p) == 1 + Max(revisions[p] \cup {0})

(* Publish: pack.toml is there, packwiz refresh runs in the working tree   *)
(* itself, and the next number is read.                                    *)
Prepare(q) ==
  /\ Goto(q, "prepare", "copy")
  /\ pop[q] = "publish" /\ ~gone[q] /\ tree[pproj[q]] # NoTree
  /\ tree' = [tree EXCEPT ![pproj[q]].index = tree[pproj[q]].files]
  /\ number' = [number EXCEPT ![q] = NextNumber(pproj[q])]
  /\ UNCHANGED << editorVars, writer, mutex, publisherVars, presult, previous,
                  releaseVars, recordVars >>

(* Rollback: the row of the revision is read.                              *)
SelectRevision(q) ==
  /\ Goto(q, "prepare", "begin")
  /\ pop[q] = "rollback" /\ ~gone[q]
  /\ \E n \in revisions[pproj[q]] : number' = [number EXCEPT ![q] = n]
  /\ UNCHANGED << storeVars, publisherVars, presult, previous, releaseVars, recordVars >>

(* No tree, packwiz failed, no such revision, or the context is done.      *)
PrepareFails(q) ==
  /\ Goto(q, "prepare", "unlock")
  /\ gone[q] \/ pop[q] = "rollback" \/ tree[pproj[q]] = NoTree \/ "fail" \in Faults
  /\ PErr(q)
  /\ UNCHANGED << storeVars, publisherVars, number, previous, releaseVars, recordVars >>

(* copyTree and revision.json fill the staging directory.                  *)
StageCopy(q) ==
  /\ Goto(q, "copy", "promote")
  /\ staging' = [staging EXCEPT ![q] = tree[pproj[q]]]
  /\ UNCHANGED << storeVars, publisherVars, presult, number, previous, releases, link, recordVars >>

StageCopyFails(q) ==
  /\ Goto(q, "copy", "tidy")
  /\ "copy" \in Faults
  /\ PErr(q)
  /\ UNCHANGED << storeVars, publisherVars, number, previous, releaseVars, recordVars >>

(* Mutant: a directory that is in the way is overwritten.                  *)
PromoteOver(q) ==
  /\ Goto(q, "promote", "begin")
  /\ releases' = [releases EXCEPT ![pproj[q]][number[q]] = staging[q]]
  /\ staging' = [staging EXCEPT ![q] = NoTree]
  /\ UNCHANGED << storeVars, publisherVars, presult, number, previous, link, recordVars >>

(* Rename of the staging directory to releases/<number>.                   *)
Promote(q) ==
  /\ Goto(q, "promote", "begin")
  /\ releases[pproj[q]][number[q]] = NoTree
  /\ releases' = [releases EXCEPT ![pproj[q]][number[q]] = staging[q]]
  /\ staging' = [staging EXCEPT ![q] = NoTree]
  /\ UNCHANGED << storeVars, publisherVars, presult, number, previous, link, recordVars >>

(* Mutant: the error of the promoting rename is not looked at.             *)
PromoteErrorIgnored(q) ==
  /\ Goto(q, "promote", "begin")
  /\ releases[pproj[q]][number[q]] # NoTree \/ "rename" \in Faults
  /\ UNCHANGED << storeVars, publisherVars, presult, number, previous, releaseVars, recordVars >>

(* A directory that is not empty is in the way, or the rename fails.       *)
PromoteFails(q) ==
  /\ Goto(q, "promote", "tidy")
  /\ releases[pproj[q]][number[q]] # NoTree \/ "rename" \in Faults
  /\ PErr(q)
  /\ UNCHANGED << storeVars, publisherVars, number, previous, releaseVars, recordVars >>

(* BeginTx and the writes of the rows, which take the write lock.          *)
PStage(q) ==
  /\ Goto(q, "begin", "switch")
  /\ ~gone[q] /\ writer = NoOne
  /\ writer' = q
  /\ UNCHANGED << editorVars, mutex, tree, publisherVars, presult, number, previous,
                  releaseVars, recordVars >>

(* Mutant: no busy timeout, a statement waits for the write lock.          *)
PStageWaits(q) ==
  /\ Goto(q, "begin", "tidy")
  /\ gone[q]
  /\ PErr(q)
  /\ UNCHANGED << storeVars, publisherVars, number, previous, releaseVars, recordVars >>

(* busy_timeout elapsed, or the context is done.                           *)
PStageFails(q) ==
  /\ Goto(q, "begin", "tidy")
  /\ gone[q] \/ writer # NoOne
  /\ PErr(q)
  /\ UNCHANGED << storeVars, publisherVars, number, previous, releaseVars, recordVars >>

(* Readlink, then atomicCurrent: a new link is renamed over current.       *)
Switch(q) ==
  /\ Goto(q, "switch", "commit")
  /\ previous' = [previous EXCEPT ![q] = link[pproj[q]]]
  /\ link' = [link EXCEPT ![pproj[q]] = number[q]]
  /\ UNCHANGED << storeVars, publisherVars, presult, number, staging, releases, recordVars >>

(* The new link cannot be made, or it can be renamed neither over current  *)
(* nor, after current was removed, to its place.                           *)
SwitchFails(q) ==
  /\ Goto(q, "switch", "tidy")
  /\ "rename" \in Faults
  /\ link' \in { link, [link EXCEPT ![pproj[q]] = 0] }
  /\ PErr(q)
  /\ UNCHANGED << storeVars, publisherVars, number, previous, staging, releases, recordVars >>

PCommit(q) ==
  /\ Goto(q, "commit", "tidy")
  /\ ~gone[q] /\ writer = q
  /\ revisions' = [revisions EXCEPT ![pproj[q]] = @ \cup {number[q]}]
  /\ current' = [current EXCEPT ![pproj[q]] = number[q]]
  /\ writer' = NoOne
  /\ presult' = [presult EXCEPT ![q] = "ok"]
  /\ UNCHANGED << editorVars, mutex, tree, publisherVars, number, previous, releaseVars >>

(* Mutant: the link is not restored after a failed commit.                 *)
PCommitFailsNoRelink(q) ==
  /\ Goto(q, "commit", "tidy")
  /\ gone[q]
  /\ PErr(q)
  /\ UNCHANGED << storeVars, publisherVars, number, previous, releaseVars, recordVars >>

(* tx.Commit refuses: the context is done.                                 *)
PCommitFails(q) ==
  /\ Goto(q, "commit", "relink")
  /\ gone[q]
  /\ PErr(q)
  /\ UNCHANGED << storeVars, publisherVars, number, previous, releaseVars, recordVars >>

(* restoreCurrent: back to the link that was read, or to none.             *)
Relink(q) ==
  /\ Goto(q, "relink", "tidy")
  /\ link' = [link EXCEPT ![pproj[q]] = previous[q]]
  /\ UNCHANGED << storeVars, publisherVars, presult, number, previous, staging, releases,
                  recordVars >>

(* Its errors are ignored.                                                 *)
RelinkFails(q) ==
  /\ Goto(q, "relink", "tidy")
  /\ "rename" \in Faults
  /\ link' \in { link, [link EXCEPT ![pproj[q]] = 0] }
  /\ UNCHANGED << storeVars, publisherVars, presult, number, previous, staging, releases,
                  recordVars >>

(* The deferred tx.Rollback and RemoveAll of the staging directory.        *)
Tidy(q) ==
  /\ Goto(q, "tidy", "unlock")
  /\ writer' = IF writer = q THEN NoOne ELSE writer
  /\ staging' = [staging EXCEPT ![q] = NoTree]
  /\ UNCHANGED << editorVars, mutex, tree, publisherVars, presult, number, previous, releases,
                  link, recordVars >>

(* The deferred unlock, and the response.                                  *)
PUnlock(q) ==
  /\ Goto(q, "unlock", "done")
  /\ mutex' = [mutex EXCEPT ![pproj[q]] = NoOne]
  /\ UNCHANGED << editorVars, writer, tree, publisherVars, presult, number, previous,
                  releaseVars, recordVars >>

-----------------------------------------------------------------------------
(* What happens to a publisher from outside.                               *)

PInFlight(q) == ppc[q] \notin {"idle", "done"}

PCancel(q) ==
  /\ "cancel" \in Faults /\ PInFlight(q) /\ ~gone[q]
  /\ gone' = [gone EXCEPT ![q] = TRUE]
  /\ UNCHANGED << storeVars, ppc, pproj, pop, presult, number, previous, releaseVars, recordVars >>

PAutoRollback(q) ==
  /\ gone[q] /\ writer = q
  /\ writer' = NoOne
  /\ UNCHANGED << editorVars, mutex, tree, publishVars >>

(* Staging directories, release directories and links stay as they are.    *)
SystemCrash ==
  /\ (\E r \in Editors : InFlight(r)) \/ (\E q \in Publishers : PInFlight(q))
  /\ LoseRequests
  /\ ppc' = [q \in Publishers |-> IF PInFlight(q) THEN "done" ELSE ppc[q]]
  /\ presult' = [q \in Publishers |-> IF PInFlight(q) THEN "lost" ELSE presult[q]]
  /\ UNCHANGED << publisherVars, number, previous, releaseVars, recordVars >>

-----------------------------------------------------------------------------
PHandle(q) ==
  \/ PLock(q) \/ Prepare(q) \/ SelectRevision(q) \/ PrepareFails(q)
  \/ StageCopy(q) \/ StageCopyFails(q) \/ Promote(q) \/ PromoteFails(q)
  \/ PStage(q) \/ PStageFails(q) \/ Switch(q) \/ SwitchFails(q)
  \/ PCommit(q) \/ PCommitFails(q) \/ Relink(q) \/ RelinkFails(q)
  \/ Tidy(q) \/ PUnlock(q)

SystemAnswered ==
  /\ \A r \in Editors : pc[r] = "done"
  /\ \A q \in Publishers : ppc[q] = "done"
  /\ UNCHANGED systemVars

SystemNext ==
  \/ \E r \in Editors :
       (Begin(r) \/ Handle(r) \/ Cancel(r) \/ AutoRollback(r)) /\ UNCHANGED publishVars
  \/ \E q \in Publishers : PBegin(q) \/ PHandle(q) \/ PCancel(q) \/ PAutoRollback(q)
  \/ SystemCrash
  \/ SystemAnswered

SystemFairness ==
  /\ \A r \in Editors : WF_systemVars(Handle(r) /\ UNCHANGED publishVars)
  /\ \A q \in Publishers : WF_systemVars(PHandle(q))

SystemSpec == SystemInit /\ [][SystemNext]_systemVars
FairSystemSpec == SystemSpec /\ SystemFairness

-----------------------------------------------------------------------------
(* Properties.                                                             *)

(* Every variable keeps to its range.                                      *)
PublishingTypeOK ==
  /\ TypeOK
  /\ ppc \in [Publishers -> PublishSteps]
  /\ pproj \in [Publishers -> Projects]
  /\ pop \in [Publishers -> {"publish", "rollback"}]
  /\ gone \in [Publishers -> BOOLEAN]
  /\ presult \in [Publishers -> {"none", "ok", "error", "lost"}]
  /\ number \in [Publishers -> Numbers \cup {0}]
  /\ staging \in [Publishers -> Trees \cup {NoTree}]
  /\ previous \in [Publishers -> Numbers \cup {0}]
  /\ releases \in [Projects -> [Numbers -> Trees \cup {NoTree}]]
  /\ revisions \in [Projects -> SUBSET Numbers]
  /\ current \in [Projects -> Numbers \cup {0}]
  /\ link \in [Projects -> Numbers \cup {0}]

(* If any step of a publication or of a rollback fails, the revision that  *)
(* was live before remains live: whenever nobody holds the mutex of a      *)
(* project, the link that the public handler follows names the revision    *)
(* the database calls current.                                             *)
PreviousStaysLive ==
  \A p \in Projects : mutex[p] = NoOne => link[p] = current[p]

(* Whatever fails and at every moment, the link never dangles and every    *)
(* recorded revision can be gone back to: its directory is there.          *)
NothingLiveIsMissing ==
  \A p \in Projects :
    \A n \in revisions[p] \cup {current[p], link[p]} : n # 0 => releases[p][n] # NoTree

(* A release is a copy of a committed pack: what is promoted is what the   *)
(* rows of the project say at that moment, never the half-done work of a   *)
(* mutation nor one that will be rolled back.                              *)
PromotesCommittedPack ==
  [][\A p \in Projects, n \in Numbers :
       releases[p][n] = NoTree /\ releases'[p][n] # NoTree
         => releases'[p][n] = Intact(rows[p])]_systemVars

(* A released revision is immutable, whatever fails later.                 *)
ReleasesImmutable ==
  [][\A p \in Projects, n \in Numbers :
       releases[p][n] # NoTree => releases'[p][n] = releases[p][n]]_systemVars

(* Publishing is transactional: a publication that fails leaves nothing    *)
(* behind, so that the number it would have used is free for the next one. *)
NextNumberIsFree ==
  \A p \in Projects :
    mutex[p] = NoOne /\ NextNumber(p) \in Numbers => releases[p][NextNumber(p)] = NoTree

(* Every publisher is answered, although mutations take the write lock     *)
(* before the mutex and publishers after it.                               *)
EveryPublisherAnswered ==
  \A q \in Publishers : (ppc[q] = "lock") ~> (ppc[q] = "done")
=============================================================================
