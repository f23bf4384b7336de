------------------------- MODULE ServerIntegration --------------------------
(***************************************************************************)
(* Install and revert of the server integration:                           *)
(* src/extension/app/PackwizIntegrationController.php and putServerLink of *)
(* service/internal/api/integration.go, for one server.  A request changes *)
(* four stores one after the other: files on the daemon, the saved command *)
(* and the startup command in the panel, and the link in the service.      *)
(* There is no lock.  Any call may fail, before or after it took effect,   *)
(* and the panel's worker may die between two calls.  One case has a       *)
(* constant of its own: HalfApplied, the change of the startup command to  *)
(* the wrapper that takes effect and throws all the same.                  *)
(***************************************************************************)
CONSTANTS
  Requests,      \* install and revert requests, each sent once
  Packs,
  Published,     \* the packs with a current revision and a public URL
  Commands,      \* startup commands an administrator may set
  OneLine,       \* OneLine[c]: c with its line breaks replaced by spaces
  Wrapper,       \* bash ./packwiz-start.sh
  Nothing,       \* no file, no saved command, no link
  Overlap,       \* requests may overlap
  CarefulAdmin,  \* nobody edits the command of an integrated server
  HalfApplied    \* the change to the wrapper may take effect and throw

ASSUME PacksAssumption == Published \subseteq Packs
ASSUME CommandsAssumption ==
  /\ OneLine \in [Commands -> Commands]
  /\ \A c \in Commands : OneLine[OneLine[c]] = OneLine[c]
  /\ Wrapper \notin Commands /\ Nothing \notin Commands /\ Wrapper # Nothing
ASSUME NothingAssumption == Nothing \notin [syncs : Packs, runs : Commands \cup {Wrapper}]
ASSUME ModesAssumption ==
  Overlap \in BOOLEAN /\ CarefulAdmin \in BOOLEAN /\ HalfApplied \in BOOLEAN

VARIABLES
  pc,       \* the call each request makes next
  kind,     \* "install" or "revert"
  pack,     \* the pack in its URL
  old,      \* the command it will save or restore, once it read it
  answer,
  jar,      \* the bootstrap is on the daemon
  script,   \* packwiz-start.sh: the pack it syncs and the command it runs
  startup,  \* the startup command of the server
  saved,    \* the setting startup:<uuid> of the panel
  link,     \* server_links: startup_integration_state of each pack
  wanted    \* the command the administrator set last

requestVars == << kind, pack >>
daemonVars == << jar, script >>
panelVars == << startup, saved, wanted >>
vars == << pc, requestVars, old, answer, daemonVars, panelVars, link >>

Calls == { "idle", "check", "jar", "script", "chmod", "save", "apply", "report",
           "unapply", "clean", "forget", "load", "restore", "remove", "release",
           "confirm", "done" }
Scripts == [syncs : Packs, runs : Commands \cup {Wrapper}]
LineOf(c) == IF c \in Commands THEN OneLine[c] ELSE c

Init ==
  /\ pc = [r \in Requests |-> "idle"]
  /\ kind \in [Requests -> {"install", "revert"}]
  /\ pack \in [Requests -> Packs]
  /\ old = [r \in Requests |-> Nothing]
  /\ answer = [r \in Requests |-> "none"]
  /\ jar = FALSE /\ script = Nothing
  /\ startup \in Commands /\ wanted = startup
  /\ saved = Nothing
  /\ link = [p \in Packs |-> Nothing]

-----------------------------------------------------------------------------
Go(r, from, to) == pc[r] = from /\ pc' = [pc EXCEPT ![r] = to]
Stop(r, from, what) == Go(r, from, "done") /\ answer' = [answer EXCEPT ![r] = what]
Running(r) == pc[r] \notin {"idle", "done"}

(* The route binding loads the server, its startup command included.       *)
Begin(r) ==
  /\ Overlap \/ \A q \in Requests : ~Running(q)
  /\ Go(r, "idle", IF kind[r] = "install" THEN "check" ELSE "load")
  /\ old' = [old EXCEPT ![r] = IF kind[r] = "install" THEN startup ELSE @]
  /\ UNCHANGED << requestVars, answer, daemonVars, panelVars, link >>

(* Mutant: a second installation is not refused.                           *)
CheckPlanOnly(r) ==
  /\ Go(r, "check", "jar")
  /\ pack[r] \in Published
  /\ UNCHANGED << requestVars, old, answer, daemonVars, panelVars, link >>

(* plan, the saved command, requireOffline and the download of the JAR.    *)
Check(r) ==
  /\ Go(r, "check", "jar")
  /\ pack[r] \in Published /\ saved = Nothing
  /\ UNCHANGED << requestVars, old, answer, daemonVars, panelVars, link >>

(* Any of them refuses; the server may be online, the download may fail.   *)
CheckFails(r) ==
  /\ Stop(r, "check", "error")
  /\ UNCHANGED << requestVars, old, daemonVars, panelVars, link >>

PutJar(r) ==
  /\ Go(r, "jar", "script")
  /\ jar' = TRUE
  /\ UNCHANGED << requestVars, old, answer, script, panelVars, link >>

ScriptOf(r) == [syncs |-> pack[r], runs |-> LineOf(old[r])]

PutScript(r) ==
  /\ Go(r, "script", "chmod")
  /\ script' = ScriptOf(r)
  /\ UNCHANGED << requestVars, old, answer, jar, panelVars, link >>

(* The startup command runs the script with bash: its mode is not modelled *)
Chmod(r) ==
  /\ Go(r, "chmod", "save")
  /\ UNCHANGED << requestVars, old, answer, daemonVars, panelVars, link >>

(* A call to the daemon fails, or took effect and its answer is lost;      *)
(* nothing is undone.                                                      *)
PutFails(r) ==
  /\ \/ Stop(r, "jar", "error") /\ jar' \in {jar, TRUE} /\ UNCHANGED script
     \/ Stop(r, "script", "error") /\ script' \in {script, ScriptOf(r)} /\ UNCHANGED jar
     \/ Stop(r, "chmod", "error") /\ UNCHANGED daemonVars
  /\ UNCHANGED << requestVars, old, panelVars, link >>

(* Mutant: the old command is not saved.                                   *)
SaveLater(r) ==
  /\ Go(r, "save", "apply")
  /\ UNCHANGED << requestVars, old, answer, daemonVars, panelVars, link >>

Save(r) ==
  /\ Go(r, "save", "apply")
  /\ saved' = old[r]
  /\ UNCHANGED << requestVars, old, answer, daemonVars, startup, wanted, link >>

(* It is not in the try block either: nothing is undone.                   *)
SaveFails(r) ==
  /\ Stop(r, "save", "error")
  /\ saved' \in {saved, old[r]}
  /\ UNCHANGED << requestVars, old, daemonVars, startup, wanted, link >>

Apply(r) ==
  /\ Go(r, "apply", "report")
  /\ startup' = Wrapper
  /\ UNCHANGED << requestVars, old, answer, daemonVars, saved, wanted, link >>

(* $applied is set only after the call returned: one that throws is taken  *)
(* for one that did nothing, and the old command is not put back.          *)
ApplyFails(r) ==
  /\ Go(r, "apply", "clean")
  /\ \/ UNCHANGED startup
     \/ HalfApplied /\ startup' = Wrapper
  /\ UNCHANGED << requestVars, old, answer, daemonVars, saved, wanted, link >>

(* putServerLink, an upsert of the row of this pack.                       *)
PutLink(r, state) == link' = [link EXCEPT ![pack[r]] = state]

Report(r) ==
  /\ Stop(r, "report", "ok")
  /\ PutLink(r, "applied")
  /\ UNCHANGED << requestVars, old, daemonVars, panelVars >>

ReportFails(r) ==
  /\ Go(r, "report", "unapply")
  /\ UNCHANGED link \/ PutLink(r, "applied")
  /\ UNCHANGED << requestVars, old, answer, daemonVars, panelVars >>

(* The handler of install: the old command, the files, the saved command.  *)
Unapply(r) ==
  /\ Go(r, "unapply", "clean")
  /\ startup' = old[r]
  /\ UNCHANGED << requestVars, old, answer, daemonVars, saved, wanted, link >>

Deleted == jar' = FALSE /\ script' = Nothing

Clean(r) ==
  /\ Go(r, "clean", "forget")
  /\ Deleted
  /\ UNCHANGED << requestVars, old, answer, panelVars, link >>

Forget(r) ==
  /\ Stop(r, "forget", "error")
  /\ saved' = Nothing
  /\ UNCHANGED << requestVars, old, daemonVars, startup, wanted, link >>

(* The handler itself throws and goes no further.                          *)
HandlerFails(r) ==
  /\ \/ /\ Stop(r, "unapply", "error")
        /\ startup' \in {startup, old[r]}
        /\ UNCHANGED << daemonVars, saved >>
     \/ /\ Stop(r, "clean", "error")
        /\ jar' \in {jar, FALSE} /\ script' \in {script, Nothing}
        /\ UNCHANGED << startup, saved >>
     \/ /\ Stop(r, "forget", "error")
        /\ saved' \in {saved, Nothing}
        /\ UNCHANGED << daemonVars, startup >>
  /\ UNCHANGED << requestVars, old, wanted, link >>

-----------------------------------------------------------------------------
(* revert.                                                                 *)

(* The saved command and requireOffline.                                   *)
Load(r) ==
  /\ Go(r, "load", "restore")
  /\ saved # Nothing
  /\ old' = [old EXCEPT ![r] = saved]
  /\ UNCHANGED << requestVars, answer, daemonVars, panelVars, link >>

LoadFails(r) ==
  /\ Stop(r, "load", "error")
  /\ UNCHANGED << requestVars, old, daemonVars, panelVars, link >>

(* Mutant: the files go before the command.                                *)
RestoreAfterRemove(r) ==
  /\ Go(r, "restore", "remove")
  /\ Deleted
  /\ UNCHANGED << requestVars, old, answer, panelVars, link >>

Restore(r) ==
  /\ Go(r, "restore", "remove")
  /\ startup' = old[r]
  /\ UNCHANGED << requestVars, old, answer, daemonVars, saved, wanted, link >>

Remove(r) ==
  /\ Go(r, "remove", "release")
  /\ Deleted
  /\ UNCHANGED << requestVars, old, answer, panelVars, link >>

Release(r) ==
  /\ Go(r, "release", "confirm")
  /\ saved' = Nothing
  /\ UNCHANGED << requestVars, old, answer, daemonVars, startup, wanted, link >>

(* Mutant: revert reports the state of an installation.                    *)
ConfirmAbsent(r) ==
  /\ Stop(r, "confirm", "ok")
  /\ PutLink(r, "absent")
  /\ UNCHANGED << requestVars, old, daemonVars, panelVars >>

Confirm(r) ==
  /\ Stop(r, "confirm", "ok")
  /\ PutLink(r, "reverted")
  /\ UNCHANGED << requestVars, old, daemonVars, panelVars >>

(* Any of them throws, before or after it took effect; nothing is undone.  *)
RevertFails(r) ==
  /\ \/ /\ Stop(r, "restore", "error")
        /\ startup' \in {startup, old[r]}
        /\ UNCHANGED << daemonVars, saved, link >>
     \/ /\ Stop(r, "remove", "error")
        /\ jar' \in {jar, FALSE} /\ script' \in {script, Nothing}
        /\ UNCHANGED << startup, saved, link >>
     \/ /\ Stop(r, "release", "error")
        /\ saved' \in {saved, Nothing}
        /\ UNCHANGED << daemonVars, startup, link >>
     \/ /\ Stop(r, "confirm", "error")
        /\ UNCHANGED link \/ PutLink(r, "reverted")
        /\ UNCHANGED << daemonVars, startup, saved >>
  /\ UNCHANGED << requestVars, old, wanted >>

-----------------------------------------------------------------------------
(* The panel's worker dies between two calls.                              *)
WorkerDies(r) ==
  /\ Running(r)
  /\ Stop(r, pc[r], "lost")
  /\ UNCHANGED << requestVars, old, daemonVars, panelVars, link >>

(* The startup page of the panel, outside this extension.                  *)
AdminEdit(c) ==
  /\ CarefulAdmin => saved = Nothing /\ \A r \in Requests : ~Running(r)
  /\ c # startup
  /\ startup' = c /\ wanted' = c
  /\ UNCHANGED << pc, requestVars, old, answer, daemonVars, saved, link >>

Install(r) ==
  \/ Check(r) \/ CheckFails(r) \/ PutJar(r) \/ PutScript(r) \/ Chmod(r) \/ PutFails(r)
  \/ Save(r) \/ SaveFails(r) \/ Apply(r) \/ ApplyFails(r) \/ Report(r) \/ ReportFails(r)
  \/ Unapply(r) \/ Clean(r) \/ Forget(r) \/ HandlerFails(r)

Revert(r) ==
  \/ Load(r) \/ LoadFails(r) \/ Restore(r) \/ Remove(r) \/ Release(r) \/ Confirm(r)
  \/ RevertFails(r)

Served == (\A r \in Requests : pc[r] = "done") /\ UNCHANGED vars

Next ==
  \/ \E r \in Requests : Begin(r) \/ Install(r) \/ Revert(r) \/ WorkerDies(r)
  \/ \E c \in Commands : AdminEdit(c)
  \/ Served

Spec == Init /\ [][Next]_vars

-----------------------------------------------------------------------------
(* Properties.                                                             *)

(* Every variable keeps to its range.                                      *)
IntegrationTypeOK ==
  /\ pc \in [Requests -> Calls]
  /\ kind \in [Requests -> {"install", "revert"}]
  /\ pack \in [Requests -> Packs]
  /\ old \in [Requests -> Commands \cup {Wrapper, Nothing}]
  /\ answer \in [Requests -> {"none", "ok", "error", "lost"}]
  /\ jar \in BOOLEAN
  /\ script \in Scripts \cup {Nothing}
  /\ startup \in Commands \cup {Wrapper}
  /\ saved \in Commands \cup {Wrapper, Nothing}
  /\ link \in [Packs -> {Nothing, "applied", "reverted"}]
  /\ wanted \in Commands

(* Whenever the server is started, in the middle of a request, after a     *)
(* failed one or after the worker died: if its command is the wrapper, the *)
(* wrapper and the bootstrap are there, it syncs a published pack, and it  *)
(* goes on with the command the administrator set, never with itself.      *)
(* Without Overlap and HalfApplied, and with CarefulAdmin.                 *)
StartFindsScript ==
  startup = Wrapper =>
    /\ jar /\ script # Nothing
    /\ script.syncs \in Published
    /\ script.runs = OneLine[wanted]

(* An exact revert stays possible: the command the administrator set last  *)
(* is in use, or saved, whatever failed so far.  With Overlap, or with     *)
(* HalfApplied, the code does not keep it.                                 *)
OldCommandKept ==
  \/ startup = wanted
  \/ startup = Wrapper /\ saved = wanted

(* The files of a server that starts with the wrapper do not change:       *)
(* install refuses what is installed, and every clean-up first takes the   *)
(* wrapper out of the startup command (without Overlap and HalfApplied,    *)
(* and with CarefulAdmin).                                                 *)
InstalledFilesStay ==
  [][startup = Wrapper /\ startup' = Wrapper => UNCHANGED daemonVars]_vars
=============================================================================
