---------------------- MODULE ServerIntegrationProofs -----------------------
(***************************************************************************)
(* Proofs about ServerIntegration, for any number of requests and packs:   *)
(* when requests do not overlap, the administrator leaves the command of   *)
(* an integrated server alone, and a change to the wrapper that throws did *)
(* not take effect, then no failure of any other call, before or after it  *)
(* took effect, and no death of the worker breaks the server or its way    *)
(* back.  The runs integration_overlap and integration_torn show that the  *)
(* first and the last of the three conditions are needed.                  *)
(***************************************************************************)
EXTENDS ServerIntegration, TLAPS

(* What holds between calls, whoever is running.                           *)
Sound ==
  /\ startup \in {wanted, Wrapper}
  /\ saved \in {Nothing, wanted}
  /\ startup = Wrapper => saved = wanted
  /\ StartFindsScript

(* At most one request runs.                                               *)
OneAtATime == \A q, r \in Requests : Running(q) /\ Running(r) => q = r

(* What the calls of r so far have established.                            *)
Progress(r) ==
  /\ pc[r] = "check" => old[r] = startup
  /\ pc[r] \in {"jar", "script", "chmod", "save"} =>
       startup = wanted /\ old[r] = wanted /\ saved = Nothing
  /\ pc[r] \in {"jar", "script", "chmod", "save", "apply"} => pack[r] \in Published
  /\ pc[r] \in {"script", "chmod", "save", "apply"} => jar
  /\ pc[r] \in {"chmod", "save", "apply"} => script = ScriptOf(r)
  /\ pc[r] = "apply" => startup = wanted /\ saved = wanted
  /\ pc[r] \in {"apply", "report", "unapply", "restore"} => old[r] = wanted
  /\ pc[r] \in {"clean", "forget", "remove", "release", "confirm"} => startup = wanted

IInv == IntegrationTypeOK /\ OneAtATime /\ Sound /\ \A r \in Requests : Progress(r)

(* The conditions under which the code keeps its promises.                 *)
Modes == ~Overlap /\ CarefulAdmin /\ ~HalfApplied

-----------------------------------------------------------------------------
LEMMA InitIInv == Init => IInv
  BY PacksAssumption, CommandsAssumption
     DEF Init, IInv, IntegrationTypeOK, Calls, OneAtATime, Running, Sound,
         StartFindsScript, Progress

(* A step of r that leaves the others where they are keeps their progress: *)
(* they do not run.                                                        *)
LEMMA OthersRest ==
  ASSUME IInv, NEW r \in Requests, Running(r), NEW step \in Calls,
         pc' = [pc EXCEPT ![r] = step]
  PROVE  /\ OneAtATime'
         /\ pc'[r] = step
         /\ \A q \in Requests \ {r} : Progress(q)'
  <1>1. \A q \in Requests \ {r} : ~Running(q) /\ pc'[q] = pc[q]
    BY DEF IInv, OneAtATime, IntegrationTypeOK
  <1>2. pc'[r] = step
    BY DEF IInv, IntegrationTypeOK
  <1>3. OneAtATime'
    BY <1>1 DEF OneAtATime, Running
  <1>4. \A q \in Requests \ {r} : Progress(q)'
    BY <1>1 DEF Progress, Running
  <1> QED BY <1>2, <1>3, <1>4
(* While the server starts with the wrapper its files stay.                *)
FilesStay == startup = Wrapper /\ startup' = Wrapper => UNCHANGED daemonVars

(* The steps that r takes while it runs end in a call, and keep the rest.  *)
LEMMA RunningStep ==
  ASSUME IInv, NEW r \in Requests, Running(r), NEW step \in Calls,
         pc' = [pc EXCEPT ![r] = step],
         IntegrationTypeOK', Sound', Progress(r)'
  PROVE  IInv'
  BY OthersRest DEF IInv

(* What PutScript writes.                                                  *)
LEMMA ScriptTyped ==
  ASSUME IInv, NEW r \in Requests, pc[r] \in {"script", "chmod", "save", "apply"}
  PROVE  /\ ScriptOf(r) \in Scripts
         /\ ScriptOf(r).syncs \in Published
         /\ ScriptOf(r).runs = OneLine[wanted]
  <1>1. wanted \in Commands /\ OneLine[wanted] \in Commands /\ wanted # Nothing
    BY CommandsAssumption DEF IInv, IntegrationTypeOK
  <1>2. pack[r] \in Published /\ pack[r] \in Packs
    BY PacksAssumption DEF IInv, Progress
  <1>3. old[r] = wanted
    BY DEF IInv, Progress
  <1> QED BY <1>1, <1>2, <1>3 DEF ScriptOf, LineOf, Scripts

LEMMA InstallStep ==
  ASSUME IInv, Modes, NEW r \in Requests, Install(r)
  PROVE  IInv' /\ FilesStay
  <1>1. CASE Check(r)
    <2>1. Running(r) /\ \E step \in Calls : pc' = [pc EXCEPT ![r] = step]
      BY <1>1 DEF Check, Go, Stop, Running, Calls
    <2>2. IntegrationTypeOK' /\ Sound' /\ Progress(r)' /\ FilesStay
      BY <1>1, CommandsAssumption, PacksAssumption
         DEF IInv, IntegrationTypeOK, Calls, Sound, StartFindsScript, Progress, Go, Stop,
             Running, FilesStay, requestVars, daemonVars, panelVars, Check
    <2> QED BY <2>1, <2>2, RunningStep
  <1>2. CASE CheckFails(r)
    <2>1. Running(r) /\ \E step \in Calls : pc' = [pc EXCEPT ![r] = step]
      BY <1>2 DEF CheckFails, Go, Stop, Running, Calls
    <2>2. IntegrationTypeOK' /\ Sound' /\ Progress(r)' /\ FilesStay
      BY <1>2, CommandsAssumption, PacksAssumption
         DEF IInv, IntegrationTypeOK, Calls, Sound, StartFindsScript, Progress, Go, Stop,
             Running, FilesStay, requestVars, daemonVars, panelVars, CheckFails
    <2> QED BY <2>1, <2>2, RunningStep
  <1>3. CASE PutJar(r)
    <2>1. Running(r) /\ \E step \in Calls : pc' = [pc EXCEPT ![r] = step]
      BY <1>3 DEF PutJar, Go, Stop, Running, Calls
    <2>2. IntegrationTypeOK' /\ Sound' /\ Progress(r)' /\ FilesStay
      BY <1>3, CommandsAssumption, PacksAssumption
         DEF IInv, IntegrationTypeOK, Calls, Sound, StartFindsScript, Progress, Go, Stop,
             Running, FilesStay, requestVars, daemonVars, panelVars, PutJar
    <2> QED BY <2>1, <2>2, RunningStep
  <1>4. CASE PutScript(r)
    <2>1. Running(r) /\ \E step \in Calls : pc' = [pc EXCEPT ![r] = step]
      BY <1>4 DEF PutScript, Go, Stop, Running, Calls
    <2>2. IntegrationTypeOK' /\ Sound' /\ Progress(r)' /\ FilesStay
      BY <1>4, CommandsAssumption, PacksAssumption
         DEF IInv, IntegrationTypeOK, Calls, Sound, StartFindsScript, Progress, Go, Stop,
             Running, FilesStay, requestVars, daemonVars, panelVars, PutScript, ScriptOf, LineOf, Scripts
    <2> QED BY <2>1, <2>2, RunningStep
  <1>5. CASE Chmod(r)
    <2>1. Running(r) /\ \E step \in Calls : pc' = [pc EXCEPT ![r] = step]
      BY <1>5 DEF Chmod, Go, Stop, Running, Calls
    <2>2. IntegrationTypeOK' /\ Sound' /\ Progress(r)' /\ FilesStay
      BY <1>5, CommandsAssumption, PacksAssumption
         DEF IInv, IntegrationTypeOK, Calls, Sound, StartFindsScript, Progress, Go, Stop,
             Running, FilesStay, requestVars, daemonVars, panelVars, Chmod, ScriptOf, LineOf
    <2> QED BY <2>1, <2>2, RunningStep
  <1>6. CASE PutFails(r)
    <2>1. Running(r) /\ \E step \in Calls : pc' = [pc EXCEPT ![r] = step]
      BY <1>6 DEF PutFails, Go, Stop, Running, Calls
    <2>2. IntegrationTypeOK'
      BY <1>6, CommandsAssumption, PacksAssumption, ScriptTyped
         DEF IInv, IntegrationTypeOK, Calls, Sound, StartFindsScript, Progress, Go, Stop,
             Running, FilesStay, requestVars, daemonVars, panelVars, PutFails
    <2>3. Sound'
      BY <1>6, CommandsAssumption, PacksAssumption, ScriptTyped
         DEF IInv, IntegrationTypeOK, Calls, Sound, StartFindsScript, Progress, Go, Stop,
             Running, FilesStay, requestVars, daemonVars, panelVars, PutFails
    <2>4. Progress(r)'
      BY <1>6, CommandsAssumption, PacksAssumption, ScriptTyped
         DEF IInv, IntegrationTypeOK, Calls, Sound, StartFindsScript, Progress, Go, Stop,
             Running, FilesStay, requestVars, daemonVars, panelVars, PutFails, ScriptOf, LineOf, Scripts
    <2>5. FilesStay
      BY <1>6, CommandsAssumption, PacksAssumption, ScriptTyped
         DEF IInv, IntegrationTypeOK, Calls, Sound, StartFindsScript, Progress, Go, Stop,
             Running, FilesStay, requestVars, daemonVars, panelVars, PutFails
    <2> QED BY <2>1, <2>2, <2>3, <2>4, <2>5, RunningStep
  <1>7. CASE Save(r)
    <2>1. Running(r) /\ \E step \in Calls : pc' = [pc EXCEPT ![r] = step]
      BY <1>7 DEF Save, Go, Stop, Running, Calls
    <2>2. IntegrationTypeOK'
      BY <1>7, CommandsAssumption, PacksAssumption
         DEF IInv, IntegrationTypeOK, Calls, Sound, StartFindsScript, Progress, Go, Stop,
             Running, FilesStay, requestVars, daemonVars, panelVars, Save, ScriptOf, LineOf
    <2>3. Sound'
      BY <1>7, CommandsAssumption, PacksAssumption
         DEF IInv, IntegrationTypeOK, Calls, Sound, StartFindsScript, Progress, Go, Stop,
             Running, FilesStay, requestVars, daemonVars, panelVars, Save, ScriptOf, LineOf
    <2>4. Progress(r)'
      BY <1>7, CommandsAssumption, PacksAssumption
         DEF IInv, IntegrationTypeOK, Calls, Sound, StartFindsScript, Progress, Go, Stop,
             Running, FilesStay, requestVars, daemonVars, panelVars, Save, ScriptOf, LineOf
    <2>5. FilesStay
      BY <1>7, CommandsAssumption, PacksAssumption
         DEF IInv, IntegrationTypeOK, Calls, Sound, StartFindsScript, Progress, Go, Stop,
             Running, FilesStay, requestVars, daemonVars, panelVars, Save, ScriptOf, LineOf
    <2> QED BY <2>1, <2>2, <2>3, <2>4, <2>5, RunningStep
  <1>8. CASE Apply(r)
    <2>1. Running(r) /\ \E step \in Calls : pc' = [pc EXCEPT ![r] = step]
      BY <1>8 DEF Apply, Go, Stop, Running, Calls
    <2>2. /\ pc[r] = "apply" /\ pc' = [pc EXCEPT ![r] = "report"]
          /\ startup = wanted /\ saved = wanted /\ old[r] = wanted
          /\ jar /\ script = ScriptOf(r)
      BY <1>8 DEF Apply, IInv, Progress, Go
    <2>3. wanted # Wrapper /\ ScriptOf(r) # Nothing
      BY <2>2, ScriptTyped, CommandsAssumption, NothingAssumption
         DEF IInv, IntegrationTypeOK, Scripts
    <2>4. /\ startup' = Wrapper
          /\ UNCHANGED << requestVars, old, answer, jar, script, saved, wanted, link >>
      BY <1>8 DEF Apply, daemonVars
    <2>5. IntegrationTypeOK'
      BY <2>2, <2>4 DEF IInv, IntegrationTypeOK, Calls, requestVars
    <2>6. Sound'
      BY <2>2, <2>3, <2>4, ScriptTyped DEF IInv, Sound, StartFindsScript
    <2>7. Progress(r)'
      BY <2>2, <2>4 DEF IInv, IntegrationTypeOK, Progress
    <2>8. FilesStay
      BY <2>4 DEF FilesStay, daemonVars
    <2> QED BY <2>1, <2>5, <2>6, <2>7, <2>8, RunningStep
  <1>9. CASE ApplyFails(r)
    <2>1. Running(r) /\ \E step \in Calls : pc' = [pc EXCEPT ![r] = step]
      BY <1>9 DEF ApplyFails, Go, Stop, Running, Calls
    <2>2. UNCHANGED startup
      BY <1>9 DEF ApplyFails, Modes
    <2>3. IntegrationTypeOK' /\ Sound' /\ Progress(r)' /\ FilesStay
      BY <1>9, <2>2, CommandsAssumption, PacksAssumption
         DEF IInv, IntegrationTypeOK, Calls, Sound, StartFindsScript, Progress, Go, Stop,
             Running, FilesStay, requestVars, daemonVars, ApplyFails
    <2> QED BY <2>1, <2>3, RunningStep
  <1>10. CASE Report(r)
    <2>1. Running(r) /\ \E step \in Calls : pc' = [pc EXCEPT ![r] = step]
      BY <1>10 DEF Report, Go, Stop, Running, Calls
    <2>2. IntegrationTypeOK' /\ Sound' /\ Progress(r)' /\ FilesStay
      BY <1>10, CommandsAssumption, PacksAssumption
         DEF IInv, IntegrationTypeOK, Calls, Sound, StartFindsScript, Progress, Go, Stop,
             Running, FilesStay, requestVars, daemonVars, panelVars, Report, PutLink
    <2> QED BY <2>1, <2>2, RunningStep
  <1>11. CASE ReportFails(r)
    <2>1. Running(r) /\ \E step \in Calls : pc' = [pc EXCEPT ![r] = step]
      BY <1>11 DEF ReportFails, Go, Stop, Running, Calls
    <2>2. IntegrationTypeOK' /\ Sound' /\ Progress(r)' /\ FilesStay
      BY <1>11, CommandsAssumption, PacksAssumption
         DEF IInv, IntegrationTypeOK, Calls, Sound, StartFindsScript, Progress, Go, Stop,
             Running, FilesStay, requestVars, daemonVars, panelVars, ReportFails, PutLink
    <2> QED BY <2>1, <2>2, RunningStep
  <1>12. CASE Unapply(r)
    <2>1. Running(r) /\ \E step \in Calls : pc' = [pc EXCEPT ![r] = step]
      BY <1>12 DEF Unapply, Go, Stop, Running, Calls
    <2>2. IntegrationTypeOK' /\ Sound' /\ Progress(r)' /\ FilesStay
      BY <1>12, CommandsAssumption, PacksAssumption
         DEF IInv, IntegrationTypeOK, Calls, Sound, StartFindsScript, Progress, Go, Stop,
             Running, FilesStay, requestVars, daemonVars, panelVars, Unapply
    <2> QED BY <2>1, <2>2, RunningStep
  <1>13. CASE Clean(r)
    <2>1. Running(r) /\ \E step \in Calls : pc' = [pc EXCEPT ![r] = step]
      BY <1>13 DEF Clean, Go, Stop, Running, Calls
    <2>2. IntegrationTypeOK' /\ Sound' /\ Progress(r)' /\ FilesStay
      BY <1>13, CommandsAssumption, PacksAssumption
         DEF IInv, IntegrationTypeOK, Calls, Sound, StartFindsScript, Progress, Go, Stop,
             Running, FilesStay, requestVars, daemonVars, panelVars, Clean, Deleted
    <2> QED BY <2>1, <2>2, RunningStep
  <1>14. CASE Forget(r)
    <2>1. Running(r) /\ \E step \in Calls : pc' = [pc EXCEPT ![r] = step]
      BY <1>14 DEF Forget, Go, Stop, Running, Calls
    <2>2. IntegrationTypeOK' /\ Sound' /\ Progress(r)' /\ FilesStay
      BY <1>14, CommandsAssumption, PacksAssumption
         DEF IInv, IntegrationTypeOK, Calls, Sound, StartFindsScript, Progress, Go, Stop,
             Running, FilesStay, requestVars, daemonVars, panelVars, Forget
    <2> QED BY <2>1, <2>2, RunningStep
  <1>15. CASE HandlerFails(r)
    <2>1. Running(r) /\ \E step \in Calls : pc' = [pc EXCEPT ![r] = step]
      BY <1>15 DEF HandlerFails, Go, Stop, Running, Calls
    <2>2. /\ UNCHANGED << requestVars, old, wanted, link >>
          /\ wanted \in Commands /\ wanted # Wrapper
          /\ pc' = [pc EXCEPT ![r] = "done"] /\ answer' = [answer EXCEPT ![r] = "error"]
      BY <1>15, CommandsAssumption DEF HandlerFails, Stop, Go, IInv, IntegrationTypeOK
    <2>3. \/ /\ old[r] = wanted /\ startup' \in {startup, wanted}
             /\ UNCHANGED << daemonVars, saved >>
          \/ /\ startup = wanted
             /\ jar' \in {jar, FALSE} /\ script' \in {script, Nothing}
             /\ UNCHANGED << startup, saved >>
          \/ /\ startup = wanted /\ saved' \in {saved, Nothing}
             /\ UNCHANGED << daemonVars, startup >>
      BY <1>15 DEF HandlerFails, IInv, Progress, Go, Stop
    <2>4. IntegrationTypeOK'
      BY <2>2, <2>3 DEF IInv, IntegrationTypeOK, Calls, requestVars, daemonVars
    <2>5. Sound'
      <3>1. startup' = wanted' => Sound'
        BY <2>2, <2>3 DEF IInv, Sound, StartFindsScript
      <3>2. startup' # wanted' => UNCHANGED << jar, script, startup, saved, wanted >>
        BY <2>2, <2>3 DEF daemonVars
      <3> QED BY <3>1, <3>2 DEF IInv, Sound, StartFindsScript
    <2>6. Progress(r)'
      BY <2>2 DEF IInv, IntegrationTypeOK, Progress
    <2>7. FilesStay
      BY <2>2, <2>3 DEF FilesStay
    <2> QED BY <2>1, <2>4, <2>5, <2>6, <2>7, RunningStep
  <1>16. CASE SaveFails(r)
    <2>1. Running(r) /\ \E step \in Calls : pc' = [pc EXCEPT ![r] = step]
      BY <1>16 DEF SaveFails, Go, Stop, Running, Calls
    <2>2. /\ UNCHANGED << requestVars, old, daemonVars, startup, wanted, link >>
          /\ pc' = [pc EXCEPT ![r] = "done"] /\ answer' = [answer EXCEPT ![r] = "error"]
      BY <1>16 DEF SaveFails, Stop, Go
    <2>3. wanted \in Commands /\ startup = wanted /\ wanted # Wrapper /\ saved' \in {saved, wanted}
      BY <1>16, CommandsAssumption DEF SaveFails, Stop, Go, IInv, IntegrationTypeOK, Progress
    <2>4. IntegrationTypeOK'
      BY <2>2, <2>3 DEF IInv, IntegrationTypeOK, Calls, requestVars, daemonVars
    <2>5. Sound' /\ FilesStay
      BY <2>2, <2>3 DEF IInv, Sound, StartFindsScript, FilesStay, daemonVars
    <2>6. Progress(r)'
      BY <2>2 DEF IInv, IntegrationTypeOK, Progress
    <2> QED BY <2>1, <2>4, <2>5, <2>6, RunningStep
  <1> QED BY <1>1, <1>2, <1>3, <1>4, <1>5, <1>6, <1>7, <1>8, <1>9, <1>10, <1>11, <1>12, <1>13, <1>14, <1>15, <1>16 DEF Install

LEMMA RevertStep ==
  ASSUME IInv, NEW r \in Requests, Revert(r)
  PROVE  IInv' /\ FilesStay
  <1>1. CASE Load(r)
    <2>1. Running(r) /\ \E step \in Calls : pc' = [pc EXCEPT ![r] = step]
      BY <1>1 DEF Load, Go, Stop, Running, Calls
    <2>2. IntegrationTypeOK' /\ Sound' /\ Progress(r)' /\ FilesStay
      BY <1>1, CommandsAssumption, PacksAssumption
         DEF IInv, IntegrationTypeOK, Calls, Sound, StartFindsScript, Progress, Go, Stop,
             Running, FilesStay, requestVars, daemonVars, panelVars, Load
    <2> QED BY <2>1, <2>2, RunningStep
  <1>2. CASE LoadFails(r)
    <2>1. Running(r) /\ \E step \in Calls : pc' = [pc EXCEPT ![r] = step]
      BY <1>2 DEF LoadFails, Go, Stop, Running, Calls
    <2>2. IntegrationTypeOK' /\ Sound' /\ Progress(r)' /\ FilesStay
      BY <1>2, CommandsAssumption, PacksAssumption
         DEF IInv, IntegrationTypeOK, Calls, Sound, StartFindsScript, Progress, Go, Stop,
             Running, FilesStay, requestVars, daemonVars, panelVars, LoadFails
    <2> QED BY <2>1, <2>2, RunningStep
  <1>3. CASE Restore(r)
    <2>1. Running(r) /\ \E step \in Calls : pc' = [pc EXCEPT ![r] = step]
      BY <1>3 DEF Restore, Go, Stop, Running, Calls
    <2>2. IntegrationTypeOK' /\ Sound' /\ Progress(r)' /\ FilesStay
      BY <1>3, CommandsAssumption, PacksAssumption
         DEF IInv, IntegrationTypeOK, Calls, Sound, StartFindsScript, Progress, Go, Stop,
             Running, FilesStay, requestVars, daemonVars, panelVars, Restore
    <2> QED BY <2>1, <2>2, RunningStep
  <1>4. CASE Remove(r)
    <2>1. Running(r) /\ \E step \in Calls : pc' = [pc EXCEPT ![r] = step]
      BY <1>4 DEF Remove, Go, Stop, Running, Calls
    <2>2. IntegrationTypeOK' /\ Sound' /\ Progress(r)' /\ FilesStay
      BY <1>4, CommandsAssumption, PacksAssumption
         DEF IInv, IntegrationTypeOK, Calls, Sound, StartFindsScript, Progress, Go, Stop,
             Running, FilesStay, requestVars, daemonVars, panelVars, Remove, Deleted
    <2> QED BY <2>1, <2>2, RunningStep
  <1>5. CASE Release(r)
    <2>1. Running(r) /\ \E step \in Calls : pc' = [pc EXCEPT ![r] = step]
      BY <1>5 DEF Release, Go, Stop, Running, Calls
    <2>2. IntegrationTypeOK' /\ Sound' /\ Progress(r)' /\ FilesStay
      BY <1>5, CommandsAssumption, PacksAssumption
         DEF IInv, IntegrationTypeOK, Calls, Sound, StartFindsScript, Progress, Go, Stop,
             Running, FilesStay, requestVars, daemonVars, panelVars, Release
    <2> QED BY <2>1, <2>2, RunningStep
  <1>6. CASE Confirm(r)
    <2>1. Running(r) /\ \E step \in Calls : pc' = [pc EXCEPT ![r] = step]
      BY <1>6 DEF Confirm, Go, Stop, Running, Calls
    <2>2. IntegrationTypeOK' /\ Sound' /\ Progress(r)' /\ FilesStay
      BY <1>6, CommandsAssumption, PacksAssumption
         DEF IInv, IntegrationTypeOK, Calls, Sound, StartFindsScript, Progress, Go, Stop,
             Running, FilesStay, requestVars, daemonVars, panelVars, Confirm, PutLink
    <2> QED BY <2>1, <2>2, RunningStep
  <1>7. CASE RevertFails(r)
    <2>1. Running(r) /\ \E step \in Calls : pc' = [pc EXCEPT ![r] = step]
      BY <1>7 DEF RevertFails, Go, Stop, Running, Calls
    <2>2. /\ UNCHANGED << requestVars, old, wanted >>
          /\ link' \in {link, [link EXCEPT ![pack[r]] = "reverted"]}
          /\ wanted \in Commands /\ wanted # Wrapper
          /\ pc' = [pc EXCEPT ![r] = "done"] /\ answer' = [answer EXCEPT ![r] = "error"]
      BY <1>7, CommandsAssumption DEF RevertFails, PutLink, Stop, Go, IInv, IntegrationTypeOK
    <2>3. \/ /\ old[r] = wanted /\ startup' \in {startup, wanted}
             /\ UNCHANGED << daemonVars, saved >>
          \/ /\ startup = wanted
             /\ jar' \in {jar, FALSE} /\ script' \in {script, Nothing}
             /\ UNCHANGED << startup, saved >>
          \/ /\ startup = wanted /\ saved' \in {saved, Nothing}
             /\ UNCHANGED << daemonVars, startup >>
      BY <1>7 DEF RevertFails, IInv, Progress, Go, Stop
    <2>4. IntegrationTypeOK'
      BY <2>2, <2>3 DEF IInv, IntegrationTypeOK, Calls, requestVars, daemonVars
    <2>5. Sound'
      <3>1. startup' = wanted' => Sound'
        BY <2>2, <2>3 DEF IInv, Sound, StartFindsScript
      <3>2. startup' # wanted' => UNCHANGED << jar, script, startup, saved, wanted >>
        BY <2>2, <2>3 DEF daemonVars
      <3> QED BY <3>1, <3>2 DEF IInv, Sound, StartFindsScript
    <2>6. Progress(r)'
      BY <2>2 DEF IInv, IntegrationTypeOK, Progress
    <2>7. FilesStay
      BY <2>2, <2>3 DEF FilesStay
    <2> QED BY <2>1, <2>4, <2>5, <2>6, <2>7, RunningStep
  <1> QED BY <1>1, <1>2, <1>3, <1>4, <1>5, <1>6, <1>7 DEF Revert

-----------------------------------------------------------------------------
(* Begin, when nobody runs.                                                *)
LEMMA BeginStep ==
  ASSUME IInv, Modes, NEW r \in Requests, Begin(r)
  PROVE  IInv' /\ FilesStay
  <1>1. \A q \in Requests : ~Running(q)
    BY DEF Begin, Modes
  <1>2. /\ pc[r] = "idle"
        /\ pc' = [pc EXCEPT ![r] = IF kind[r] = "install" THEN "check" ELSE "load"]
        /\ old' = [old EXCEPT ![r] = IF kind[r] = "install" THEN startup ELSE @]
        /\ UNCHANGED << kind, pack, answer, jar, script, startup, saved, wanted, link >>
    BY DEF Begin, Go, requestVars, daemonVars, panelVars
  <1>3. IntegrationTypeOK'
    BY <1>2 DEF IInv, IntegrationTypeOK, Calls
  <1>4. OneAtATime'
    BY <1>1, <1>2 DEF IInv, IntegrationTypeOK, OneAtATime, Running
  <1>5. Sound' /\ FilesStay
    BY <1>2 DEF IInv, Sound, StartFindsScript, FilesStay, daemonVars
  <1>6. ASSUME NEW q \in Requests PROVE Progress(q)'
    BY <1>1, <1>2 DEF IInv, IntegrationTypeOK, Progress, Running
  <1> QED BY <1>3, <1>4, <1>5, <1>6 DEF IInv

LEMMA WorkerDiesStep ==
  ASSUME IInv, NEW r \in Requests, WorkerDies(r)
  PROVE  IInv' /\ FilesStay
  <1>1. Running(r) /\ \E step \in Calls : pc' = [pc EXCEPT ![r] = step]
    BY DEF WorkerDies, Stop, Go, Calls
  <1>2. /\ pc' = [pc EXCEPT ![r] = "done"]
        /\ answer' = [answer EXCEPT ![r] = "lost"]
        /\ UNCHANGED << kind, pack, old, jar, script, startup, saved, wanted, link >>
    BY DEF WorkerDies, Stop, Go, requestVars, daemonVars, panelVars
  <1>3. IntegrationTypeOK'
    BY <1>2 DEF IInv, IntegrationTypeOK, Calls
  <1>4. Sound' /\ Progress(r)' /\ FilesStay
    BY <1>2 DEF IInv, IntegrationTypeOK, Sound, StartFindsScript, Progress, FilesStay, daemonVars
  <1> QED BY <1>1, <1>3, <1>4, RunningStep

(* A careful administrator edits what is not integrated.                   *)
LEMMA AdminEditStep ==
  ASSUME IInv, Modes, NEW c \in Commands, AdminEdit(c)
  PROVE  IInv' /\ FilesStay
  <1>1. saved = Nothing /\ \A q \in Requests : ~Running(q)
    BY DEF AdminEdit, Modes
  <1>2. /\ startup' = c /\ wanted' = c
        /\ UNCHANGED << pc, kind, pack, old, answer, jar, script, saved, link >>
    BY DEF AdminEdit, requestVars, daemonVars
  <1>3. IntegrationTypeOK' /\ OneAtATime'
    BY <1>2 DEF IInv, IntegrationTypeOK, OneAtATime, Running
  <1>4. Sound' /\ FilesStay
    BY <1>1, <1>2, CommandsAssumption DEF IInv, Sound, StartFindsScript, FilesStay, daemonVars
  <1>5. ASSUME NEW q \in Requests PROVE Progress(q)'
    BY <1>1, <1>2 DEF IInv, Progress, Running
  <1> QED BY <1>3, <1>4, <1>5 DEF IInv

LEMMA NextStep ==
  ASSUME IInv, Modes, [Next]_vars
  PROVE  IInv' /\ FilesStay
  <1>1. CASE UNCHANGED vars
    BY <1>1 DEF vars, requestVars, daemonVars, panelVars, IInv, IntegrationTypeOK, OneAtATime,
                Running, Sound, StartFindsScript, Progress, ScriptOf, LineOf, FilesStay
  <1>2. CASE Next
    <2>1. CASE Served
      BY <1>1, <2>1 DEF Served
    <2>2. ASSUME NEW r \in Requests, Begin(r) \/ Install(r) \/ Revert(r) \/ WorkerDies(r)
          PROVE  IInv' /\ FilesStay
      BY <2>2, BeginStep, InstallStep, RevertStep, WorkerDiesStep
    <2>3. ASSUME NEW c \in Commands, AdminEdit(c) PROVE IInv' /\ FilesStay
      BY <2>3, AdminEditStep
    <2> QED BY <1>2, <2>1, <2>2, <2>3 DEF Next
  <1> QED BY <1>1, <1>2

-----------------------------------------------------------------------------
LEMMA Inductive ==
  ASSUME Modes
  PROVE  Spec => []IInv
  <1>1. Init => IInv
    BY InitIInv
  <1>2. IInv /\ [Next]_vars => IInv'
    BY NextStep
  <1> QED BY <1>1, <1>2, PTL DEF Spec

(* Type correctness, under the three conditions.                           *)
THEOREM IntegrationTypeCorrect ==
  ASSUME Modes
  PROVE  Spec => []IntegrationTypeOK
  <1>1. IInv => IntegrationTypeOK
    BY DEF IInv
  <1> QED BY <1>1, Inductive, PTL

(* At whatever moment the server is started, its command can be run, when  *)
(* requests come one at a time, the administrator is careful and a change  *)
(* to the wrapper that throws did not take effect.                         *)
THEOREM StartsFindTheScript ==
  ASSUME Modes
  PROVE  Spec => []StartFindsScript
  <1>1. IInv => StartFindsScript
    BY DEF IInv, Sound
  <1> QED BY <1>1, Inductive, PTL

(* The command the administrator set is in use or saved, under the same    *)
(* three conditions.                                                       *)
THEOREM OldCommandIsKept ==
  ASSUME Modes
  PROVE  Spec => []OldCommandKept
  <1>1. IInv => OldCommandKept
    BY DEF IInv, Sound, OldCommandKept
  <1> QED BY <1>1, Inductive, PTL

(* No request changes the files of a server that starts with the wrapper,  *)
(* under the same three conditions.                                        *)
THEOREM InstalledFilesDoStay ==
  ASSUME Modes
  PROVE  Spec => InstalledFilesStay
  <1>1. IInv /\ [Next]_vars => [startup = Wrapper /\ startup' = Wrapper => UNCHANGED daemonVars]_vars
    BY NextStep DEF FilesStay
  <1> QED BY <1>1, Inductive, PTL DEF Spec, InstalledFilesStay

=============================================================================
