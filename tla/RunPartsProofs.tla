------------------------------ MODULE RunPartsProofs ------------------------------
(* What the parts around a run promise, for any number of requests, lives, plugins, plans, *)
(* tabs and files: the theorems of WorkerPort, WorkerStartup, PluginStore, OAuthLogin,      *)
(* TabTools, Attachments and AgentLoop, one after the other. Each has an inductive         *)
(* invariant of its own, a lemma for each action that can disturb it, and the theorem last. *)
EXTENDS WorkerPort, WorkerStartup, PluginStore, OAuthLogin, TabTools, Attachments, AgentLoop,
        DataLemmas, SequenceTheorems, FiniteSetTheorems, TLAPS

(* ------------------------- the port to the document ------------------------- *)

USE DEF portVars, document

(* A request waits for an answer only while the worker holds a port. *)
PortInv == WaitsWhereAnswered /\ \A r \in Request : asked[r] = "pending" => heldPort # NoPort

LEMMA PortTypes == PortSpec => []PortTypeOK
<1>1. PortInit => PortTypeOK
  <2>1. ASSUME PortInit PROVE asked \in [Request -> {"none", "ensuring", "waiting", "pending"} \cup SettledState]
    BY <2>1 DEF PortInit
  <2>2. ASSUME PortInit PROVE ports \in 0..MaxPorts
    BY <2>2, PortAssumption DEF PortInit
  <2>3. ASSUME PortInit PROVE askedOn \in [Request -> PortId \cup {NoPort}]
    BY <2>3 DEF PortInit
  <2> QED BY <2>1, <2>2, <2>3 DEF PortInit, PortTypeOK
<1>2. ASSUME PortTypeOK, [PortNext]_portVars PROVE PortTypeOK'
  <2> USE DEF PortTypeOK, SettledState, PortId
  <2>1. ASSUME NEW r \in Request, Ask(r) PROVE PortTypeOK'
    BY <1>2, <2>1 DEF Ask
  <2>2. ASSUME NEW r \in Request, Post(r) PROVE PortTypeOK'
    <3>1. /\ askedOn' \in [Request -> PortId \cup {NoPort}] /\ posted' \subseteq Request \X PortId
      BY <1>2, <2>2 DEF Post, Posts
    <3> QED BY <1>2, <2>2, <3>1 DEF Post
  <2>3. ASSUME NEW r \in Request, TimeOut(r) \/ GiveUp(r) PROVE PortTypeOK'
    BY <1>2, <2>3 DEF TimeOut, GiveUp, Resets, AllRejected
  <2>4. ASSUME NEW r \in Request, NEW p \in PortId, Validate(r, p) PROVE PortTypeOK'
    <3>1. answers' \subseteq Request \X PortId \X BOOLEAN /\ posted' \subseteq Request \X PortId
      BY <1>2, <2>4 DEF Validate
    <3> QED BY <1>2, <2>4, <3>1 DEF Validate
  <2>5. ASSUME NEW r \in Request, NEW p \in PortId, NEW ok \in BOOLEAN, HearAnswer(r, p, ok)
        PROVE  PortTypeOK'
    BY <1>2, <2>5 DEF HearAnswer, Correlated, Resets, AllRejected
  <2>6. CASE Connect
    BY <1>2, <2>6, PortAssumption DEF Connect
  <2>7. CASE Accept
    <3>1. asked' \in [Request -> {"none", "ensuring", "waiting", "pending"} \cup SettledState]
      BY <1>2, <2>7 DEF Accept
    <3>2. askedOn' \in [Request -> PortId \cup {NoPort}]
      BY <1>2, <2>7 DEF Accept
    <3>3. posted' \subseteq Request \X PortId
      BY <1>2, <2>7 DEF Accept
    <3>4. heldPort' \in PortId \cup {NoPort} /\ closing' \subseteq PortId
      BY <1>2, <2>7 DEF Accept
    <3> QED BY <1>2, <2>7, <3>1, <3>2, <3>3, <3>4 DEF Accept
  <2>8. CASE CreateDocument \/ HearClose \/ DocumentCrashes
    BY <1>2, <2>8 DEF CreateDocument, HearClose, DocumentCrashes
  <2>9. CASE HearDisconnect \/ WorkerStops
    BY <1>2, <2>9 DEF HearDisconnect, WorkerStops, AllRejected
  <2>10. CASE UNCHANGED portVars
    BY <1>2, <2>10
  <2> QED
    BY <1>2, <2>1, <2>2, <2>3, <2>4, <2>5, <2>6, <2>7, <2>8, <2>9, <2>10 DEF PortNext
<1> QED BY <1>1, <1>2, PTL DEF PortSpec

(* However ports close, time out and cross, a request still waits only for an answer    *)
(* that can come: on the port the worker holds, or for a port while it holds none       *)
(* (maintenanceWorkerClient: resetWorkerPort rejects everyone a lost port leaves).      *)
THEOREM WaitersAreAnswered == PortSpec => []WaitsWhereAnswered
<1>1. PortInit => PortInv
  BY DEF PortInit, PortInv, WaitsWhereAnswered
<1>2. ASSUME PortTypeOK, PortInv, [PortNext]_portVars PROVE PortInv'
  <2> USE DEF PortTypeOK, PortInv, WaitsWhereAnswered
  <2>1. CASE \E r \in Request : Ask(r) \/ Post(r)
    BY <1>2, <2>1 DEF Ask, Post, Posts
  <2>2. CASE \E r \in Request : TimeOut(r) \/ GiveUp(r)
    BY <1>2, <2>2 DEF TimeOut, GiveUp, Resets, AllRejected
  <2>3. CASE \E r \in Request, p \in PortId : Validate(r, p)
    BY <1>2, <2>3 DEF Validate
  <2>4. CASE \E r \in Request, p \in PortId, ok \in BOOLEAN : HearAnswer(r, p, ok)
    BY <1>2, <2>4 DEF HearAnswer, Correlated, Resets, AllRejected
  <2>5. CASE Connect \/ CreateDocument \/ HearClose \/ DocumentCrashes
    BY <1>2, <2>5 DEF Connect, CreateDocument, HearClose, DocumentCrashes
  <2>6. CASE Accept
    BY <1>2, <2>6 DEF Accept
  <2>7. CASE HearDisconnect \/ WorkerStops
    BY <1>2, <2>7 DEF HearDisconnect, WorkerStops, AllRejected, SettledState
  <2>8. CASE UNCHANGED portVars
    BY <1>2, <2>8
  <2> QED BY <1>2, <2>1, <2>2, <2>3, <2>4, <2>5, <2>6, <2>7, <2>8 DEF PortNext
<1> QED BY <1>1, <1>2, PortTypes, PTL DEF PortSpec, PortInv

(* ------------------------- the start of the worker ------------------------- *)

USE DEF startupVars

LEMMA Profiles ==
  /\ Fresh \in Profile /\ Earlier \in Profile
  /\ Asleep \in [Task -> TaskStep]
  /\ ~Fresh.marked /\ ~Earlier.marked /\ ~Fresh.oldSettings
  BY DEF Fresh, Earlier, Profile, Asleep, TaskStep

LEMMA StartupTypes == StartupSpec => []StartupTypeOK
<1>1. StartupInit => StartupTypeOK
  <2>1. StartupInit => /\ epoch \in Nat /\ storedEpoch \in Nat /\ epochs \subseteq Nat
    BY DEF StartupInit
  <2>2. StartupInit => importLeft \in {"none", "undo", "finish"} /\ ruleSeen \in BOOLEAN
    BY DEF StartupInit
  <2>3. StartupInit => host \in {"dead", "starting", "ready", "refusing"}
    BY DEF StartupInit
  <2>4. StartupInit => profile \in Profile /\ task \in [Task -> TaskStep]
    BY Profiles DEF StartupInit
  <2> QED BY <2>1, <2>2, <2>3, <2>4 DEF StartupTypeOK
<1>2. ASSUME StartupTypeOK, [StartupNext]_startupVars PROVE StartupTypeOK'
  <2>0. /\ profile \in Profile /\ importLeft \in {"none", "undo", "finish"} /\ storedEpoch \in Nat
        /\ ruleSeen \in BOOLEAN /\ host \in {"dead", "starting", "ready", "refusing"}
        /\ epoch \in Nat /\ epochs \subseteq Nat /\ task \in [Task -> TaskStep]
    BY <1>2 DEF StartupTypeOK
  <2>1. task' \in [Task -> TaskStep]
    <3>1. ASSUME NEW t, NEW from, NEW to \in TaskStep, Step(t, from, to) PROVE task' \in [Task -> TaskStep]
      BY <2>0, <3>1 DEF Step
    <3>2. CASE Wake
      BY <3>2 DEF Wake, Asleep, TaskStep
    <3>3. CASE Die
      BY <3>3, Profiles DEF Die
    <3>4. CASE CheckGeneration \/ ClearLocal \/ ClearSession \/ ClearTables \/ MarkGeneration
      BY <3>1, <3>4 DEF CheckGeneration, ClearLocal, ClearSession, ClearTables, MarkGeneration, TaskStep
    <3>5. CASE Reconcile \/ ReadFlag \/ ReadRules \/ WriteRules \/ WriteFlag
      BY <3>1, <3>5 DEF Reconcile, ReadFlag, ReadRules, WriteRules, WriteFlag, TaskStep
    <3>6. CASE ReadEpoch \/ WriteEpoch \/ Recover \/ \E t \in Task : Prepares(t)
      BY <3>1, <3>6 DEF ReadEpoch, WriteEpoch, Recover, Prepares, TaskStep
    <3>7. CASE Serve \/ Refuse \/ DeleteDefault \/ UNCHANGED startupVars
      BY <2>0, <3>7 DEF Serve, Refuse, DeleteDefault
    <3>8. ASSUME NEW t \in Task, Fails(t) PROVE task' \in [Task -> TaskStep]
      BY <2>0, <3>8 DEF Fails, TaskStep
    <3> QED BY <1>2, <3>2, <3>3, <3>4, <3>5, <3>6, <3>7, <3>8 DEF StartupNext
  <2>2. profile' \in Profile
    <3>1. [Fresh EXCEPT !.oldTables = profile.oldTables] \in Profile
      BY <2>0, Profiles DEF Profile
    <3>2. \A flag \in BOOLEAN : /\ [profile EXCEPT !.oldTables = flag] \in Profile
                                /\ [profile EXCEPT !.marked = flag] \in Profile
                                /\ [profile EXCEPT !.seeded = flag] \in Profile
                                /\ [profile EXCEPT !.denied = flag] \in Profile
                                /\ [profile EXCEPT !.denied = TRUE, !.oldRules = flag] \in Profile
      BY <2>0 DEF Profile
    <3>3. \/ profile' = profile
          \/ profile' = Emptied
          \/ \E flag \in BOOLEAN : \/ profile' = [profile EXCEPT !.oldTables = flag]
                                   \/ profile' = [profile EXCEPT !.marked = flag]
                                   \/ profile' = [profile EXCEPT !.seeded = flag]
                                   \/ profile' = [profile EXCEPT !.denied = flag]
                                   \/ profile' = [profile EXCEPT !.denied = TRUE, !.oldRules = flag]
      <4>1. CASE WriteRules
        BY <2>0, <4>1 DEF WriteRules
      <4>2. CASE ClearTables \/ MarkGeneration \/ WriteFlag \/ DeleteDefault
        BY <4>2 DEF ClearTables, MarkGeneration, WriteFlag, DeleteDefault
      <4>3. CASE ClearLocal \/ CheckGeneration \/ ClearSession \/ Wake \/ Die \/ Reconcile
                 \/ \E t \in Task : Prepares(t)
        BY <4>3 DEF ClearLocal, CheckGeneration, ClearSession, Wake, Die, Reconcile, Prepares
      <4>4. CASE ReadFlag \/ ReadRules \/ ReadEpoch \/ WriteEpoch \/ Recover \/ Serve \/ Refuse
                 \/ (\E t \in Task : Fails(t)) \/ UNCHANGED startupVars
        BY <4>4 DEF ReadFlag, ReadRules, ReadEpoch, WriteEpoch, Recover, Serve, Refuse, Fails
      <4> QED BY <1>2, <4>1, <4>2, <4>3, <4>4 DEF StartupNext
    <3> QED BY <3>1, <3>2, <3>3, <2>0 DEF Emptied
  <2>3. /\ importLeft' \in {"none", "undo", "finish"} /\ storedEpoch' \in Nat
        /\ ruleSeen' \in BOOLEAN /\ host' \in {"dead", "starting", "ready", "refusing"}
        /\ epoch' \in Nat /\ epochs' \subseteq Nat
    <3>1. profile.oldRules \in BOOLEAN
      BY <2>0 DEF Profile
    <3>2. CASE Wake \/ Die \/ CheckGeneration \/ ClearLocal \/ ClearSession \/ ClearTables
               \/ MarkGeneration \/ Reconcile
      BY <2>0, <3>2 DEF Wake, Die, CheckGeneration, ClearLocal, ClearSession, ClearTables,
                        MarkGeneration, Reconcile, Rest
    <3>3. CASE ReadFlag \/ ReadRules \/ WriteRules \/ WriteFlag \/ DeleteDefault
               \/ \E t \in Task : Prepares(t) \/ Fails(t)
      BY <2>0, <3>1, <3>3 DEF ReadFlag, ReadRules, WriteRules, WriteFlag, DeleteDefault, Prepares,
                              Fails, Rest
    <3>4. CASE ReadEpoch
      BY <2>0, <3>4 DEF ReadEpoch
    <3>5. CASE WriteEpoch
      BY <2>0, <3>5 DEF WriteEpoch
    <3>6. CASE Recover \/ Refuse \/ UNCHANGED startupVars
      BY <2>0, <3>6 DEF Recover, Refuse
    <3>7. CASE Serve
      BY <2>0, <3>7 DEF Serve
    <3> QED BY <1>2, <3>2, <3>3, <3>4, <3>5, <3>6, <3>7 DEF StartupNext
  <2> QED BY <2>1, <2>2, <2>3 DEF StartupTypeOK
<1> QED BY <1>1, <1>2, PTL DEF StartupSpec

(* The marker is on a profile only once nothing of the earlier generation is in it, and *)
(* everything that waits for the preparation runs over a marked profile.                *)
GenerationInv ==
  /\ profile.marked => ~profile.oldTables /\ ~profile.oldSettings
  /\ task["prepare"] \in {"session", "tables", "mark"} => ~profile.oldSettings
  /\ task["prepare"] = "mark" => ~profile.oldTables
  /\ Done("prepare") => profile.marked
  /\ Done("reconcile") => Done("prepare") /\ importLeft = "none"

(* Every epoch that was used is stored or smaller than the stored one, and the one of   *)
(* this life is greater than all of them until it is served.                            *)
EpochInv ==
  /\ \A e \in epochs : e <= storedEpoch
  /\ task["epoch"] \in {"write", "done"} => Done("reconcile")
  /\ task["epoch"] = "write" => epoch = storedEpoch + 1
  /\ Done("epoch") => epoch = storedEpoch

StartupInv == GenerationInv /\ EpochInv /\ StartsClean

(* docs/development/index.md: data of 0.1.0 is not migrated. Wherever a worker died     *)
(* while it emptied such a profile or under an import, and whichever of the tasks of    *)
(* its start fails, runs are recovered over neither, and two lives never serve under    *)
(* one stream epoch (background.ts, recoveryReady; host.ts, allocateEngineStreamEpoch). *)
THEOREM CleanStart == StartupSpec => []StartsClean
<1>1. StartupInit => StartupInv
  <2>1. StartupInit => \A t \in Task : task[t] = "idle"
    BY DEF StartupInit, Asleep
  <2>2. StartupInit => ~profile.marked /\ epochs = {}
    BY Profiles DEF StartupInit
  <2> QED BY <2>1, <2>2 DEF StartupInv, GenerationInv, EpochInv, StartsClean, Done, Task
<1>2. ASSUME StartupTypeOK, StartupInv, [StartupNext]_startupVars PROVE StartupInv'
  <2>0. /\ task \in [Task -> TaskStep] /\ storedEpoch \in Nat /\ epoch \in Nat /\ epochs \subseteq Nat
        /\ {"prepare", "reconcile", "sweep", "mcp", "state", "seed", "epoch", "recover"} \subseteq Task
    BY <1>2 DEF StartupTypeOK, Task
  <2>1. ASSUME NEW t \in Task, NEW from, NEW to, Step(t, from, to)
        PROVE  /\ host # "dead" /\ task[t] = from /\ task'[t] = to
               /\ \A u \in Task : u # t => task'[u] = task[u]
    BY <2>0, <2>1 DEF Step
  <2> USE <2>0 DEF StartupInv, GenerationInv, EpochInv, StartsClean, Done
  <2>2. CASE Wake
    BY <1>2, <2>2 DEF Wake, Asleep
  <2>3. CASE Die
    BY <1>2, <2>3 DEF Die, Asleep
  <2>4. CASE CheckGeneration
    BY <1>2, <2>1, <2>4 DEF CheckGeneration, Rest
  <2>5. CASE ClearLocal
    BY <1>2, <2>1, <2>5 DEF ClearLocal, Rest, Emptied, Fresh
  <2>6. CASE ClearSession
    BY <1>2, <2>1, <2>6 DEF ClearSession
  <2>7. CASE ClearTables
    BY <1>2, <2>1, <2>7 DEF ClearTables, StartupTypeOK, Profile
  <2>8. CASE MarkGeneration
    BY <1>2, <2>1, <2>8 DEF MarkGeneration, Rest, StartupTypeOK, Profile
  <2>9. CASE Reconcile
    <3>1. /\ task["reconcile"] = "idle" /\ task'["reconcile"] = "done"
          /\ \A u \in Task : u # "reconcile" => task'[u] = task[u]
      BY <2>1, <2>9 DEF Reconcile
    <3>2. /\ Done("prepare") /\ importLeft' = "none" /\ storedEpoch' \in {storedEpoch, 0}
          /\ (storedEpoch' = storedEpoch /\ epochs' = epochs) \/ epochs' = {}
          /\ UNCHANGED <<profile, epoch, host, recoversOver>>
      BY <2>9 DEF Reconcile
    <3>3. task["epoch"] \notin {"write", "done"}
      BY <1>2, <3>1
    <3> QED BY <1>2, <3>1, <3>2, <3>3
  <2>10. CASE ReadFlag \/ ReadRules
    <3>1. \A u \in Task : u # "seed" => task'[u] = task[u]
      BY <2>1, <2>10 DEF ReadFlag, ReadRules
    <3>2. UNCHANGED <<profile, importLeft, storedEpoch, epoch, host, epochs, recoversOver>>
      BY <2>10 DEF ReadFlag, ReadRules, Rest
    <3> QED BY <1>2, <3>1, <3>2
  <2>11. CASE WriteRules \/ WriteFlag
    <3>1. \A u \in Task : u # "seed" => task'[u] = task[u]
      BY <2>1, <2>11 DEF WriteRules, WriteFlag
    <3>2. UNCHANGED <<importLeft, storedEpoch, epoch, host, epochs, recoversOver>>
      BY <2>11 DEF WriteRules, WriteFlag, Rest
    <3>3. /\ profile'.marked = profile.marked /\ profile'.oldTables = profile.oldTables
          /\ profile'.oldSettings = profile.oldSettings
      BY <1>2, <2>11 DEF WriteRules, WriteFlag, StartupTypeOK, Profile
    <3> QED BY <1>2, <3>1, <3>2, <3>3
  <2>12. CASE ReadEpoch
    BY <1>2, <2>1, <2>12 DEF ReadEpoch
  <2>13. CASE WriteEpoch
    BY <1>2, <2>1, <2>13 DEF WriteEpoch
  <2>14. CASE Recover
    BY <1>2, <2>1, <2>14 DEF Recover, Settled
  <2>15. CASE Serve
    BY <1>2, <2>15 DEF Serve
  <2>16. CASE Refuse
    BY <1>2, <2>16 DEF Refuse
  <2>17. CASE DeleteDefault
    BY <1>2, <2>17 DEF DeleteDefault, StartupTypeOK, Profile
  <2>18. ASSUME NEW t \in Task, Prepares(t) PROVE StartupInv'
    BY <1>2, <2>1, <2>18 DEF Prepares, Rest
  <2>19. ASSUME NEW t \in Task, Fails(t) PROVE StartupInv'
    <3>1. /\ task'[t] = "failed" /\ task[t] # "done" /\ \A u \in Task : u # t => task'[u] = task[u]
      BY <2>19 DEF Fails
    <3> QED BY <1>2, <2>19, <3>1 DEF Fails, Rest
  <2>20. CASE UNCHANGED startupVars
    BY <1>2, <2>20
  <2> QED
    BY <1>2, <2>2, <2>3, <2>4, <2>5, <2>6, <2>7, <2>8, <2>9, <2>10, <2>11, <2>12, <2>13, <2>14,
       <2>15, <2>16, <2>17, <2>18, <2>19, <2>20 DEF StartupNext
<1> QED BY <1>1, <1>2, StartupTypes, PTL DEF StartupSpec, StartupInv

(* ------------------------- plugins and skills ------------------------- *)

USE DEF pluginVars

(* What a page has downloaded is what it shows, so that what is committed was shown.    *)
ShownInv ==
  /\ plan \in [PluginPage -> [archive : Archive \cup {NoArchive},
                              before : Archive \cup {NoArchive}, wasOn : BOOLEAN]]
  /\ saving \in [PluginPage -> [name : SkillName \cup {NoArchive},
                                of : Plugin \cup {User, NoArchive}, on : BOOLEAN]]
  /\ \A g \in PluginPage :
       /\ fetching[g] # NoArchive => fetching[g] = plan[g].archive
       /\ saving[g] # NoSaving => saving[g].name \in SkillName

PluginInv == PluginTypeOK /\ ShownInv /\ PluginsWhole

(* What one step makes of the stored skills. *)
LEMMA SkillsStay ==
  ASSUME PluginTypeOK, PluginsWhole, NEW new, skills' \subseteq skills \cup new,
         \A s \in new : s.owner = User, UNCHANGED <<installed, enabledIn>>
  PROVE  \A s \in skills' : s.owner # User =>
           /\ s.from = installed'[s.owner] /\ s.name \in s.from.skills
           /\ s.enabled = (s.owner \in enabledIn')
  BY DEF PluginsWhole

LEMMA Fetched ==
  ASSUME PluginInv, NEW g \in PluginPage, fetching[g] # NoArchive
  PROVE  /\ fetching[g] \in Archive /\ fetching[g] = plan[g].archive
         /\ fetching[g].plugin \in Plugin /\ fetching[g].skills \subseteq SkillName
  BY PluginAssumption DEF PluginInv, PluginTypeOK, ShownInv

(* The pages' plans and savings change as they may. *)
LEMMA ShownKept ==
  ASSUME PluginInv, NEW g \in PluginPage,
         \A h \in PluginPage : h # g => fetching'[h] = fetching[h] /\ plan'[h] = plan[h],
         fetching' \in [PluginPage -> Archive \cup {NoArchive}],
         plan' \in [PluginPage -> [archive : Archive \cup {NoArchive},
                                   before : Archive \cup {NoArchive}, wasOn : BOOLEAN]],
         fetching'[g] # NoArchive => fetching'[g] = plan'[g].archive, saving' = saving
  PROVE  ShownInv'
  BY DEF PluginInv, ShownInv

LEMMA ForgottenSaves ==
  ASSUME PluginInv, NEW p
  PROVE  /\ Forgotten(p) \in [PluginPage -> [name : SkillName \cup {NoArchive},
                                             of : Plugin \cup {User, NoArchive}, on : BOOLEAN]]
         /\ \A g \in PluginPage : Forgotten(p)[g] # NoSaving => Forgotten(p)[g].name \in SkillName
<1>1. \A g \in PluginPage :
        saving[g] \in [name : SkillName \cup {NoArchive},
                       of : Plugin \cup {User, NoArchive}, on : BOOLEAN]
  BY DEF PluginInv, ShownInv
<1>2. ASSUME NEW g \in PluginPage
      PROVE  /\ Forgotten(p)[g] \in [name : SkillName \cup {NoArchive},
                                     of : Plugin \cup {User, NoArchive}, on : BOOLEAN]
             /\ Forgotten(p)[g] # NoSaving => Forgotten(p)[g].name \in SkillName
  <2>1. CASE saving[g] = NoSaving
    <3>1. Forgotten(p)[g] = NoSaving
      BY <2>1 DEF Forgotten, NoSaving
    <3> QED BY <1>1, <2>1, <3>1
  <2>2. CASE saving[g] # NoSaving
    <3>1. Forgotten(p)[g].name = saving[g].name
      BY <1>1 DEF Forgotten
    <3>2. saving[g].name \in SkillName
      BY <2>2 DEF PluginInv, ShownInv
    <3>3. Forgotten(p)[g] \in [name : SkillName \cup {NoArchive},
                               of : Plugin \cup {User, NoArchive}, on : BOOLEAN]
      BY <1>1 DEF Forgotten
    <3> QED BY <3>1, <3>2, <3>3
  <2> QED BY <2>1, <2>2
<1> QED BY <1>2 DEF Forgotten

SkillType == [name : SkillName, owner : Plugin \cup {User}, from : Archive \cup {NoArchive},
              enabled : BOOLEAN]

LEMMA PluginCommits == ASSUME PluginInv, NEW g \in PluginPage, Commit(g) PROVE PluginInv'
<1>1. PICK a : a = fetching[g]
  OBVIOUS
<1>2. PICK fresh : fresh = {SkillRecord(n, a.plugin, a, FALSE) : n \in a.skills}
  OBVIOUS
<1>3. /\ a # NoArchive /\ a \in Archive /\ a = plan[g].archive
      /\ a.plugin \in Plugin /\ a.skills \subseteq SkillName
  BY <1>1, Fetched DEF Commit
<1>4. /\ installed' = [installed EXCEPT ![a.plugin] = a] /\ enabledIn' = enabledIn \ {a.plugin}
      /\ assetsOf' = [assetsOf EXCEPT ![a.plugin] = a] /\ skills' = NotOf(a.plugin) \cup fresh
      /\ plan' = [plan EXCEPT ![g] = NoPlan] /\ fetching' = [fetching EXCEPT ![g] = NoArchive]
      /\ saving' = Forgotten(a.plugin) /\ unseen' = unseen
  BY <1>1, <1>2, <1>3 DEF Commit, PluginInv, PluginTypeOK
<1>5. /\ fresh \subseteq SkillType
      /\ \A s \in fresh : s.owner = a.plugin /\ s.from = a /\ s.name \in a.skills /\ ~s.enabled
  <2>1. ASSUME NEW s \in fresh
        PROVE  /\ s \in SkillType /\ s.owner = a.plugin /\ s.from = a
               /\ s.name \in a.skills /\ ~s.enabled
    <3>1. PICK n \in a.skills : s = SkillRecord(n, a.plugin, a, FALSE)
      BY <1>2, <2>1
    <3>2. n \in SkillName
      BY <1>3
    <3> QED BY <1>3, <3>1, <3>2 DEF SkillRecord, SkillType
  <2> QED BY <2>1
<1>6. PluginTypeOK'
  <2>1. skills' \subseteq SkillType
    BY <1>4, <1>5 DEF NotOf, PluginInv, PluginTypeOK, SkillType
  <2>2. fetching' \in [PluginPage -> Archive \cup {NoArchive}]
    BY <1>4 DEF PluginInv, PluginTypeOK
  <2>3. enabledIn' \subseteq Plugin /\ unseen' \in BOOLEAN
    BY <1>4 DEF PluginInv, PluginTypeOK
  <2> QED BY <1>3, <1>4, <2>1, <2>2, <2>3 DEF PluginInv, PluginTypeOK, SkillType
<1>7. ShownInv'
  <2>1. /\ \A h \in PluginPage : h # g => fetching'[h] = fetching[h] /\ plan'[h] = plan[h]
        /\ fetching'[g] = NoArchive
    BY <1>4 DEF PluginInv, PluginTypeOK, ShownInv
  <2>2. plan' \in [PluginPage -> [archive : Archive \cup {NoArchive},
                                  before : Archive \cup {NoArchive}, wasOn : BOOLEAN]]
    BY <1>4 DEF PluginInv, ShownInv, NoPlan
  <2> QED BY <1>4, <2>1, <2>2, ForgottenSaves DEF PluginInv, ShownInv
<1>8. PluginsWhole'
  <2>1. ~unseen' /\ \A p \in Plugin : assetsOf'[p] = installed'[p]
    BY <1>3, <1>4 DEF PluginInv, PluginsWhole, PluginTypeOK
  <2>2. ASSUME NEW s \in skills', s.owner # User
        PROVE  /\ s.from = installed'[s.owner] /\ s.name \in s.from.skills
               /\ s.enabled = (s.owner \in enabledIn')
    <3>1. CASE s \in fresh
      <4>1. s.enabled \in BOOLEAN
        BY <1>5, <3>1 DEF SkillType
      <4>2. installed'[a.plugin] = a /\ a.plugin \notin enabledIn'
        BY <1>3, <1>4 DEF PluginInv, PluginTypeOK
      <4> QED BY <1>5, <3>1, <4>1, <4>2
    <3>2. CASE s \in skills /\ s.owner # a.plugin
      <4>1. installed'[s.owner] = installed[s.owner] /\ (s.owner \in enabledIn' <=> s.owner \in enabledIn)
        BY <1>4, <2>2, <3>2 DEF PluginInv, PluginTypeOK
      <4>2. /\ s.from = installed[s.owner] /\ s.name \in s.from.skills
            /\ s.enabled = (s.owner \in enabledIn)
        BY <2>2, <3>2 DEF PluginInv, PluginsWhole
      <4> QED BY <4>1, <4>2
    <3> QED BY <1>4, <2>2, <3>1, <3>2 DEF NotOf
  <2> QED BY <2>1, <2>2 DEF PluginsWhole
<1> QED BY <1>6, <1>7, <1>8 DEF PluginInv

LEMMA PluginUninstalls == ASSUME PluginInv, NEW p \in Plugin, Uninstall(p) PROVE PluginInv'
<1>1. PluginTypeOK'
  BY DEF Uninstall, NotOf, PluginInv, PluginTypeOK
<1>2. ShownInv'
  BY ForgottenSaves DEF Uninstall, PluginInv, ShownInv
<1>3. PluginsWhole'
  BY DEF Uninstall, NotOf, PluginInv, PluginTypeOK, PluginsWhole
<1> QED BY <1>1, <1>2, <1>3 DEF PluginInv

LEMMA PluginSwitches ==
  ASSUME PluginInv, NEW p \in Plugin, NEW on \in BOOLEAN, SetEnabled(p, on) PROVE PluginInv'
<1>1. \A s \in skills' : \E t \in skills :
        /\ s \in SkillType /\ s.name = t.name /\ s.owner = t.owner /\ s.from = t.from
        /\ s.enabled = IF t.owner = p THEN on ELSE t.enabled
  BY DEF SetEnabled, PluginInv, PluginTypeOK, SkillType
<1>2. /\ \A q \in Plugin : q \in enabledIn' <=> IF q = p THEN on ELSE q \in enabledIn
      /\ enabledIn' \subseteq Plugin
  BY DEF SetEnabled, PluginInv, PluginTypeOK
<1>3. PluginTypeOK'
  BY <1>1, <1>2 DEF SetEnabled, PluginInv, PluginTypeOK, SkillType
<1>4. ShownInv'
  BY DEF SetEnabled, PluginInv, ShownInv
<1>5. ASSUME NEW s \in skills', s.owner # User
      PROVE  /\ s.from = installed'[s.owner] /\ s.name \in s.from.skills
             /\ s.enabled = (s.owner \in enabledIn')
  <2>1. PICK t \in skills :
          /\ s.name = t.name /\ s.owner = t.owner /\ s.from = t.from
          /\ s.enabled = IF t.owner = p THEN on ELSE t.enabled
    BY <1>1
  <2>2. /\ t.from = installed[t.owner] /\ t.name \in t.from.skills
        /\ t.enabled = (t.owner \in enabledIn) /\ t.owner \in Plugin
    BY <1>5, <2>1 DEF PluginInv, PluginsWhole, PluginTypeOK
  <2> QED BY <1>2, <2>1, <2>2 DEF SetEnabled
<1>6. PluginsWhole'
  BY <1>5 DEF SetEnabled, PluginInv, PluginsWhole
<1> QED BY <1>3, <1>4, <1>6 DEF PluginInv

LEMMA PluginPlans ==
  ASSUME PluginInv, NEW g \in PluginPage,
         \/ \E a \in Archive : Analyze(g, a)
         \/ \E a \in Downloads : Confirm(g, a)
         \/ LeavePlan(g) \/ CommitFails(g)
  PROVE  PluginInv'
<1>1. /\ UNCHANGED <<installed, enabledIn, assetsOf, skills, saving, unseen>>
      /\ \A h \in PluginPage : h # g => fetching'[h] = fetching[h] /\ plan'[h] = plan[h]
  BY DEF Analyze, Confirm, LeavePlan, CommitFails, PluginInv, PluginTypeOK, ShownInv
<1>2. fetching' \in [PluginPage -> Archive \cup {NoArchive}]
  BY DEF Analyze, Confirm, LeavePlan, CommitFails, PluginInv, PluginTypeOK, Downloads
<1>3. plan' \in [PluginPage -> [archive : Archive \cup {NoArchive},
                                before : Archive \cup {NoArchive}, wasOn : BOOLEAN]]
  <2>1. ASSUME NEW a \in Archive, Analyze(g, a)
        PROVE  [archive |-> a, before |-> installed[a.plugin], wasOn |-> a.plugin \in enabledIn]
                 \in [archive : Archive \cup {NoArchive}, before : Archive \cup {NoArchive},
                      wasOn : BOOLEAN]
    <3>1. a.plugin \in Plugin
      BY PluginAssumption
    <3> QED BY <3>1 DEF PluginInv, PluginTypeOK
  <2>2. CASE \E a \in Archive : Analyze(g, a)
    <3>1. PICK a \in Archive : Analyze(g, a)
      BY <2>2
    <3> QED BY <2>1, <3>1 DEF Analyze, PluginInv, ShownInv
  <2>3. CASE \E a \in Downloads : Confirm(g, a)
    BY <2>3 DEF Confirm, PluginInv, ShownInv
  <2>4. CASE LeavePlan(g)
    BY <2>4 DEF LeavePlan, NoPlan, PluginInv, ShownInv
  <2>5. CASE CommitFails(g)
    BY <2>5 DEF CommitFails, PluginInv, ShownInv
  <2> QED BY <2>2, <2>3, <2>4, <2>5
<1>4. fetching'[g] # NoArchive => fetching'[g] = plan'[g].archive
  <2>1. CASE \E a \in Archive : Analyze(g, a)
    <3>1. plan[g] = NoPlan /\ fetching' = fetching
      BY <2>1 DEF Analyze
    <3>2. fetching[g] = NoArchive
      BY <3>1, Fetched, PluginAssumption DEF NoPlan
    <3> QED BY <3>1, <3>2
  <2>2. CASE \E a \in Downloads : Confirm(g, a)
    BY <2>2 DEF Confirm, SameDigest, PluginInv, PluginTypeOK
  <2>3. CASE LeavePlan(g)
    BY <2>3 DEF LeavePlan
  <2>4. CASE CommitFails(g)
    BY <2>4 DEF CommitFails, PluginInv, PluginTypeOK
  <2> QED BY <2>1, <2>2, <2>3, <2>4
<1>5. ShownInv'
  BY <1>1, <1>2, <1>3, <1>4, ShownKept
<1> QED BY <1>1, <1>2, <1>5 DEF PluginInv, PluginTypeOK, PluginsWhole

(* A page that has read a skill saves it, whoever owns it by then. *)
LEMMA PluginReads ==
  ASSUME PluginInv, NEW g \in PluginPage, NEW n \in SkillName,
         ReadSkill(g, n) \/ \E p \in Plugin : CopySkill(g, p, n)
  PROVE  PluginInv'
<1>1. \E of \in Plugin \cup {User, NoArchive}, on \in BOOLEAN : Saving(g, n, of, on)
  BY DEF ReadSkill, CopySkill, Named, PluginInv, PluginTypeOK
<1>2. UNCHANGED <<installed, enabledIn, assetsOf, skills, plan, fetching, unseen>>
  BY DEF ReadSkill, CopySkill
<1>3. /\ saving' \in [PluginPage -> [name : SkillName \cup {NoArchive},
                                     of : Plugin \cup {User, NoArchive}, on : BOOLEAN]]
      /\ \A h \in PluginPage : saving'[h] # NoSaving => saving'[h].name \in SkillName
  BY <1>1 DEF Saving, PluginInv, ShownInv
<1>4. ShownInv'
  BY <1>2, <1>3 DEF PluginInv, ShownInv
<1> QED BY <1>2, <1>4 DEF PluginInv, PluginTypeOK, PluginsWhole

LEMMA PluginSaves == ASSUME PluginInv, NEW g \in PluginPage, SaveSkill(g) PROVE PluginInv'
<1>1. PICK new : new = {SkillRecord(saving[g].name, User, NoArchive, saving[g].on)}
  OBVIOUS
<1>2. saving[g].name \in SkillName /\ saving[g].on \in BOOLEAN
  BY DEF SaveSkill, PluginInv, ShownInv
<1>3. /\ skills' \subseteq skills \cup new
      /\ UNCHANGED <<installed, enabledIn, assetsOf, plan, fetching, unseen>>
  BY <1>1 DEF SaveSkill, Named
<1>4. new \subseteq SkillType /\ \A s \in new : s.owner = User
  BY <1>1, <1>2 DEF SkillRecord, SkillType
<1>5. PluginTypeOK'
  BY <1>3, <1>4 DEF SkillType, PluginInv, PluginTypeOK
<1>6. /\ saving' \in [PluginPage -> [name : SkillName \cup {NoArchive},
                                     of : Plugin \cup {User, NoArchive}, on : BOOLEAN]]
      /\ \A h \in PluginPage : saving'[h] # NoSaving => saving'[h].name \in SkillName
  BY DEF SaveSkill, NoSaving, PluginInv, ShownInv
<1>7. ShownInv'
  BY <1>3, <1>6 DEF PluginInv, ShownInv
<1>8. PluginsWhole'
  BY <1>3, <1>4, SkillsStay DEF PluginInv, PluginsWhole
<1> QED BY <1>5, <1>7, <1>8 DEF PluginInv

LEMMA PluginChanges == ASSUME PluginInv, NEW s \in skills, ChangeSkill(s) PROVE PluginInv'
<1>1. PICK new : new = {[s EXCEPT !.enabled = ~@]}
  OBVIOUS
<1>2. /\ skills' \subseteq skills \cup new
      /\ UNCHANGED <<installed, enabledIn, assetsOf, plan, fetching, saving, unseen>>
  BY <1>1 DEF ChangeSkill
<1>3. new \subseteq SkillType /\ \A t \in new : t.owner = User
  BY <1>1 DEF ChangeSkill, SkillType, PluginInv, PluginTypeOK
<1>4. PluginTypeOK' /\ ShownInv'
  BY <1>2, <1>3 DEF SkillType, PluginInv, PluginTypeOK, ShownInv
<1>5. PluginsWhole'
  BY <1>2, <1>3, SkillsStay DEF PluginInv, PluginsWhole
<1> QED BY <1>4, <1>5 DEF PluginInv

(* docs/en/development/skills-plugins.md, a plugin is one read-only unit                   *)
(* (src/plugins/manager.ts commit, setEnabled, uninstall): for any number of pages,        *)
(* plugins and archives, what is installed was shown by a page, its files and skills are   *)
(* that archive's, and its skills are on exactly when it is.                               *)
THEOREM PluginsAreWhole == PluginSpec => []PluginsWhole
<1>1. PluginInit => PluginInv
  <2>1. PluginInit => PluginTypeOK /\ PluginsWhole
    BY DEF PluginInit, PluginTypeOK, PluginsWhole
  <2>2. PluginInit => ShownInv
    BY DEF PluginInit, ShownInv, NoPlan, NoSaving
  <2> QED BY <2>1, <2>2 DEF PluginInv
<1>2. PluginInv /\ [PluginNext]_pluginVars => PluginInv'
  <2> SUFFICES ASSUME PluginInv, [PluginNext]_pluginVars PROVE PluginInv'
    OBVIOUS
  <2>1. CASE PluginNext
    BY <2>1, PluginPlans, PluginCommits, PluginReads, PluginSaves, PluginUninstalls,
       PluginSwitches, PluginChanges DEF PluginNext
  <2>2. CASE UNCHANGED pluginVars
    BY <2>2 DEF PluginInv, PluginTypeOK, ShownInv, PluginsWhole
  <2> QED BY <2>1, <2>2
<1>3. PluginInv => PluginsWhole
  BY DEF PluginInv
<1> QED BY <1>1, <1>2, <1>3, PTL DEF PluginSpec

(* ------------------------- logging in ------------------------- *)

USE DEF loginVars

Flow == [at : LoginAt, token : BOOLEAN, read : Credentials, issuer : Digests,
         plan : LoginPlan \cup {NoLogin}, client : LoginPlan \cup {NoLogin, Configured},
         approval : Approval]

(* What a flow carries from one stage to the next: the credentials it read belong together, *)
(* past discovery it has a plan, past the check of the endpoints it read no binding to     *)
(* another, the client it uses is the plan's or configured, an approval of the endpoints   *)
(* or of a refresh is of that plan, and only credentials of the plan are refreshed.        *)
FlowBound(b, l) ==
  /\ l.read.tokens = l.read.binding /\ l.read.client \in {l.read.binding, Configured}
  /\ l.at \notin {"idle", "resource", "issuer"} => l.plan \in LoginPlan
  /\ l.at \in {"registering", "window", "exchanging"} => l.read.binding \in {NoLogin, l.plan}
  /\ l.at \in {"window", "exchanging", "refreshing", "persisting", "storing", "saving"}
       => l.client \in {l.plan, Configured}
  /\ l.at \in {"registering", "window"} /\ l.approval.stage = "oauth_endpoints"
       => l.approval.digest = l.plan
  /\ l.at = "refreshing" /\ l.approval.stage = "token_refresh" => l.approval.digest = l.plan
  /\ l.at \in {"refresh", "refreshing"} => l.read.binding = l.plan
  /\ l.token => l.read.binding # NoLogin

(* What is stored, in either storage, belongs together. *)
StoredBound ==
  /\ auth \in Credentials /\ access \in [Issuers -> LoginPlan \cup {NoLogin}]
  /\ auth.tokens = auth.binding /\ auth.client \in {auth.binding, Configured}
  /\ \A i \in Issuers : access[i] # NoLogin => IssuerOf[access[i]] = i

LoginInv ==
  /\ LoginTypeOK /\ CredentialsBound
  /\ \A b \in Beginner : FlowBound(b, login[b])

LEMMA LoginsAre == LoginTypeOK => login \in [Beginner -> Flow]
  BY DEF LoginTypeOK, Flow

LEMMA IdleIsFlow ==
  /\ IdleLogin \in Flow
  /\ \A b : FlowBound(b, IdleLogin)
<1>1. NoAuth \in Credentials /\ NoApproval \in Approval /\ NoLogin \in Digests
  BY DEF NoAuth, Credentials, NoApproval, Approval, Digests, Stage
<1>2. IdleLogin \in Flow
  BY <1>1 DEF IdleLogin, Flow, LoginAt
<1>3. ASSUME NEW b PROVE FlowBound(b, IdleLogin)
  BY DEF FlowBound, IdleLogin, NoAuth, NoApproval
<1> QED BY <1>2, <1>3

(* One flow goes on, and the others stay. *)
LEMMA FlowGoesOn ==
  ASSUME LoginInv, NEW b \in Beginner, NEW l, login' = [login EXCEPT ![b] = l],
         l \in Flow, FlowBound(b, l),
         published' \in LoginPlan, strayed' = FALSE, unapproved' = FALSE,
         pendingPlan' \in [Stage -> Digests], pagePlan' \in Approval,
         StoredBound'
  PROVE  LoginInv'
<1>1. login \in [Beginner -> Flow]
  BY LoginsAre DEF LoginInv
<1>2. login' \in [Beginner -> Flow]
  BY <1>1
<1>3. LoginTypeOK'
  BY <1>2 DEF LoginTypeOK, Flow, StoredBound
<1>4. \A h \in Beginner : FlowBound(h, login'[h])
  BY <1>1 DEF LoginInv
<1>5. CredentialsBound'
  BY DEF CredentialsBound, StoredBound
<1> QED BY <1>3, <1>4, <1>5 DEF LoginInv

(* A flow ends, or ends by asking. *)
LEMMA FlowEnds ==
  ASSUME LoginInv, NEW b \in Beginner, EndFlow(b),
         published' = published, strayed' = FALSE, unapproved' = FALSE,
         pendingPlan' \in [Stage -> Digests], pagePlan' \in Approval,
         StoredBound'
  PROVE  LoginInv'
<1>1. published' \in LoginPlan
  BY DEF LoginInv, LoginTypeOK
<1>2. login' = [login EXCEPT ![b] = IdleLogin]
  BY DEF EndFlow
<1> QED BY <1>1, <1>2, IdleIsFlow, FlowGoesOn

LEMMA Asked ==
  ASSUME LoginInv, NEW b \in Beginner, NEW s \in Stage, NEW d \in Digests, Require(b, s, d)
  PROVE  /\ pendingPlan' \in [Stage -> Digests] /\ pagePlan' \in Approval /\ EndFlow(b)
  BY DEF LoginInv, LoginTypeOK, Require, Approval

LEMMA DigestsAre ==
  ASSUME LoginInv, NEW b \in Beginner, NEW s \in Stage
  PROVE  DigestOf(b, s) \in Digests /\ login[b].plan \in Digests
<1>1. login[b] \in Flow
  BY LoginsAre DEF LoginInv
<1>2. login[b].issuer \in Digests /\ login[b].plan \in Digests /\ Resource \in Digests
  BY <1>1 DEF Flow, Digests
<1> QED BY <1>2 DEF DigestOf

LEMMA Bound ==
  ASSUME LoginInv
  PROVE  /\ strayed = FALSE /\ unapproved = FALSE /\ published \in LoginPlan /\ StoredBound
         /\ UNCHANGED <<auth, access>> => StoredBound'
         /\ pendingPlan \in [Stage -> Digests] /\ pagePlan \in Approval
<1>1. StoredBound
  BY DEF LoginInv, LoginTypeOK, CredentialsBound, StoredBound
<1>2. UNCHANGED <<auth, access>> => StoredBound'
  BY <1>1 DEF StoredBound
<1> QED BY <1>1, <1>2 DEF LoginInv, LoginTypeOK, CredentialsBound

(* The access token of what is bound is deleted, or one is kept under its own issuer. *)
LEMMA AccessDropped ==
  ASSUME LoginInv, auth' = auth, access' = WithoutAccess PROVE StoredBound'
<1>1. access' \in [Issuers -> LoginPlan \cup {NoLogin}]
  BY Bound DEF StoredBound, WithoutAccess
<1>2. \A i \in Issuers : access'[i] # NoLogin => access'[i] = access[i]
  BY Bound DEF StoredBound, WithoutAccess
<1> QED BY <1>1, <1>2, Bound DEF StoredBound

LEMMA AccessKept ==
  ASSUME LoginInv, NEW p \in LoginPlan, auth' = auth, access' = [access EXCEPT ![IssuerOf[p]] = p]
  PROVE  StoredBound'
<1>1. IssuerOf[p] \in Issuers /\ p # NoLogin
  BY LoginAssumption DEF Issuers
<1> QED BY <1>1, Bound DEF StoredBound

(* A stage is passed, or asks the user. *)
LEMMA StageDone ==
  ASSUME LoginInv, NEW b \in Beginner, NEW s \in Stage, NEW origins, NEW l,
         PassOrRequire(b, s, origins, [login EXCEPT ![b] = l]),
         Passes(b, s, origins, DigestOf(b, s)) => l \in Flow /\ FlowBound(b, l),
         published' = published, strayed' = FALSE, unapproved' = FALSE,
         StoredBound'
  PROVE  LoginInv'
<1>1. CASE Passes(b, s, origins, DigestOf(b, s))
  <2>1. pendingPlan' \in [Stage -> Digests]
    BY <1>1, Bound DEF PassOrRequire, Digests
  <2>2. pagePlan' \in Approval /\ login' = [login EXCEPT ![b] = l] /\ published' \in LoginPlan
    BY <1>1, Bound DEF PassOrRequire
  <2> QED BY <1>1, <2>1, <2>2, FlowGoesOn
<1>2. CASE ~Passes(b, s, origins, DigestOf(b, s))
  <2>1. Require(b, s, DigestOf(b, s))
    BY <1>2 DEF PassOrRequire
  <2> QED BY <2>1, Asked, DigestsAre, FlowEnds
<1> QED BY <1>1, <1>2

LEMMA FlowFacts ==
  ASSUME LoginInv, NEW b \in Beginner
  PROVE  /\ login \in [Beginner -> Flow] /\ login[b] \in Flow /\ FlowBound(b, login[b])
  BY LoginsAre DEF LoginInv

LEMMA FlowBegins == ASSUME LoginInv, NEW b \in Beginner, BeginFlow(b) PROVE LoginInv'
<1> DEFINE Began(a) ==
      [IdleLogin EXCEPT !.at = "resource", !.read = auth, !.approval = a,
       !.token = HasTokens /\ (b = "connect" \/ a.stage = "token_refresh")]
<1>1. PICK approval \in {NoApproval} \cup (IF b = "settings" THEN {pagePlan} ELSE {}) :
        login' = [login EXCEPT ![b] = Began(approval)]
  BY DEF BeginFlow
<1>2. PICK l : l = Began(approval)
  OBVIOUS
<1>3. approval \in Approval
  BY <1>1, Bound, IdleIsFlow DEF NoApproval, Approval, Digests
<1>4. /\ l.at = "resource" /\ l.read = auth /\ l.approval = approval
      /\ l.issuer = NoLogin /\ l.plan = NoLogin /\ l.client = NoLogin
      /\ l.token = (HasTokens /\ (b = "connect" \/ approval.stage = "token_refresh"))
  BY <1>2 DEF IdleLogin
<1>5. l \in Flow
  <2>1. l.token \in BOOLEAN
    BY <1>4, Zenon
  <2>2. l = [at |-> "resource", token |-> l.token, read |-> auth, issuer |-> NoLogin,
             plan |-> NoLogin, client |-> NoLogin, approval |-> approval]
    BY <1>2 DEF IdleLogin
  <2>3. auth \in Credentials /\ NoLogin \in Digests
    BY Bound DEF StoredBound, Digests
  <2> QED BY <1>3, <2>1, <2>2, <2>3 DEF Flow, LoginAt
<1>6. FlowBound(b, l)
  <2>1. l.token => auth.binding # NoLogin
    BY <1>4 DEF HasTokens
  <2> QED BY <1>4, <2>1, Bound DEF FlowBound, StoredBound
<1>7. login' = [login EXCEPT ![b] = l]
  BY <1>1, <1>2
<1> QED BY <1>5, <1>6, <1>7, Bound, FlowGoesOn DEF BeginFlow

LEMMA ResourceFound == ASSUME LoginInv, NEW b \in Beginner, DiscoverResource(b) PROVE LoginInv'
<1>1. PICK l : l = [login[b] EXCEPT !.at = "issuer", !.issuer = IssuerOf[published]]
  OBVIOUS
<1>2. [login EXCEPT ![b] = l] = [login EXCEPT ![b].at = "issuer", ![b].issuer = IssuerOf[published]]
  BY <1>1, FlowFacts
<1>3. l \in Flow
  <2>1. IssuerOf[published] \in Digests
    BY Bound DEF Digests, Issuers
  <2> QED BY <1>1, <2>1, FlowFacts DEF Flow, LoginAt
<1>4. FlowBound(b, l)
  <2>1. /\ l.at = "issuer" /\ l.read = login[b].read /\ l.token = login[b].token
        /\ login[b].at = "resource"
    BY <1>1, FlowFacts DEF Flow, DiscoverResource
  <2> QED BY <2>1, FlowFacts DEF FlowBound
<1>5. PassOrRequire(b, "resource", {Resource}, [login EXCEPT ![b] = l])
  BY <1>2 DEF DiscoverResource
<1>6. "resource" \in Stage
  BY DEF Stage
<1> QED BY <1>3, <1>4, <1>5, <1>6, Bound, StageDone DEF DiscoverResource

LEMMA IssuerFound == ASSUME LoginInv, NEW b \in Beginner, DiscoverIssuer(b) PROVE LoginInv'
<1>1. PICK l : l = [login[b] EXCEPT !.at = "endpoints", !.plan = published]
  OBVIOUS
<1>2. [login EXCEPT ![b] = l] = [login EXCEPT ![b].at = "endpoints", ![b].plan = published]
  BY <1>1, FlowFacts
<1>3. l \in Flow
  BY <1>1, FlowFacts, Bound DEF Flow, LoginAt
<1>4. FlowBound(b, l)
  <2>1. /\ l.at = "endpoints" /\ l.read = login[b].read /\ l.token = login[b].token
        /\ l.plan = published /\ login[b].at = "issuer"
    BY <1>1, FlowFacts DEF Flow, DiscoverIssuer
  <2> QED BY <2>1, Bound, FlowFacts DEF FlowBound
<1>5. PassOrRequire(b, "authorization_server", {login[b].issuer}, [login EXCEPT ![b] = l])
  BY <1>2 DEF DiscoverIssuer
<1>6. "authorization_server" \in Stage
  BY DEF Stage
<1> QED BY <1>3, <1>4, <1>5, <1>6, Bound, StageDone DEF DiscoverIssuer

(* The flow goes on to its next stage with what it has. *)
LEMMA FlowMoves ==
  ASSUME LoginInv, NEW b \in Beginner, NEW stage \in LoginAt, To(b, stage),
         FlowBound(b, [login[b] EXCEPT !.at = stage]),
         published' \in LoginPlan, strayed' = FALSE, unapproved' = FALSE,
         pendingPlan' \in [Stage -> Digests], pagePlan' \in Approval, StoredBound'
  PROVE  LoginInv'
<1>1. PICK l : l = [login[b] EXCEPT !.at = stage]
  OBVIOUS
<1>2. login' = [login EXCEPT ![b] = l]
  BY <1>1 DEF To
<1>3. l \in Flow
  BY <1>1, FlowFacts DEF Flow
<1> QED BY <1>1, <1>2, <1>3, FlowGoesOn

LEMMA FlowMoved ==
  ASSUME LoginInv, NEW b \in Beginner, NEW stage \in LoginAt
  PROVE  LET l == [login[b] EXCEPT !.at = stage]
         IN  /\ l.at = stage /\ l.token = login[b].token /\ l.read = login[b].read
             /\ l.plan = login[b].plan /\ l.client = login[b].client
             /\ l.approval = login[b].approval
  BY FlowFacts DEF Flow

(* validOAuthToken gave nothing: the flow ends, or begins again with what it had read. *)
LEMMA GivenUp ==
  ASSUME LoginInv, NEW b \in Beginner, GiveUpToken(b),
         published' = published, strayed' = FALSE, unapproved' = FALSE,
         pendingPlan' \in [Stage -> Digests], pagePlan' \in Approval, StoredBound'
  PROVE  LoginInv'
<1>1. CASE EndFlow(b)
  BY <1>1, FlowEnds
<1>2. CASE login' = [login EXCEPT ![b] = [IdleLogin EXCEPT !.at = "resource",
                          !.read = login[b].read, !.approval = login[b].approval]]
  <2>1. PICK l : l = [IdleLogin EXCEPT !.at = "resource", !.read = login[b].read,
                                       !.approval = login[b].approval]
    OBVIOUS
  <2>2. l = [at |-> "resource", token |-> FALSE, read |-> login[b].read, issuer |-> NoLogin,
             plan |-> NoLogin, client |-> NoLogin, approval |-> login[b].approval]
    BY <2>1 DEF IdleLogin
  <2>3. login[b].read \in Credentials /\ login[b].approval \in Approval /\ NoLogin \in Digests
    BY FlowFacts DEF Flow, Digests
  <2>4. l \in Flow
    BY <2>2, <2>3 DEF Flow, LoginAt
  <2>5. FlowBound(b, l)
    BY <2>2, FlowFacts DEF FlowBound
  <2>6. published' \in LoginPlan
    BY Bound
  <2> QED BY <1>2, <2>1, <2>4, <2>5, <2>6, FlowGoesOn
<1> QED BY <1>1, <1>2 DEF GiveUpToken

LEMMA ChangedDropped ==
  ASSUME LoginInv, NEW b \in Beginner,
         DropAccess(b) \/ DropChangedPlan(b) \/ DiscoveryFails(b)
  PROVE  LoginInv'
<1>1. CASE DropChangedPlan(b)
  <2>1. auth' = NoAuth /\ access' = access /\ Require(b, "oauth_endpoints", login[b].plan)
    BY <1>1 DEF DropChangedPlan
  <2>2. "oauth_endpoints" \in Stage
    BY DEF Stage
  <2>3. StoredBound'
    BY <2>1, Bound DEF NoAuth, Credentials, StoredBound
  <2> QED BY <1>1, <2>1, <2>2, <2>3, DigestsAre, Bound, Asked, FlowEnds DEF DropChangedPlan
<1>2. CASE DiscoveryFails(b)
  <2>1. CASE login[b].token
    BY <1>2, <2>1, Bound, GivenUp DEF DiscoveryFails
  <2>2. CASE ~login[b].token
    BY <1>2, <2>2, Bound, FlowEnds DEF DiscoveryFails
  <2> QED BY <2>1, <2>2
<1>3. CASE DropAccess(b)
  <2>1. "invalidating" \in LoginAt
    BY DEF LoginAt
  <2>2. FlowBound(b, [login[b] EXCEPT !.at = "invalidating"])
    BY <1>3, <2>1, FlowMoved, FlowFacts DEF DropAccess, FlowBound
  <2>3. StoredBound'
    BY <1>3, AccessDropped DEF DropAccess
  <2> QED BY <1>3, <2>1, <2>2, <2>3, Bound, FlowMoves DEF DropAccess
<1> QED BY <1>1, <1>2, <1>3

LEMMA EndpointsChecked ==
  ASSUME LoginInv, NEW b \in Beginner, CheckEndpoints(b) PROVE LoginInv'
<1>1. PICK l : l = [login[b] EXCEPT !.at = IF ReusesClient(b) THEN "window" ELSE "registering",
                                   !.client = login[b].read.client]
  OBVIOUS
<1>2. [login EXCEPT ![b] = l]
        = [login EXCEPT ![b].at = IF ReusesClient(b) THEN "window" ELSE "registering",
                        ![b].client = login[b].read.client]
  BY <1>1, FlowFacts
<1>3. l \in Flow
  BY <1>1, FlowFacts DEF Flow, LoginAt, Credentials
<1>4. ASSUME Passes(b, "oauth_endpoints", {EndpointOf[login[b].plan]}, DigestOf(b, "oauth_endpoints"))
      PROVE  FlowBound(b, l)
  <2>1. /\ l.at = IF ReusesClient(b) THEN "window" ELSE "registering"
        /\ l.read = login[b].read /\ l.plan = login[b].plan /\ l.client = login[b].read.client
        /\ l.approval = login[b].approval /\ l.token = login[b].token
        /\ login[b].at = "endpoints" /\ ~Changed(b)
    BY <1>1, FlowFacts DEF Flow, CheckEndpoints
  <2>2. l.approval.stage = "oauth_endpoints" => l.approval.digest = l.plan
    BY <1>4, <2>1 DEF Passes, ApprovalHolds, DigestOf
  <2>3. l.read.binding \in {NoLogin, l.plan} /\ l.plan \in LoginPlan
    BY <2>1, FlowFacts DEF FlowBound, Changed, SameBinding
  <2>4. l.at = "window" => l.client \in {l.plan, Configured}
    BY <2>1, FlowFacts DEF FlowBound, ReusesClient, SameBinding, UnboundClient
  <2> QED BY <2>1, <2>2, <2>3, <2>4, FlowFacts DEF FlowBound
<1>5. PassOrRequire(b, "oauth_endpoints", {EndpointOf[login[b].plan]}, [login EXCEPT ![b] = l])
  BY <1>2 DEF CheckEndpoints
<1>6. "oauth_endpoints" \in Stage
  BY DEF Stage
<1> QED BY <1>3, <1>4, <1>5, <1>6, Bound, StageDone DEF CheckEndpoints

LEMMA TokenUsed == ASSUME LoginInv, NEW b \in Beginner, UseToken(b) PROVE LoginInv'
<1>1. CASE EndFlow(b)
  BY <1>1, Bound, FlowEnds DEF UseToken
<1>2. CASE To(b, "refresh")
  <2>1. "refresh" \in LoginAt
    BY DEF LoginAt
  <2>2. login[b].read.binding = login[b].plan /\ login[b].plan \in LoginPlan
    BY FlowFacts DEF UseToken, FlowBound, Changed, SameBinding
  <2>3. FlowBound(b, [login[b] EXCEPT !.at = "refresh"])
    BY <2>1, <2>2, FlowMoved, FlowFacts DEF FlowBound
  <2> QED BY <1>2, <2>1, <2>3, Bound, FlowMoves DEF UseToken
<1>3. CASE GiveUpToken(b)
  BY <1>3, Bound, GivenUp DEF UseToken
<1> QED BY <1>1, <1>2, <1>3 DEF UseToken

LEMMA RefreshChecked == ASSUME LoginInv, NEW b \in Beginner, CheckRefresh(b) PROVE LoginInv'
<1>1. PICK l : l = [login[b] EXCEPT !.at = "refreshing", !.client = login[b].read.client]
  OBVIOUS
<1>2. [login EXCEPT ![b] = l]
        = [login EXCEPT ![b].at = "refreshing", ![b].client = login[b].read.client]
  BY <1>1, FlowFacts
<1>3. l \in Flow
  BY <1>1, FlowFacts DEF Flow, LoginAt, Credentials
<1>4. ASSUME Passes(b, "token_refresh", {EndpointOf[login[b].plan]}, DigestOf(b, "token_refresh"))
      PROVE  FlowBound(b, l)
  <2>1. /\ l.at = "refreshing" /\ l.read = login[b].read /\ l.plan = login[b].plan
        /\ l.client = login[b].read.client /\ l.approval = login[b].approval
        /\ l.token = login[b].token /\ login[b].at = "refresh"
    BY <1>1, FlowFacts DEF Flow, CheckRefresh
  <2>2. l.approval.stage = "token_refresh" => l.approval.digest = l.plan
    BY <1>4, <2>1 DEF Passes, ApprovalHolds, DigestOf
  <2> QED BY <2>1, <2>2, FlowFacts DEF FlowBound
<1>5. PassOrRequire(b, "token_refresh", {EndpointOf[login[b].plan]}, [login EXCEPT ![b] = l])
  BY <1>2 DEF CheckRefresh
<1>6. "token_refresh" \in Stage
  BY DEF Stage
<1> QED BY <1>3, <1>4, <1>5, <1>6, Bound, StageDone DEF CheckRefresh

LEMMA AskedAgain ==
  ASSUME LoginInv, NEW b \in Beginner, NEW s \in Stage, RequireAgain(b, s),
         published' = published, strayed' = FALSE, unapproved' = FALSE,
         UNCHANGED <<auth, access>>
  PROVE  LoginInv'
<1>1. Require(b, s, login[b].plan)
  BY DEF RequireAgain
<1> QED BY <1>1, DigestsAre, Asked, Bound, FlowEnds

LEMMA Registered == ASSUME LoginInv, NEW b \in Beginner, Register(b) PROVE LoginInv'
<1>1. "oauth_endpoints" \in Stage
  BY DEF Stage
<1>2. CASE login' = [login EXCEPT ![b].at = "window", ![b].client = login[b].plan]
             /\ UNCHANGED <<pendingPlan, pagePlan>>
  <2>1. PICK l : l = [login[b] EXCEPT !.at = "window", !.client = login[b].plan]
    OBVIOUS
  <2>2. login' = [login EXCEPT ![b] = l]
    BY <1>2, <2>1, FlowFacts
  <2>3. l \in Flow
    BY <2>1, FlowFacts DEF Flow, LoginAt
  <2>4. FlowBound(b, l)
    <3>1. /\ l.at = "window" /\ l.read = login[b].read /\ l.plan = login[b].plan
          /\ l.client = l.plan /\ l.approval = login[b].approval /\ l.token = login[b].token
          /\ login[b].at = "registering"
      BY <2>1, FlowFacts DEF Flow, Register
    <3> QED BY <3>1, FlowFacts DEF FlowBound
  <2> QED BY <1>2, <2>2, <2>3, <2>4, Bound, FlowGoesOn DEF Register
<1>3. CASE EndFlow(b) /\ UNCHANGED <<pendingPlan, pagePlan>>
  BY <1>3, Bound, FlowEnds DEF Register
<1>4. CASE RequireAgain(b, "oauth_endpoints")
  BY <1>1, <1>4, Bound, AskedAgain DEF Register
<1> QED BY <1>2, <1>3, <1>4 DEF Register, EndFlow

LEMMA WindowOpened == ASSUME LoginInv, NEW b \in Beginner, OpenWindow(b) PROVE LoginInv'
<1>1. strayed' = FALSE /\ unapproved' = FALSE
  BY FlowFacts, Bound DEF OpenWindow, FlowBound, AwayFromPlan, ApprovedElsewhere
<1>2. CASE EndFlow(b)
  BY <1>1, <1>2, Bound, FlowEnds DEF OpenWindow
<1>3. CASE To(b, "exchanging")
  <2>1. "exchanging" \in LoginAt
    BY DEF LoginAt
  <2>2. FlowBound(b, [login[b] EXCEPT !.at = "exchanging"])
    BY <2>1, FlowMoved, FlowFacts DEF FlowBound, OpenWindow
  <2> QED BY <1>1, <1>3, <2>1, <2>2, Bound, FlowMoves DEF OpenWindow
<1> QED BY <1>2, <1>3 DEF OpenWindow

LEMMA Exchanged == ASSUME LoginInv, NEW b \in Beginner, Exchange(b) PROVE LoginInv'
<1>1. "oauth_endpoints" \in Stage /\ "persisting" \in LoginAt
  BY DEF Stage, LoginAt
<1>2. CASE RequireAgain(b, "oauth_endpoints")
  BY <1>1, <1>2, Bound, AskedAgain DEF Exchange
<1>3. CASE EndFlow(b) /\ UNCHANGED <<pendingPlan, pagePlan>>
  BY <1>3, Bound, FlowEnds DEF Exchange
<1>4. CASE To(b, "persisting") /\ UNCHANGED <<pendingPlan, pagePlan>>
  <2>1. FlowBound(b, [login[b] EXCEPT !.at = "persisting"])
    BY <1>1, FlowMoved, FlowFacts DEF FlowBound, Exchange
  <2> QED BY <1>1, <1>4, <2>1, Bound, FlowMoves DEF Exchange
<1> QED BY <1>2, <1>3, <1>4 DEF Exchange

LEMMA Refreshed == ASSUME LoginInv, NEW b \in Beginner, Refresh(b) PROVE LoginInv'
<1>1. "token_refresh" \in Stage /\ "persisting" \in LoginAt
  BY DEF Stage, LoginAt
<1>2. strayed' = FALSE /\ unapproved' = FALSE
  BY FlowFacts, Bound DEF Refresh, FlowBound, AwayFromPlan, ApprovedElsewhere
<1>3. CASE RequireAgain(b, "token_refresh")
  BY <1>1, <1>2, <1>3, Bound, AskedAgain DEF Refresh
<1>4. CASE GiveUpToken(b) /\ UNCHANGED <<pendingPlan, pagePlan>>
  BY <1>2, <1>4, Bound, GivenUp DEF Refresh
<1>5. CASE To(b, "persisting") /\ UNCHANGED <<pendingPlan, pagePlan>>
  <2>1. FlowBound(b, [login[b] EXCEPT !.at = "persisting"])
    BY <1>1, FlowMoved, FlowFacts DEF FlowBound, Refresh
  <2> QED BY <1>1, <1>2, <1>5, <2>1, Bound, FlowMoves DEF Refresh
<1> QED BY <1>3, <1>4, <1>5 DEF Refresh

(* The writes: the old access token is deleted, the new one kept, the rest written. *)
LEMMA Persisted ==
  ASSUME LoginInv, NEW b \in Beginner, Persist(b) \/ StoreAccess(b) \/ SaveTokens(b)
  PROVE  LoginInv'
<1>1. {"storing", "saving"} \subseteq LoginAt
  BY DEF LoginAt
<1>2. CASE Persist(b)
  <2>1. StoredBound'
    BY <1>2, Bound, AccessDropped DEF Persist
  <2>2. FlowBound(b, [login[b] EXCEPT !.at = "storing"])
    BY <1>1, <1>2, FlowMoved, FlowFacts DEF FlowBound, Persist
  <2> QED BY <1>1, <1>2, <2>1, <2>2, Bound, FlowMoves DEF Persist
<1>3. CASE StoreAccess(b)
  <2>1. login[b].plan \in LoginPlan
    BY <1>3, FlowFacts DEF FlowBound, StoreAccess
  <2>2. StoredBound'
    BY <1>3, <2>1, AccessKept DEF StoreAccess
  <2>3. FlowBound(b, [login[b] EXCEPT !.at = "saving"])
    BY <1>1, <1>3, FlowMoved, FlowFacts DEF FlowBound, StoreAccess
  <2> QED BY <1>1, <1>3, <2>2, <2>3, Bound, FlowMoves DEF StoreAccess
<1>4. CASE SaveTokens(b)
  <2>1. login[b].client \in {login[b].plan, Configured} /\ login[b].plan \in LoginPlan
    BY <1>4, FlowFacts DEF FlowBound, SaveTokens
  <2>2. StoredBound'
    BY <1>4, <2>1, Bound DEF StoredBound, SaveTokens, Credentials
  <2> QED BY <1>4, <2>2, Bound, FlowEnds DEF SaveTokens
<1> QED BY <1>2, <1>3, <1>4

LEMMA LoginWorld ==
  ASSUME LoginInv, WorldChanges \/ StopWorker \/ \E s \in Stage : PlanExpires(s) PROVE LoginInv'
<1>1. UNCHANGED <<auth, access, pagePlan, strayed, unapproved>>
  BY DEF WorldChanges, StopWorker, PlanExpires
<1>2. published' \in LoginPlan /\ pendingPlan' \in [Stage -> Digests]
  BY Bound DEF WorldChanges, StopWorker, PlanExpires, Digests
<1>3. login' = login \/ login' = [b \in Beginner |-> IdleLogin]
  BY DEF WorldChanges, StopWorker, PlanExpires
<1>4. login' \in [Beginner -> Flow] /\ \A b \in Beginner : FlowBound(b, login'[b])
  BY <1>3, IdleIsFlow, LoginsAre DEF LoginInv
<1>5. LoginTypeOK'
  BY <1>1, <1>2, <1>4 DEF LoginInv, LoginTypeOK, Flow
<1> QED BY <1>1, <1>4, <1>5 DEF LoginInv, CredentialsBound

(* docs/en/development/mcp.md, resource, issuer, client and tokens remain bound            *)
(* (src/mcp/manager.ts runOAuthFlow, validOAuthToken, persistTokens): for any number of    *)
(* plans, issuers, flows, changes of what the servers publish and stops of the worker      *)
(* between two writes, what is stored locally belongs to one plan, an access token is kept *)
(* under the issuer it came from, no client or refresh token is used with a plan it is not *)
(* bound to, and an approved login or refresh goes where it was approved.                  *)
THEOREM CredentialsStayBound == LoginSpec => []CredentialsBound
<1>1. LoginInit => LoginInv
  <2> SUFFICES ASSUME LoginInit PROVE LoginInv
    OBVIOUS
  <2>1. /\ login = [b \in Beginner |-> IdleLogin] /\ pagePlan = NoApproval
        /\ auth \in {NoAuth, ConfiguredAuth} \cup {BoundAuth(p) : p \in LoginPlan}
        /\ access = [i \in Issuers |-> NoLogin] /\ pendingPlan = [s \in Stage |-> NoLogin] /\ published \in LoginPlan
        /\ strayed = FALSE /\ unapproved = FALSE
    BY DEF LoginInit
  <2>2. NoAuth \in Credentials /\ NoApproval \in Approval /\ NoLogin \in Digests
    BY DEF NoAuth, Credentials, NoApproval, Approval, Digests, Stage
  <2>3. login \in [Beginner -> Flow] /\ \A b \in Beginner : FlowBound(b, login[b])
    BY <2>1, IdleIsFlow
  <2>4. StoredBound
    BY <2>1 DEF StoredBound, NoAuth, ConfiguredAuth, BoundAuth, Credentials
  <2>5. LoginTypeOK
    BY <2>1, <2>2, <2>3, <2>4 DEF LoginTypeOK, Flow, StoredBound
  <2>6. CredentialsBound
    BY <2>1, <2>4 DEF CredentialsBound, StoredBound
  <2> QED BY <2>3, <2>5, <2>6 DEF LoginInv
<1>2. LoginInv /\ [LoginNext]_loginVars => LoginInv'
  <2> SUFFICES ASSUME LoginInv, [LoginNext]_loginVars PROVE LoginInv'
    OBVIOUS
  <2>1. CASE LoginNext
    BY <2>1, LoginWorld, FlowBegins, ResourceFound, IssuerFound, ChangedDropped,
       EndpointsChecked, TokenUsed, RefreshChecked, Registered, WindowOpened, Exchanged,
       Refreshed, Persisted DEF LoginNext
  <2>2. CASE UNCHANGED loginVars
    BY <2>2 DEF LoginInv, LoginTypeOK, CredentialsBound
  <2> QED BY <2>1, <2>2
<1>3. LoginInv => CredentialsBound
  BY DEF LoginInv
<1> QED BY <1>1, <1>2, <1>3, PTL DEF LoginSpec

(* ------------------------- calls on tabs ------------------------- *)

USE DEF toolVars

Window == [url : Spot, going : Spot, open : BOOLEAN]
At == {"idle", "asked", "approved", "checked", "sent", "loading", "reusing", "verify",
       "refused", "changed", "failed", "there", "reused", "done", "verified", "uncertain", "cut"}
Call == [tool : Tool \cup {"none"}, tab : ToolTab, page : Spot, site : Site \cup {Unloaded},
         before : Spot, effect : BOOLEAN, at : At]

TypedTools ==
  /\ window \in [ToolTab -> Window] /\ shown \in Opened /\ arrived \in BOOLEAN
  /\ actedOn \in Site \cup {Unloaded} /\ call \in Call /\ moves \in 0 .. MaxUserMoves

(* A tab that shows the page its call was sent to has come there since, because the call   *)
(* is dispatched only from another page.                                                   *)
Sent(c) == c.tool \in {"navigate", "tab_open"} /\ c.at \in {"sent", "loading", "verify"}
CallFollows(c, w, a, on) ==
  /\ c.tool \in {"navigate", "tab_open"} => c.page \in Page
  /\ c.at \in {"loading", "verify"} => c.tool \in {"navigate", "tab_open", "go_back", "press_key"}
  /\ c.at = "verify" => c.tool # "go_back"
  /\ c.at = "reusing" => c.tool = "tab_open"
  /\ Sent(c) /\ w[c.tab].url = c.page => a
  /\ c.at \in {"checked", "sent", "loading", "verify", "verified", "uncertain", "done"} =>
       c.tool = "tab_open" \/ on = c.site
  /\ c.at = "verified" => a

CallFollowed == CallFollows(call, window, arrived, actedOn)
ToolInv == TypedTools /\ CallFollowed

LEMMA TypedIs == TypedTools <=> ToolTypeOK
  BY DEF TypedTools, ToolTypeOK, Window, Call, At

LEMMA FollowedIs == CallFollowed => CallsAsShown
  BY DEF CallFollowed, CallFollows, CallsAsShown

LEMMA Tabs ==
  ASSUME ToolInv
  PROVE  /\ window \in [ToolTab -> Window] /\ call \in Call
         /\ call.tab \in ToolTab /\ shown \in ToolTab /\ window[shown].open
         /\ arrived \in BOOLEAN /\ CallFollowed /\ moves \in 0 .. MaxUserMoves
         /\ actedOn \in Site \cup {Unloaded}
  BY DEF ToolInv, TypedTools, Call, Opened

(* The browser moves on: one tab changes, and a call notices when it has come to its page. *)
LEMMA WorldMoves ==
  ASSUME ToolInv, NEW t \in ToolTab, NEW r \in Window, Moves([window EXCEPT ![t] = r]),
         r.url = window[t].url \/ r.url = Unloaded \/ r.url = window[t].going,
         shown' \in ToolTab, shown' # t => window[shown'].open, shown' = t => r.open,
         moves' \in 0 .. MaxUserMoves
  PROVE  ToolInv'
<1>1. /\ window' = [window EXCEPT ![t] = r] /\ call' = call /\ actedOn' = actedOn
      /\ arrived' = (arrived \/ /\ call.at \in {"sent", "loading", "verify"}
                                /\ window'[call.tab].url = call.page
                                /\ window[call.tab].url # call.page)
  BY DEF Moves
<1>2. window' \in [ToolTab -> Window] /\ arrived' \in BOOLEAN
  BY <1>1, Tabs
<1>3. shown' \in Opened'
  BY <1>1, Tabs DEF Opened
<1>4. TypedTools'
  BY <1>1, <1>2, <1>3, Tabs DEF TypedTools
<1>5. Sent(call) /\ window'[call.tab].url = call.page => arrived'
  BY <1>1, Tabs DEF CallFollowed, CallFollows, Sent
<1>6. arrived => arrived'
  BY <1>1
<1>7. CallFollowed'
  BY <1>1, <1>5, <1>6, Tabs DEF CallFollowed, CallFollows, Sent
<1> QED BY <1>4, <1>7 DEF ToolInv

LEMMA ToolWorld ==
  ASSUME ToolInv, NEW t \in ToolTab,
         Commits(t) \/ UserCloses(t) \/ UserShows(t) \/ \E p \in Page : GoesTo(t, p)
  PROVE  ToolInv'
<1>0. window[t] \in Window
  BY Tabs
<1>1. CASE Commits(t)
  <2>1. PICK r : r = [window[t] EXCEPT !.url = window[t].going, !.going = Unloaded]
    OBVIOUS
  <2>2. /\ r \in Window /\ r.url = window[t].going /\ r.open
        /\ window[t].open
    BY <1>0, <1>1, <2>1 DEF Window, Spot, Commits
  <2>3. Moves([window EXCEPT ![t] = r]) /\ shown' = shown /\ moves' = moves
    BY <1>1, <2>1, Tabs DEF Commits
  <2> QED BY <2>2, <2>3, Tabs, WorldMoves
<1>2. CASE UserCloses(t)
  <2>1. Closed \in Window /\ Closed.url = Unloaded
    BY DEF Closed, Window, Spot
  <2>2. shown' \in ToolTab /\ shown' # t /\ window[shown'].open
    BY <1>2, Tabs DEF UserCloses, Without, Opened
  <2>3. moves' \in 0 .. MaxUserMoves
    BY <1>2, Tabs, ToolAssumption DEF UserCloses
  <2> QED BY <1>2, <2>1, <2>2, <2>3, WorldMoves DEF UserCloses
<1>3. CASE UserShows(t)
  <2>1. moves' \in 0 .. MaxUserMoves
    BY <1>3, Tabs, ToolAssumption DEF UserShows
  <2>2. shown' \in Opened' /\ UNCHANGED <<window, call, arrived, actedOn>>
    BY <1>3 DEF UserShows, Opened
  <2>3. TypedTools'
    BY <2>1, <2>2, Tabs DEF TypedTools
  <2> QED BY <2>2, <2>3, Tabs DEF ToolInv, CallFollowed
<1>4. CASE \E p \in Page : GoesTo(t, p)
  <2>1. PICK p \in Page : GoesTo(t, p)
    BY <1>4
  <2>2. PICK r : r = [window[t] EXCEPT !.going = p]
    OBVIOUS
  <2>3. r \in Window /\ r.url = window[t].url /\ r.open = window[t].open
    BY <1>0, <2>2 DEF Window, Spot
  <2>4. Moves([window EXCEPT ![t] = r]) /\ shown' = shown
    BY <2>1, <2>2, Tabs DEF GoesTo, Start
  <2>5. moves' \in 0 .. MaxUserMoves
    BY <2>1, Tabs, ToolAssumption DEF GoesTo
  <2> QED BY <2>1, <2>3, <2>4, <2>5, Tabs, WorldMoves DEF GoesTo
<1> QED BY <1>1, <1>2, <1>3, <1>4

(* Steps that touch the call and nothing else. *)
LEMMA OnlyCall ==
  ASSUME ToolInv, Still, NEW c \in Call, call' = c, arrived' = arrived,
         actedOn' \in Site \cup {Unloaded}, CallFollows(c, window, arrived, actedOn')
  PROVE  ToolInv'
<1>1. TypedTools'
  BY Tabs DEF TypedTools, Still, Opened, ToolInv
<1> QED BY <1>1 DEF ToolInv, CallFollowed, Still

LEMMA CallGoes ==
  ASSUME ToolInv, NEW at \in At, Goes(at)
  PROVE  /\ call' \in Call /\ call'.at = at /\ call'.tool = call.tool /\ call'.tab = call.tab
         /\ call'.page = call.page /\ call'.site = call.site
  BY Tabs DEF Goes, Call

LEMMA CallEnds ==
  ASSUME ToolInv, NEW at \in At, NEW effect \in BOOLEAN, Ends(at, effect)
  PROVE  /\ call' \in Call /\ call'.at = at /\ call'.tool = call.tool /\ call'.tab = call.tab
         /\ call'.page = call.page /\ call'.site = call.site
  BY Tabs DEF Ends, Call

(* A call that ends: only a call that has acted was checked, and one is verified only       *)
(* when its tab has arrived.                                                               *)
LEMMA EndsWell ==
  ASSUME ToolInv, Still, arrived' = arrived, actedOn' = actedOn,
         NEW at \in {"refused", "changed", "failed", "there", "reused", "done", "verified",
                     "uncertain", "cut"},
         NEW effect \in BOOLEAN, Ends(at, effect),
         at \in {"done", "verified", "uncertain"} =>
           call.at \in {"checked", "sent", "loading", "verify"},
         at = "verified" => arrived
  PROVE  ToolInv'
<1>1. PICK c : c = call'
  OBVIOUS
<1>2. at \in At
  BY DEF At
<1>3. /\ c \in Call /\ c.at = at /\ c.tool = call.tool /\ c.tab = call.tab
      /\ c.page = call.page /\ c.site = call.site
  BY <1>1, <1>2, CallEnds
<1>4. CallFollows(c, window, arrived, actedOn)
  BY <1>3, Tabs DEF CallFollowed, CallFollows, Sent
<1>5. CallFollows(c, window, arrived, actedOn')
  BY <1>4
<1> QED BY <1>1, <1>3, <1>5, Tabs, OnlyCall

LEMMA CallGoesOn ==
  ASSUME ToolInv, Still, arrived' = arrived, NEW at \in At, Goes(at),
         actedOn' \in Site \cup {Unloaded},
         \A c \in Call :
           c.at = at /\ c.tool = call.tool /\ c.tab = call.tab /\ c.page = call.page
             /\ c.site = call.site
           => CallFollows(c, window, arrived, actedOn')
  PROVE  ToolInv'
<1>1. PICK c : c = call'
  OBVIOUS
<1>2. /\ c \in Call /\ c.at = at /\ c.tool = call.tool /\ c.tab = call.tab
      /\ c.page = call.page /\ c.site = call.site
  BY <1>1, CallGoes
<1> QED BY <1>1, <1>2, OnlyCall

(* Something is dispatched to a tab: it does not show the page it is sent to. *)
LEMMA Dispatches ==
  ASSUME ToolInv, NEW t \in ToolTab, NEW w \in [ToolTab -> Window], Sends(w, t), shown' = shown,
         w[shown].open, call.at = "checked", t = call.tab \/ call.tool = "tab_open",
         call.tool \in {"navigate", "tab_open"} => w[t].url # call.page
  PROVE  ToolInv'
<1>1. PICK c : c = call'
  OBVIOUS
<1>2. window[t].url \in Spot
  BY Tabs DEF Window
<1>3. /\ c \in Call /\ c.at = "sent" /\ c.tool = call.tool /\ c.tab = t
      /\ c.page = call.page /\ c.site = call.site
  BY <1>1, <1>2, Tabs DEF Sends, Call, At
<1>4. window' = w /\ actedOn' = actedOn /\ moves' = moves /\ arrived' = FALSE
  BY DEF Sends
<1>5. shown' \in Opened'
  BY <1>4, Tabs DEF Opened
<1>6. TypedTools'
  BY <1>1, <1>3, <1>4, <1>5, Tabs DEF TypedTools
<1>7. CallFollows(c, w, FALSE, actedOn)
  BY <1>3, Tabs DEF CallFollowed, CallFollows, Sent
<1>8. CallFollowed'
  BY <1>1, <1>4, <1>7 DEF CallFollowed
<1> QED BY <1>6, <1>8 DEF ToolInv

LEMMA Asking ==
  ASSUME ToolInv,
         \/ \E t \in ToolTab, p \in Page, tool \in Tool : Issue(tool, t, p)
         \/ Decide \/ FinalCheck \/ Gone
  PROVE  ToolInv'
<1>1. ASSUME NEW t \in ToolTab, NEW p \in Page, NEW tool \in Tool, Issue(tool, t, p)
      PROVE  ToolInv'
  <2>1. PICK c : c = call'
    OBVIOUS
  <2>2. Target(tool, t, p) \in Site \cup {Unloaded}
    BY Tabs DEF Target, SiteOn, Site, Window, Spot
  <2>3. (CHOOSE s \in ToolTab : TRUE) \in ToolTab
    OBVIOUS
  <2>4. /\ c.tool = tool /\ c.at = "asked"
        /\ c.page = IF tool \in {"navigate", "tab_open"} THEN p ELSE Unloaded
        /\ c \in Call
    BY <1>1, <2>1, <2>2, <2>3 DEF Issue, NoCall, Call, Spot, At
  <2>5. CallFollows(c, window, arrived, actedOn')
    BY <2>4 DEF CallFollows, Sent
  <2>6. Still /\ arrived' = arrived /\ actedOn' = actedOn
    BY <1>1 DEF Issue
  <2> QED BY <2>1, <2>4, <2>5, <2>6, Tabs, OnlyCall
<1>2. CASE Decide
  <2>1. Still /\ arrived' = arrived /\ actedOn' = actedOn /\ call.at = "asked"
    BY <1>2 DEF Decide
  <2>2. CASE Goes("approved")
    <3>1. "approved" \in At
      BY DEF At
    <3>2. ASSUME NEW c \in Call, c.at = "approved", c.tool = call.tool, c.tab = call.tab,
                 c.page = call.page, c.site = call.site
          PROVE  CallFollows(c, window, arrived, actedOn')
      BY <2>1, <3>2, Tabs DEF CallFollowed, CallFollows, Sent
    <3> QED BY <2>1, <2>2, <3>1, <3>2, Tabs, CallGoesOn
  <2>3. CASE Ends("refused", FALSE)
    BY <2>1, <2>3, EndsWell
  <2> QED BY <1>2, <2>2, <2>3 DEF Decide
<1>3. CASE FinalCheck
  <2>1. Still /\ arrived' = arrived /\ call.at = "approved"
    BY <1>3 DEF FinalCheck
  <2>2. CASE SameTarget /\ Goes("checked") /\ actedOn' = Target(call.tool, call.tab, call.page)
    <3>1. "checked" \in At
      BY DEF At
    <3>2. call.tool = "tab_open" \/ actedOn' = call.site
      BY <2>2 DEF SameTarget
    <3>3. ASSUME NEW c \in Call, c.at = "checked", c.tool = call.tool, c.tab = call.tab,
                 c.page = call.page, c.site = call.site
          PROVE  CallFollows(c, window, arrived, actedOn')
      BY <3>2, <3>3, Tabs DEF CallFollowed, CallFollows, Sent
    <3>4. actedOn' \in Site \cup {Unloaded}
      <4>1. call.tool \in {"navigate", "tab_open"} => call.page \in Page
        BY Tabs DEF CallFollowed, CallFollows
      <4>2. SiteOn(call.tab) \in Site \cup {Unloaded}
        BY Tabs DEF SiteOn, Site, Window, Spot
      <4> QED BY <2>2, <4>1, <4>2 DEF Target, Site
    <3> QED BY <2>1, <2>2, <3>1, <3>3, <3>4, CallGoesOn
  <2>3. CASE Ends("changed", FALSE) /\ UNCHANGED actedOn
    BY <2>1, <2>3, EndsWell
  <2> QED BY <1>3, <2>2, <2>3 DEF FinalCheck
<1>4. CASE Gone
  BY <1>4, EndsWell DEF Gone
<1> QED BY <1>1, <1>2, <1>3, <1>4
LEMMA Navigates == ASSUME ToolInv, Navigate PROVE ToolInv'
<1>1. call.at = "checked" /\ call.tool = "navigate" /\ call.page \in Page
  BY Tabs DEF Navigate, Ready, CallFollowed, CallFollows
<1>2. CASE /\ window[call.tab].url = call.page /\ Ends("there", FALSE)
           /\ UNCHANGED <<arrived, actedOn>> /\ Still
  BY <1>2, EndsWell
<1>3. CASE /\ window[call.tab].url # call.page
           /\ Sends(Start(window, call.tab, call.page), call.tab) /\ UNCHANGED shown
  <2>1. PICK w : w = Start(window, call.tab, call.page)
    OBVIOUS
  <2>2. /\ w \in [ToolTab -> Window] /\ w[call.tab].url = window[call.tab].url
        /\ w[shown].open
    BY <1>1, <2>1, Tabs DEF Start, Window, Spot
  <2> QED BY <1>1, <1>3, <2>1, <2>2, Tabs, Dispatches
<1> QED BY <1>2, <1>3 DEF Navigate

LEMMA OpensTab == ASSUME ToolInv, OpenTab PROVE ToolInv'
<1>1. call.at = "checked" /\ call.tool = "tab_open" /\ call.page \in Page
  BY Tabs DEF OpenTab, CallFollowed, CallFollows
<1>2. ASSUME NEW t \in Opened, call' = [call EXCEPT !.at = "reusing", !.tab = t],
             UNCHANGED <<arrived, actedOn>>, Still
      PROVE  ToolInv'
  <2>1. PICK c : c = call'
    OBVIOUS
  <2>2. c \in Call /\ c.at = "reusing" /\ c.tool = "tab_open" /\ c.page = call.page
    BY <1>1, <1>2, <2>1, Tabs DEF Call, At, Opened
  <2>3. CallFollows(c, window, arrived, actedOn')
    BY <1>1, <2>2 DEF CallFollows, Sent
  <2> QED BY <1>2, <2>1, <2>2, <2>3, Tabs, OnlyCall
<1>3. ASSUME NEW t \in ToolTab \ Opened, UNCHANGED shown,
             Sends([window EXCEPT ![t] = [Closed EXCEPT !.open = TRUE, !.going = call.page]], t)
      PROVE  ToolInv'
  <2>1. PICK w : w = [window EXCEPT ![t] = [Closed EXCEPT !.open = TRUE, !.going = call.page]]
    OBVIOUS
  <2>2. /\ w \in [ToolTab -> Window] /\ w[t].url = Unloaded /\ w[shown].open
    BY <1>1, <2>1, Tabs DEF Closed, Window, Spot
  <2>3. w[t].url # call.page
    BY <1>1, <2>2, ToolAssumption
  <2> QED BY <1>1, <1>3, <2>1, <2>2, <2>3, Dispatches
<1> QED BY <1>2, <1>3 DEF OpenTab

LEMMA Focuses == ASSUME ToolInv, FocusTab PROVE ToolInv'
<1>1. call.at = "checked"
  BY DEF FocusTab, Ready
<1>2. PICK c : c = call'
  OBVIOUS
<1>3. /\ "done" \in At /\ TRUE \in BOOLEAN
  BY DEF At
<1>4. /\ c \in Call /\ c.at = "done" /\ c.tool = call.tool /\ c.tab = call.tab
      /\ c.page = call.page /\ c.site = call.site
  BY <1>2, <1>3, CallEnds DEF FocusTab
<1>5. CallFollows(c, window, arrived, actedOn)
  BY <1>1, <1>4, Tabs DEF CallFollowed, CallFollows, Sent
<1>6. shown' \in Opened' /\ UNCHANGED <<window, arrived, actedOn, moves>>
  BY DEF FocusTab, Ready, Opened
<1>7. TypedTools'
  BY <1>2, <1>4, <1>6, Tabs DEF TypedTools
<1> QED BY <1>2, <1>5, <1>6, <1>7 DEF ToolInv, CallFollowed

LEMMA ClosesTab == ASSUME ToolInv, CloseTab PROVE ToolInv'
<1>1. call.at = "checked" /\ call.tool = "tab_close"
  BY DEF CloseTab, Ready
<1>2. PICK c : c = call'
  OBVIOUS
<1>3. "done" \in At /\ Closed \in Window
  BY DEF At, Closed, Window, Spot
<1>4. /\ c \in Call /\ c.at = "done" /\ c.tool = call.tool /\ c.site = call.site
  BY <1>2, <1>3, CallEnds DEF CloseTab
<1>5. /\ window' = [window EXCEPT ![call.tab] = Closed]
      /\ shown' # call.tab /\ shown' \in ToolTab /\ window[shown'].open
      /\ UNCHANGED <<arrived, actedOn, moves>>
  BY Tabs DEF CloseTab, Without, Opened
<1>6. CallFollows(c, window', arrived, actedOn)
  BY <1>1, <1>4, Tabs DEF CallFollowed, CallFollows, Sent
<1>7. shown' \in Opened' /\ window' \in [ToolTab -> Window]
  BY <1>3, <1>5, Tabs DEF Opened
<1>8. TypedTools'
  BY <1>2, <1>4, <1>5, <1>7, Tabs DEF TypedTools
<1> QED BY <1>2, <1>5, <1>6, <1>8 DEF ToolInv, CallFollowed

LEMMA ActsHere == ASSUME ToolInv, GoBack \/ ActsOnPage PROVE ToolInv'
<1>1. call.at = "checked" /\ call.tool \notin {"navigate", "tab_open"} /\ call.tab \in ToolTab
  BY Tabs DEF GoBack, ActsOnPage, Ready
<1>2. ASSUME NEW p \in Spot, Sends(Start(window, call.tab, p), call.tab), UNCHANGED shown
      PROVE  ToolInv'
  <2>1. PICK w : w = Start(window, call.tab, p)
    OBVIOUS
  <2>2. w \in [ToolTab -> Window] /\ w[shown].open
    BY <1>1, <2>1, Tabs DEF Start, Window, Spot
  <2> QED BY <1>1, <1>2, <2>1, <2>2, Dispatches
<1>3. Page \cup {window[call.tab].going} \subseteq Spot
  BY Tabs DEF Window, Spot
<1>4. CASE Ends("failed", FALSE) /\ UNCHANGED <<arrived, actedOn>> /\ Still
  BY <1>4, EndsWell
<1> QED BY <1>2, <1>3, <1>4 DEF GoBack, ActsOnPage

LEMMA Loads ==
  ASSUME ToolInv, call.at \in {"sent", "loading"}, NEW at \in {"loading", "verify"}, Goes(at),
         call.tool \in {"navigate", "tab_open", "go_back", "press_key"},
         at = "verify" => call.tool # "go_back",
         arrived' = arrived, actedOn' = actedOn, Still
  PROVE  ToolInv'
<1>1. at \in At
  BY DEF At
<1>2. ASSUME NEW c \in Call, c.at = at, c.tool = call.tool, c.tab = call.tab,
             c.page = call.page, c.site = call.site
      PROVE  CallFollows(c, window, arrived, actedOn')
  BY <1>2, Tabs DEF CallFollowed, CallFollows, Sent
<1> QED BY <1>1, <1>2, Tabs, CallGoesOn

LEMMA IsAnswered == ASSUME ToolInv, Answered PROVE ToolInv'
<1>1. call.at = "sent" /\ arrived' = arrived /\ actedOn' = actedOn /\ Still
  BY DEF Answered
<1>2. CASE Goes("loading") /\ call.tool \in {"navigate", "tab_open", "go_back", "press_key"}
  BY <1>1, <1>2, Loads
<1>3. CASE Ends("done", TRUE) \/ Ends("failed", FALSE)
  BY <1>1, <1>3, EndsWell
<1> QED BY <1>2, <1>3 DEF Answered

LEMMA IsLoaded == ASSUME ToolInv, Loaded PROVE ToolInv'
<1>1. arrived' = arrived /\ actedOn' = actedOn /\ Still
  BY DEF Loaded
<1>2. CASE call.at = "loading" /\ call.tool # "go_back" /\ Goes("verify")
  <2>1. call.tool \in {"navigate", "tab_open", "go_back", "press_key"}
    BY <1>2, Tabs DEF CallFollowed, CallFollows
  <2> QED BY <1>1, <1>2, <2>1, Loads
<1>3. CASE call.tool = "go_back" /\ Ends("done", TRUE)
  <2>1. call.at = "loading"
    BY <1>3, Tabs DEF Loaded, CallFollowed, CallFollows
  <2> QED BY <1>1, <1>3, <2>1, EndsWell
<1>4. CASE Ends("reused", FALSE)
  BY <1>1, <1>4, EndsWell
<1> QED BY <1>2, <1>3, <1>4 DEF Loaded

LEMMA IsVerified == ASSUME ToolInv, Verify \/ Cut PROVE ToolInv'
<1>1. arrived' = arrived /\ actedOn' = actedOn /\ Still
  BY DEF Verify, Cut
<1>2. CASE Verify
  <2>1. call.at = "verify"
    BY <1>2 DEF Verify
  <2>2. CASE Ends("failed", FALSE) \/ Ends("done", TRUE) \/ Ends("uncertain", TRUE)
    BY <1>1, <2>1, <2>2, EndsWell
  <2>3. CASE call.tool # "press_key" /\ CameThrough /\ Ends("verified", TRUE)
    <3>1. arrived
      BY <2>1, <2>3, Tabs DEF CallFollowed, CallFollows, Sent, CameThrough
    <3> QED BY <1>1, <2>1, <2>3, <3>1, EndsWell
  <2> QED BY <1>2, <2>2, <2>3 DEF Verify
<1>3. CASE Cut
  <2>1. Ends("cut", call.at = "sent") /\ (call.at = "sent") \in BOOLEAN
    BY <1>3 DEF Cut
  <2> QED BY <1>1, <2>1, EndsWell
<1> QED BY <1>2, <1>3

(* docs/en/development/browser-tools.md, the approval is not carried to another origin and *)
(* an effect is reported as it is known (src/tools/browserTools.ts createL0Tools,          *)
(* src/tools/gateway.ts resolveVerifiedDispatchTarget): for any number of tabs and pages,  *)
(* whatever the user and the pages do, a call acts only on the origin it was asked about,  *)
(* and a navigation is verified only when the tab came to that address after the dispatch. *)
THEOREM CallsAreAsShown == ToolSpec => []CallsAsShown
<1>1. ToolInit => ToolInv
  <2> SUFFICES ASSUME ToolInit PROVE ToolInv
    OBVIOUS
  <2>1. window \in [ToolTab -> Window]
    <3>1. Closed \in Window /\ [url : Page, going : {Unloaded}, open : {TRUE}] \subseteq Window
      BY DEF Closed, Window, Spot
    <3> QED BY <3>1 DEF ToolInit
  <2>2. /\ shown \in Opened /\ call = NoCall /\ arrived = FALSE /\ actedOn = Unloaded
        /\ moves \in 0 .. MaxUserMoves
    BY ToolAssumption DEF ToolInit
  <2>3. (CHOOSE s \in ToolTab : TRUE) \in ToolTab
    BY <2>2 DEF Opened
  <2>4. call \in Call /\ call.tool = "none" /\ call.at = "idle"
    BY <2>2, <2>3 DEF NoCall, Call, Spot, At
  <2> QED BY <2>1, <2>2, <2>4 DEF ToolInv, TypedTools, CallFollowed, CallFollows, Sent
<1>2. ToolInv /\ [ToolNext]_toolVars => ToolInv'
  <2> SUFFICES ASSUME ToolInv, [ToolNext]_toolVars PROVE ToolInv'
    OBVIOUS
  <2>1. CASE ToolNext
    BY <2>1, ToolWorld, Asking, Navigates, OpensTab, Focuses, ClosesTab, ActsHere, IsAnswered,
       IsLoaded, IsVerified DEF ToolNext
  <2>2. CASE UNCHANGED toolVars
    BY <2>2 DEF ToolInv, TypedTools, CallFollowed, Opened
  <2> QED BY <2>1, <2>2
<1>3. ToolInv => CallsAsShown
  BY FollowedIs DEF ToolInv
<1> QED BY <1>1, <1>2, <1>3, PTL DEF ToolSpec

(* ------------------------- attachments ------------------------- *)

USE DEF attachmentVars, tables, counts, Files, NoFile

RowType == [chat : Chat, deleting : BOOLEAN, refs : SUBSET Nat]
NodeType == [id : Nat, chat : Chat, file : Nat, evicted : BOOLEAN, late : BOOLEAN, linked : BOOLEAN]

Stores ==
  /\ stored \in Nat /\ written \in Nat
  /\ rows \in [Files -> RowType] /\ Files \subseteq 1 .. stored
  /\ active \in Seq(Chat) /\ uploading \in Chat \cup {NoChat}
  /\ messages \subseteq NodeType /\ waitingFor \subseteq NodeType

(* A message that links an attachment, and is neither marked nor late, is one of those its *)
(* row will mark.                                                                          *)
Holds(m) == /\ m.file \in Files /\ ~rows[m.file].deleting
            /\ m.id \in rows[m.file].refs /\ rows[m.file].chat = m.chat
Held == \A m \in messages : m.linked /\ ~m.late /\ ~m.evicted => Holds(m)

(* A steer waits in a thread that runs, and its row names it while there is one. *)
Steered ==
  \A m \in waitingFor :
    /\ m.linked /\ ~m.evicted /\ m.file <= stored /\ Live(m.chat)
    /\ m.file \in Files => m.id \in rows[m.file].refs /\ rows[m.file].chat = m.chat

(* What is about to be erased has been marked, and the sweep has rows of other threads. *)
Erasing(f) == f \in 0 .. stored /\ (f \in Files => rows[f].deleting)
Swept ==
  /\ Erasing(removing) /\ Erasing(sweep.file)
  /\ sweep \in [spared : Chat \cup {NoChat}, todo : SUBSET (1 .. stored), over : Int, file : Nat]
  /\ sweep.spared # NoChat =>
       \A f \in sweep.todo \cup {sweep.file} : f \in Files => rows[f].chat # sweep.spared

AttachmentInv == Stores /\ Held /\ Steered /\ Swept

LEMMA MarkedIs == AttachmentInv => GoneIsMarked
<1> SUFFICES ASSUME AttachmentInv PROVE GoneIsMarked
  OBVIOUS
<1>1. ASSUME NEW m \in messages, m.file \notin Files \/ rows[m.file].deleting
      PROVE  m.evicted \/ m.late \/ ~m.linked
  BY <1>1 DEF AttachmentInv, Held, Holds
<1>2. sweep.file \in Files /\ sweep.spared # NoChat => rows[sweep.file].chat # sweep.spared
  BY DEF AttachmentInv, Swept
<1> QED BY <1>1, <1>2 DEF GoneIsMarked

(* Rows keep their thread and stay marked, new ones have new numbers. *)
RowsFollow ==
  /\ rows' \in [Files' -> RowType] /\ Files' \subseteq 1 .. stored'
  /\ \A f \in Files' : f \in 1 .. stored =>
       /\ f \in Files /\ rows'[f].chat = rows[f].chat
       /\ rows[f].deleting => rows'[f].deleting
RefsFollow == \A f \in Files' : f \in 1 .. stored => rows[f].refs \subseteq rows'[f].refs

LEMMA SweptStays ==
  ASSUME AttachmentInv, RowsFollow, stored' \in Nat, stored <= stored', sweep' = sweep,
         removing' = removing
  PROVE  Swept'
<1>1. ASSUME NEW f \in 1 .. stored, f \in Files' PROVE f \in Files /\ rows'[f].chat = rows[f].chat
  BY <1>1 DEF RowsFollow
<1>2. ASSUME NEW f, Erasing(f)
      PROVE  f \in 0 .. stored' /\ (f \in Files' => rows'[f].deleting)
  BY <1>2 DEF RowsFollow, Erasing, AttachmentInv, Stores
<1>3. sweep \in [spared : Chat \cup {NoChat}, todo : SUBSET (1 .. stored'), over : Int, file : Nat]
  <2>1. 1 .. stored \subseteq 1 .. stored'
    BY DEF AttachmentInv, Stores
  <2>2. sweep \in [spared : Chat \cup {NoChat}, todo : SUBSET (1 .. stored), over : Int, file : Nat]
    BY DEF AttachmentInv, Swept
  <2> QED BY <2>1, <2>2
<1>4. ASSUME sweep.spared # NoChat, NEW f \in sweep.todo \cup {sweep.file}, f \in Files'
      PROVE  rows'[f].chat # sweep.spared
  <2>1. f \in 1 .. stored
    BY <1>4 DEF AttachmentInv, Swept, Erasing, Stores, RowsFollow
  <2>2. f \in Files /\ rows'[f].chat = rows[f].chat
    BY <1>1, <1>4, <2>1
  <2> QED BY <1>4, <2>2 DEF AttachmentInv, Swept
<1>5. Erasing(removing) /\ Erasing(sweep.file)
  BY DEF AttachmentInv, Swept
<1>6. Erasing(removing)' /\ Erasing(sweep.file)'
  BY <1>2, <1>5 DEF Erasing
<1> QED BY <1>3, <1>4, <1>6 DEF Swept

LEMMA SteersStay ==
  ASSUME AttachmentInv, RowsFollow, RefsFollow, stored' \in Nat, stored <= stored',
         waitingFor' \subseteq waitingFor, \A m \in waitingFor' : Live(m.chat)'
  PROVE  Steered'
<1> SUFFICES ASSUME NEW m \in waitingFor'
             PROVE  /\ m.linked /\ ~m.evicted /\ m.file <= stored' /\ Live(m.chat)'
                    /\ m.file \in Files' => m.id \in rows'[m.file].refs /\ rows'[m.file].chat = m.chat
  BY DEF Steered
<1>1. /\ m.linked /\ ~m.evicted /\ m.file <= stored /\ m.file \in Nat
      /\ m.file \in Files => m.id \in rows[m.file].refs /\ rows[m.file].chat = m.chat
  BY DEF AttachmentInv, Steered, Stores, NodeType
<1>2. m.file <= stored'
  BY <1>1 DEF AttachmentInv, Stores
<1>3. ASSUME m.file \in Files'
      PROVE  m.id \in rows'[m.file].refs /\ rows'[m.file].chat = m.chat
  <2>1. m.file \in 1 .. stored
    BY <1>1, <1>3 DEF RowsFollow, AttachmentInv, Stores
  <2>2. /\ m.file \in Files /\ rows'[m.file].chat = rows[m.file].chat
        /\ rows[m.file].refs \subseteq rows'[m.file].refs
    BY <1>3, <2>1 DEF RowsFollow, RefsFollow
  <2> QED BY <1>1, <2>2
<1> QED BY <1>1, <1>2, <1>3

(* Rows are erased: those of marked attachments, or a thread with its messages. *)
LEMMA Erases ==
  ASSUME AttachmentInv, NEW gone, rows' = RowsWithout(gone), stored' = stored
  PROVE  RowsFollow /\ RefsFollow /\ Files' = Files \ gone /\ \A f \in Files' : rows'[f] = rows[f]
  BY DEF RowsWithout, RowsFollow, RefsFollow, AttachmentInv, Stores

LEMMA LiveSame == ASSUME active' = active, NEW c PROVE Live(c)' <=> Live(c)
  BY DEF Live

LEMMA SteersLive ==
  ASSUME AttachmentInv, active' = active, waitingFor' \subseteq waitingFor
  PROVE  \A m \in waitingFor' : Live(m.chat)'
  BY LiveSame DEF AttachmentInv, Steered

LEMMA StoreKeeps ==
  ASSUME AttachmentInv, NEW c \in Chat, Store(c)
  PROVE  /\ RowsFollow /\ RefsFollow /\ stored' = stored + 1 /\ stored' \in Nat /\ stored <= stored'
         /\ Files \subseteq Files' /\ \A f \in Files : rows'[f] = rows[f]
<1>1. stored \in Nat /\ Files \subseteq 1 .. stored /\ rows \in [Files -> RowType]
  BY DEF AttachmentInv, Stores
<1>2. /\ stored' = stored + 1
      /\ rows' = [f \in Files \cup {stored + 1} |-> IF f \in Files THEN rows[f] ELSE Row(c)]
  BY DEF Store
<1>3. Row(c) \in RowType
  BY DEF Row, RowType
<1>4. Files' = Files \cup {stored + 1}
  BY <1>2
<1>5. rows' \in [Files' -> RowType]
  BY <1>1, <1>2, <1>3, <1>4
<1>6. Files' \subseteq 1 .. stored'
  BY <1>1, <1>2, <1>4
<1>7. \A f \in Files' : f \in 1 .. stored => f \in Files /\ rows'[f] = rows[f]
  BY <1>1, <1>2, <1>4
<1> QED BY <1>1, <1>2, <1>4, <1>5, <1>6, <1>7 DEF RowsFollow, RefsFollow

LEMMA Stored ==
  ASSUME AttachmentInv, AddUpload \/ \E c \in Chat : FindThread(c) \/ ToolSaves(c)
  PROVE  AttachmentInv'
<1>1. CASE AddUpload
  <2>1. uploading \in Chat /\ Store(uploading)
    BY <1>1 DEF AddUpload, AttachmentInv, Stores
  <2>2. /\ UNCHANGED <<active, messages, waitingFor, written, removing, sweep>>
        /\ uploading' = NoChat
    BY <1>1 DEF AddUpload
  <2>3. /\ RowsFollow /\ RefsFollow /\ stored' = stored + 1 /\ stored' \in Nat /\ stored <= stored'
        /\ Files \subseteq Files' /\ \A f \in Files : rows'[f] = rows[f]
    BY <2>1, StoreKeeps
  <2>4. Stores'
    BY <2>2, <2>3 DEF AttachmentInv, Stores, RowsFollow
  <2>5. Held'
    BY <2>2, <2>3 DEF AttachmentInv, Held, Holds
  <2> QED BY <2>2, <2>3, <2>4, <2>5, SweptStays, SteersStay, SteersLive DEF AttachmentInv
<1>2. ASSUME NEW c \in Chat, FindThread(c) PROVE AttachmentInv'
  BY <1>2 DEF FindThread, AttachmentInv, Stores, Held, Holds, Steered, Live, Swept, Erasing
<1>3. ASSUME NEW c \in Chat, ToolSaves(c) PROVE AttachmentInv'
  <2>1. Store(c) /\ UNCHANGED <<active, waitingFor, uploading, removing, sweep>>
    BY <1>3 DEF ToolSaves
  <2>2. PICK n : n = Message(c, stored + 1, FALSE, FALSE)
    OBVIOUS
  <2>3. /\ written' = written + 1 /\ messages' = messages \cup {n} /\ n \in NodeType /\ ~n.linked
    BY <1>3, <2>2 DEF ToolSaves, Message, NodeType, AttachmentInv, Stores
  <2>4. /\ RowsFollow /\ RefsFollow /\ stored' = stored + 1 /\ stored' \in Nat /\ stored <= stored'
        /\ Files \subseteq Files' /\ \A f \in Files : rows'[f] = rows[f]
    BY <2>1, StoreKeeps
  <2>5. Stores'
    BY <2>1, <2>3, <2>4 DEF AttachmentInv, Stores, RowsFollow
  <2>6. Held'
    BY <2>3, <2>4 DEF AttachmentInv, Held, Holds
  <2> QED BY <2>1, <2>4, <2>5, <2>6, SweptStays, SteersStay, SteersLive DEF AttachmentInv
<1> QED BY <1>1, <1>2, <1>3

(* The row that is linked names the new message as well. *)
LEMMA LinkKeeps ==
  ASSUME AttachmentInv, NEW c \in Chat, NEW f, Link(c, f), stored' = stored
  PROVE  /\ RowsFollow /\ RefsFollow /\ Files' = Files /\ f \in Files /\ rows[f].chat = c
         /\ written' = written + 1
         /\ \A g \in Files : rows'[g].deleting = rows[g].deleting /\ rows'[g].chat = rows[g].chat
         /\ written + 1 \in rows'[f].refs
<1>1. stored \in Nat /\ Files \subseteq 1 .. stored /\ rows \in [Files -> RowType] /\ written \in Nat
  BY DEF AttachmentInv, Stores
<1>2. f \in Files /\ rows[f].chat = c /\ written' = written + 1
  BY DEF Link
<1>3. PICK r : r = [rows[f] EXCEPT !.refs = rows[f].refs \cup {written + 1}]
  OBVIOUS
<1>4. rows' = [rows EXCEPT ![f] = r]
  BY <1>3 DEF Link, Linked
<1>5. /\ r \in RowType /\ r.chat = rows[f].chat /\ r.deleting = rows[f].deleting
      /\ r.refs = rows[f].refs \cup {written + 1}
  BY <1>1, <1>2, <1>3 DEF RowType
<1>6. Files' = Files /\ rows' \in [Files' -> RowType]
  BY <1>1, <1>4, <1>5
<1>7. \A g \in Files : /\ rows'[g].deleting = rows[g].deleting /\ rows'[g].chat = rows[g].chat
                       /\ rows[g].refs \subseteq rows'[g].refs
  BY <1>1, <1>4, <1>5
<1>8. rows'[f].refs = r.refs
  BY <1>1, <1>2, <1>4
<1> QED BY <1>1, <1>2, <1>5, <1>6, <1>7, <1>8 DEF RowsFollow, RefsFollow

LEMMA HeldFollows ==
  ASSUME AttachmentInv, RefsFollow, RowsFollow, NEW m \in messages,
         m.linked /\ ~m.late /\ ~m.evicted, m.file \in Files',
         rows'[m.file].deleting = rows[m.file].deleting
  PROVE  /\ ~rows'[m.file].deleting /\ m.id \in rows'[m.file].refs
         /\ rows'[m.file].chat = m.chat
  BY DEF AttachmentInv, Held, Holds, Stores, RefsFollow, RowsFollow

LEMMA Submits ==
  ASSUME AttachmentInv, NEW c \in Chat, NEW f \in File, Submit(c, f) PROVE AttachmentInv'
<1>1. PICK n : n = Message(c, f, rows[f].deleting, TRUE)
  OBVIOUS
<1>2. /\ Link(c, f) /\ stored' = stored /\ UNCHANGED <<waitingFor, uploading, removing, sweep>>
      /\ messages' = messages \cup {n} /\ active' = IF Live(c) THEN active ELSE Append(active, c)
  BY <1>1 DEF Submit
<1>3. /\ RowsFollow /\ RefsFollow /\ Files' = Files /\ f \in Files /\ rows[f].chat = c
      /\ written' = written + 1
      /\ \A g \in Files : rows'[g].deleting = rows[g].deleting /\ rows'[g].chat = rows[g].chat
      /\ written + 1 \in rows'[f].refs
  BY <1>2, LinkKeeps
<1>4. /\ n \in NodeType /\ n.file = f /\ n.chat = c /\ n.id = written + 1
      /\ n.late = rows[f].deleting
  <2>1. rows[f].deleting \in BOOLEAN /\ f \in Nat /\ written + 1 \in Nat
    BY <1>3 DEF AttachmentInv, Stores, RowType
  <2> QED BY <1>1, <2>1 DEF Message, NodeType
<1>5. active' \in Seq(Chat) /\ \A d : Live(d) => Live(d)'
  <2>1. active \in Seq(Chat)
    BY DEF AttachmentInv, Stores
  <2>2. CASE Live(c)
    BY <1>2, <2>1, <2>2 DEF Live
  <2>3. CASE ~Live(c)
    <3>1. active' = Append(active, c) /\ Append(active, c) \in Seq(Chat)
      BY <1>2, <2>1, <2>3
    <3>2. ASSUME NEW i \in DOMAIN active
          PROVE  i \in DOMAIN Append(active, c) /\ Append(active, c)[i] = active[i]
      BY <2>1
    <3> QED BY <3>1, <3>2 DEF Live
  <2> QED BY <2>2, <2>3
<1>6. Stores'
  <2>1. rows' \in [Files' -> RowType] /\ Files' \subseteq 1 .. stored'
    BY <1>3 DEF RowsFollow
  <2> QED BY <1>2, <1>3, <1>4, <1>5, <2>1 DEF AttachmentInv, Stores
<1>7. Held'
  <2> SUFFICES ASSUME NEW m \in messages', m.linked /\ ~m.late /\ ~m.evicted
               PROVE  /\ m.file \in Files' /\ ~rows'[m.file].deleting
                      /\ m.id \in rows'[m.file].refs /\ rows'[m.file].chat = m.chat
    BY DEF Held, Holds
  <2>1. CASE m \in messages
    <3>1. m.file \in Files
      BY <2>1 DEF AttachmentInv, Held, Holds
    <3> QED BY <1>3, <2>1, <3>1, HeldFollows
  <2>2. CASE m = n
    BY <1>3, <1>4, <2>2
  <2> QED BY <1>2, <2>1, <2>2
<1>8. stored' \in Nat /\ stored <= stored'
  BY <1>2 DEF AttachmentInv, Stores
<1>9. \A m \in waitingFor' : Live(m.chat)'
  BY <1>2, <1>5 DEF AttachmentInv, Steered
<1> QED BY <1>2, <1>3, <1>6, <1>7, <1>8, <1>9, SweptStays, SteersStay DEF AttachmentInv

LEMMA Steers ==
  ASSUME AttachmentInv, NEW c \in Chat, NEW f \in File, SteerWith(c, f) PROVE AttachmentInv'
<1>1. PICK n : n = Message(c, f, FALSE, TRUE)
  OBVIOUS
<1>2. /\ Link(c, f) /\ Live(c) /\ stored' = stored
      /\ UNCHANGED <<messages, active, uploading, removing, sweep>>
      /\ waitingFor' = waitingFor \cup {n}
  BY <1>1 DEF SteerWith
<1>3. /\ RowsFollow /\ RefsFollow /\ Files' = Files /\ f \in Files /\ rows[f].chat = c
      /\ written' = written + 1
      /\ \A g \in Files : rows'[g].deleting = rows[g].deleting /\ rows'[g].chat = rows[g].chat
      /\ written + 1 \in rows'[f].refs
  BY <1>2, LinkKeeps
<1>4. /\ n \in NodeType /\ n.file = f /\ n.chat = c /\ n.id = written + 1
      /\ n.linked /\ ~n.evicted
  <2>1. f \in Nat /\ written + 1 \in Nat
    BY <1>3 DEF AttachmentInv, Stores
  <2> QED BY <1>1, <2>1 DEF Message, NodeType
<1>5. Stores'
  <2>1. rows' \in [Files' -> RowType] /\ Files' \subseteq 1 .. stored'
    BY <1>3 DEF RowsFollow
  <2> QED BY <1>2, <1>3, <1>4, <2>1 DEF AttachmentInv, Stores
<1>6. Held'
  <2> SUFFICES ASSUME NEW m \in messages', m.linked /\ ~m.late /\ ~m.evicted
               PROVE  /\ m.file \in Files' /\ ~rows'[m.file].deleting
                      /\ m.id \in rows'[m.file].refs /\ rows'[m.file].chat = m.chat
    BY DEF Held, Holds
  <2>1. m \in messages /\ m.file \in Files
    BY <1>2 DEF AttachmentInv, Held, Holds
  <2> QED BY <1>3, <2>1, HeldFollows
<1>7. stored' \in Nat /\ stored <= stored'
  BY <1>2 DEF AttachmentInv, Stores
<1>8. ASSUME NEW m \in waitingFor'
      PROVE  /\ m.linked /\ ~m.evicted /\ m.file <= stored' /\ Live(m.chat)'
             /\ m.file \in Files' => m.id \in rows'[m.file].refs /\ rows'[m.file].chat = m.chat
  <2>1. CASE m = n
    <3>1. f \in 1 .. stored
      BY <1>3 DEF AttachmentInv, Stores
    <3> QED BY <1>2, <1>3, <1>4, <1>7, <2>1, <3>1, LiveSame
  <2>2. CASE m \in waitingFor
    <3>1. /\ m.linked /\ ~m.evicted /\ m.file <= stored /\ Live(m.chat)
          /\ m.file \in Files => m.id \in rows[m.file].refs /\ rows[m.file].chat = m.chat
      BY <2>2 DEF AttachmentInv, Steered
    <3>2. ASSUME m.file \in Files
          PROVE  rows[m.file].refs \subseteq rows'[m.file].refs /\ rows'[m.file].chat = rows[m.file].chat
      BY <1>3, <3>2 DEF RefsFollow, AttachmentInv, Stores
    <3> QED BY <1>2, <1>3, <3>1, <3>2, LiveSame
  <2> QED BY <1>2, <2>1, <2>2
<1>9. Steered'
  BY <1>8 DEF Steered
<1> QED BY <1>2, <1>3, <1>5, <1>6, <1>7, <1>9, SweptStays DEF AttachmentInv
(* Nothing happens to the rows. *)
LEMMA RowsStay ==
  ASSUME AttachmentInv, rows' = rows, stored' = stored
  PROVE  /\ RowsFollow /\ RefsFollow /\ stored' \in Nat /\ stored <= stored'
         /\ \A m : Holds(m)' <=> Holds(m)
  BY DEF AttachmentInv, Stores, RowsFollow, RefsFollow, Holds

LEMMA SteerWritten ==
  ASSUME AttachmentInv, NEW m \in waitingFor, WriteSteer(m) PROVE AttachmentInv'
<1>1. PICK late \in BOOLEAN : late <=> m.file \notin Files \/ rows[m.file].deleting
  OBVIOUS
<1>2. PICK n : n = [m EXCEPT !.late = late]
  OBVIOUS
<1>3. /\ UNCHANGED <<active, rows, stored, written, uploading, removing, sweep>>
      /\ waitingFor' \subseteq waitingFor
  BY DEF WriteSteer
<1>4. messages' = messages \cup {n}
  <2>1. CASE late
    <3>1. (m.file \notin Files \/ rows[m.file].deleting) = TRUE
      BY <1>1, <2>1
    <3> QED BY <1>2, <2>1, <3>1 DEF WriteSteer
  <2>2. CASE ~late
    <3>1. (m.file \notin Files \/ rows[m.file].deleting) = FALSE
      BY <1>1, <2>2
    <3> QED BY <1>2, <2>2, <3>1 DEF WriteSteer
  <2> QED BY <2>1, <2>2
<1>5. /\ n \in NodeType /\ n.late = late /\ n.file = m.file /\ n.chat = m.chat /\ n.id = m.id
  <2>1. m \in NodeType
    BY DEF AttachmentInv, Stores
  <2> QED BY <1>2, <2>1 DEF NodeType
<1>6. Stores'
  BY <1>3, <1>4, <1>5 DEF AttachmentInv, Stores
<1>7. ~n.late => Holds(n)
  BY <1>1, <1>5 DEF AttachmentInv, Steered, Holds
<1>8. Held'
  BY <1>3, <1>4, <1>7, RowsStay DEF AttachmentInv, Held
<1> QED BY <1>3, <1>6, <1>8, RowsStay, SteersLive, SweptStays, SteersStay DEF AttachmentInv

LEMMA AfterFirst ==
  ASSUME NEW S, NEW s \in Seq(S), NEW t \in Seq(S), NEW k \in 1 .. Len(s) + Len(t), k > Len(s)
  PROVE  (s \o t)[k] = t[k - Len(s)]
<1>1. (s \o t)[k] = IF k <= Len(s) THEN s[k] ELSE t[k - Len(s)]
  BY ConcatProperties
<1>2. Len(s) \in Nat /\ Len(t) \in Nat
  OBVIOUS
<1> QED BY <1>1, <1>2

LEMMA TurnEnds == ASSUME AttachmentInv, NEW c \in Chat, EndTurn(c) PROVE AttachmentInv'
<1>1. PICK i \in DOMAIN active :
        active[i] = c /\ active' = SubSeq(active, 1, i - 1) \o SubSeq(active, i + 1, Len(active))
  BY DEF EndTurn
<1>2. /\ UNCHANGED <<rows, messages, stored, written, uploading, removing, sweep>>
      /\ waitingFor' = {m \in waitingFor : m.chat # c}
  BY DEF EndTurn
<1>3. active \in Seq(Chat) /\ i \in 1 .. Len(active) /\ Len(active) \in Nat
  BY <1>1 DEF AttachmentInv, Stores
<1>4. PICK s, t : s = SubSeq(active, 1, i - 1) /\ t = SubSeq(active, i + 1, Len(active))
  OBVIOUS
<1>5. /\ s \in Seq(Chat) /\ Len(s) = i - 1 /\ \A j \in 1 .. i - 1 : s[j] = active[j]
  BY <1>3, <1>4
<1>6. /\ t \in Seq(Chat) /\ Len(t) = Len(active) - i
      /\ \A j \in 1 .. Len(active) - i : t[j] = active[j + i]
  BY <1>3, <1>4
<1>7. active' = s \o t /\ active' \in Seq(Chat) /\ Len(active') = Len(active) - 1
  <2>1. active' = s \o t
    BY <1>1, <1>4
  <2>2. s \o t \in Seq(Chat) /\ Len(s \o t) = Len(s) + Len(t)
    BY <1>5, <1>6, ConcatProperties
  <2> QED BY <1>3, <1>5, <1>6, <2>1, <2>2
<1>8. ASSUME NEW d, Live(d), d # c PROVE Live(d)'
  <2>1. PICK j \in 1 .. Len(active) : active[j] = d
    BY <1>3, <1>8 DEF Live
  <2>2. CASE j < i
    <3>1. j \in 1 .. Len(s) /\ (s \o t)[j] = s[j] /\ s[j] = d
      BY <1>3, <1>5, <1>6, <2>1, <2>2
    <3>2. j \in DOMAIN active'
      BY <1>3, <1>5, <1>7, <3>1
    <3> QED BY <1>7, <3>1, <3>2 DEF Live
  <2>3. CASE j > i
    <3>1. /\ j - i \in 1 .. Len(t) /\ t[j - i] = active[j] /\ Len(s) + (j - i) = j - 1
      BY <1>3, <1>5, <1>6, <2>1, <2>3
    <3>2. (s \o t)[j - 1] = d /\ j - 1 \in DOMAIN active'
      <4>1. (s \o t)[j - 1] = t[j - i]
        <5>1. /\ j - 1 \in 1 .. Len(s) + Len(t) /\ j - 1 > Len(s)
              /\ (j - 1) - Len(s) = j - i
          BY <1>3, <1>5, <1>6, <2>3
        <5>2. (s \o t)[j - 1] = t[(j - 1) - Len(s)]
          BY <1>5, <1>6, <5>1, AfterFirst
        <5> QED BY <5>1, <5>2
      <4> QED BY <1>3, <1>7, <2>1, <2>3, <3>1, <4>1
    <3> QED BY <1>7, <3>2 DEF Live
  <2>4. j # i
    BY <1>1, <1>8, <2>1
  <2> QED BY <1>3, <2>1, <2>2, <2>3, <2>4
<1>9. \A m \in waitingFor' : Live(m.chat)'
  BY <1>2, <1>8 DEF AttachmentInv, Steered
<1>10. Stores' /\ Held'
  BY <1>2, <1>7, RowsStay DEF AttachmentInv, Stores, Held
<1> QED BY <1>2, <1>9, <1>10, RowsStay, SweptStays, SteersStay DEF AttachmentInv

(* A row is marked, and with it every message it names. *)
LEMMA MarkKeeps ==
  ASSUME AttachmentInv, NEW f \in Files, Marks(f), stored' = stored, written' = written,
         UNCHANGED <<active, waitingFor, uploading>>
  PROVE  /\ RowsFollow /\ RefsFollow /\ Stores' /\ Held' /\ Steered'
         /\ Files' = Files /\ rows'[f].deleting
         /\ \A g \in Files : rows'[g].chat = rows[g].chat
<1>1. stored \in Nat /\ Files \subseteq 1 .. stored /\ rows \in [Files -> RowType]
      /\ messages \subseteq NodeType
  BY DEF AttachmentInv, Stores
<1>2. PICK r : r = [rows[f] EXCEPT !.deleting = TRUE]
  OBVIOUS
<1>3. r \in RowType /\ r.chat = rows[f].chat /\ r.refs = rows[f].refs /\ r.deleting
  BY <1>1, <1>2 DEF RowType
<1>4. rows' = [rows EXCEPT ![f] = r]
  BY <1>2 DEF Marks
<1>5. Files' = Files /\ rows' \in [Files' -> RowType] /\ rows'[f] = r
  BY <1>1, <1>3, <1>4
<1>6. \A g \in Files : /\ rows'[g].chat = rows[g].chat /\ rows'[g].refs = rows[g].refs
                       /\ g # f => rows'[g] = rows[g]
  BY <1>1, <1>3, <1>4
<1>7. RowsFollow /\ RefsFollow
  BY <1>1, <1>3, <1>5, <1>6 DEF RowsFollow, RefsFollow
<1>8. \A n \in messages' : \E m \in messages :
        IF m.id \in rows[f].refs THEN n = [m EXCEPT !.evicted = TRUE] ELSE n = m
  BY DEF Marks
<1>9. ASSUME NEW n \in messages'
      PROVE  n \in NodeType /\ (n.evicted \/ (n \in messages /\ n.id \notin rows[f].refs))
  <2>1. PICK m \in messages :
          IF m.id \in rows[f].refs THEN n = [m EXCEPT !.evicted = TRUE] ELSE n = m
    BY <1>8
  <2>2. m \in NodeType
    BY <1>1
  <2>3. CASE m.id \in rows[f].refs
    <3>1. n = [m EXCEPT !.evicted = TRUE]
      BY <2>1, <2>3
    <3>2. n \in NodeType
      BY <2>2, <3>1 DEF NodeType
    <3>3. n.evicted
      BY <2>2, <3>1 DEF NodeType
    <3> QED BY <3>2, <3>3
  <2>4. CASE m.id \notin rows[f].refs
    BY <2>1, <2>2, <2>4
  <2> QED BY <2>3, <2>4
<1>10. Stores'
  BY <1>1, <1>5, <1>7, <1>9 DEF AttachmentInv, Stores, RowsFollow
<1>11. ASSUME NEW n \in messages', n.linked /\ ~n.late /\ ~n.evicted
       PROVE  /\ n.file \in Files' /\ ~rows'[n.file].deleting
              /\ n.id \in rows'[n.file].refs /\ rows'[n.file].chat = n.chat
  <2>1. n \in messages /\ n.id \notin rows[f].refs
    BY <1>9, <1>11
  <2>2. /\ n.file \in Files /\ ~rows[n.file].deleting
        /\ n.id \in rows[n.file].refs /\ rows[n.file].chat = n.chat
    BY <1>11, <2>1 DEF AttachmentInv, Held, Holds
  <2>3. n.file # f
    BY <2>1, <2>2
  <2> QED BY <1>5, <1>6, <2>2, <2>3
<1>12. Held'
  BY <1>11 DEF Held, Holds
<1>13. stored' \in Nat /\ stored <= stored'
  BY <1>1
<1> QED BY <1>3, <1>5, <1>6, <1>7, <1>10, <1>12, <1>13, SteersLive, SteersStay

LEMMA UserMarks == ASSUME AttachmentInv, NEW f \in File, RemoveByUser(f) PROVE AttachmentInv'
<1>1. /\ f \in Files /\ Marks(f) /\ removing' = f /\ sweep' = sweep
      /\ stored' = stored /\ written' = written /\ UNCHANGED <<active, waitingFor, uploading>>
  BY DEF RemoveByUser
<1>2. /\ RowsFollow /\ Stores' /\ Held' /\ Steered' /\ Files' = Files /\ rows'[f].deleting
      /\ \A g \in Files : rows'[g].chat = rows[g].chat
  BY <1>1, MarkKeeps
<1>3. Erasing(removing)'
  BY <1>1, <1>2 DEF Erasing, AttachmentInv, Stores
<1>4. Erasing(sweep.file)'
  BY <1>1, <1>2 DEF Erasing, AttachmentInv, Swept, RowsFollow, Stores
<1>5. Swept'
  BY <1>1, <1>2, <1>3, <1>4 DEF Swept, AttachmentInv
<1> QED BY <1>2, <1>5 DEF AttachmentInv
SweepType == [spared : Chat \cup {NoChat}, todo : SUBSET (1 .. stored), over : Int, file : Nat]

LEMMA SweepMarks == ASSUME AttachmentInv, SweepNext PROVE AttachmentInv'
<1>1. PICK f \in sweep.todo :
        LET rest == [sweep EXCEPT !.todo = @ \ {f}, !.over = @ - 1]
        IN \/ f \in Files /\ Marks(f) /\ sweep' = [rest EXCEPT !.file = f]
           \/ f \notin Files /\ UNCHANGED tables /\ sweep' = rest
  BY DEF SweepNext
<1>2. /\ UNCHANGED <<active, stored, written, waitingFor, uploading, removing>>
  BY DEF SweepNext
<1>3. /\ sweep \in SweepType /\ stored \in Nat /\ f \in 1 .. stored
      /\ sweep.spared # NoChat =>
           \A g \in sweep.todo \cup {sweep.file} : g \in Files => rows[g].chat # sweep.spared
  BY <1>1 DEF AttachmentInv, Swept, Stores, SweepType
<1>4. PICK rest : rest = [sweep EXCEPT !.todo = @ \ {f}, !.over = @ - 1]
  OBVIOUS
<1>5. /\ rest \in SweepType /\ rest.spared = sweep.spared /\ rest.file = sweep.file
      /\ rest.todo = sweep.todo \ {f}
  <2>1. /\ sweep.todo \ {f} \in SUBSET (1 .. stored) /\ sweep.over - 1 \in Int
    BY <1>3 DEF SweepType
  <2>2. rest = [sweep EXCEPT !.todo = sweep.todo \ {f}, !.over = sweep.over - 1]
    BY <1>4
  <2>3. rest \in SweepType
    BY <1>3, <2>1, <2>2 DEF SweepType
  <2> QED BY <1>3, <2>2, <2>3 DEF SweepType
<1>6. CASE f \in Files /\ Marks(f) /\ sweep' = [rest EXCEPT !.file = f]
  <2>1. /\ RowsFollow /\ Stores' /\ Held' /\ Steered' /\ Files' = Files /\ rows'[f].deleting
        /\ \A g \in Files : rows'[g].chat = rows[g].chat
    BY <1>2, <1>6, MarkKeeps
  <2>2. PICK s : s = [rest EXCEPT !.file = f]
    OBVIOUS
  <2>3. /\ s \in SweepType /\ s.spared = sweep.spared /\ s.file = f /\ s.todo \subseteq sweep.todo
    BY <1>3, <1>5, <2>2 DEF SweepType
  <2>4. sweep' = s
    BY <1>6, <2>2
  <2>5. Erasing(removing)'
    BY <1>2, <2>1 DEF Erasing, AttachmentInv, Swept, RowsFollow, Stores
  <2>6. Erasing(sweep.file)'
    BY <1>2, <1>3, <2>1, <2>3, <2>4 DEF Erasing
  <2>7. ASSUME s.spared # NoChat, NEW g \in s.todo \cup {s.file}, g \in Files'
        PROVE  rows'[g].chat # s.spared
    <3>1. g \in sweep.todo /\ g \in Files
      BY <1>1, <2>1, <2>3, <2>7
    <3> QED BY <1>3, <2>1, <2>3, <2>7, <3>1
  <2>8. sweep' \in SweepType'
    BY <1>2, <2>3, <2>4 DEF SweepType
  <2>9. Swept'
    BY <2>4, <2>5, <2>6, <2>7, <2>8 DEF Swept, SweepType
  <2> QED BY <2>1, <2>9 DEF AttachmentInv
<1>7. CASE f \notin Files /\ UNCHANGED tables /\ sweep' = rest
  <2>1. rows' = rows /\ messages' = messages /\ sweep' = rest
    BY <1>7
  <2>2. Stores' /\ Held'
    BY <1>2, <2>1, RowsStay DEF AttachmentInv, Stores, Held
  <2>3. Erasing(removing)' /\ Erasing(sweep.file)'
    BY <1>2, <1>5, <2>1 DEF AttachmentInv, Swept, Erasing
  <2>4. ASSUME rest.spared # NoChat, NEW g \in rest.todo \cup {rest.file}, g \in Files
        PROVE  rows[g].chat # rest.spared
    BY <1>3, <1>5, <2>4
  <2>5. rest \in SweepType'
    BY <1>2, <1>5 DEF SweepType
  <2>6. Swept'
    BY <2>1, <2>3, <2>4, <2>5 DEF Swept, SweepType
  <2> QED BY <1>2, <2>1, <2>2, <2>6, RowsStay, SteersLive, SteersStay DEF AttachmentInv
<1> QED BY <1>1, <1>4, <1>6, <1>7

(* Marked rows go: no message rests on one. *)
LEMMA MarkedGo ==
  ASSUME AttachmentInv, NEW gone, \A f \in gone : f \in Files => rows[f].deleting,
         rows' = RowsWithout(gone), messages' = messages, stored' = stored, written' = written,
         UNCHANGED <<active, waitingFor, uploading>>
  PROVE  Stores' /\ Held' /\ Steered' /\ RowsFollow
<1>1. RowsFollow /\ RefsFollow /\ Files' = Files \ gone /\ \A f \in Files' : rows'[f] = rows[f]
  BY Erases
<1>2. Stores'
  BY <1>1 DEF AttachmentInv, Stores, RowsFollow
<1>3. Held'
  <2> SUFFICES ASSUME NEW m \in messages, m.linked /\ ~m.late /\ ~m.evicted
               PROVE  /\ m.file \in Files' /\ ~rows'[m.file].deleting
                      /\ m.id \in rows'[m.file].refs /\ rows'[m.file].chat = m.chat
    BY DEF Held, Holds
  <2>1. Holds(m)
    BY DEF AttachmentInv, Held
  <2>2. m.file \in Files'
    BY <1>1, <2>1 DEF Holds
  <2> QED BY <1>1, <2>1, <2>2 DEF Holds
<1>4. stored' \in Nat /\ stored <= stored'
  BY DEF AttachmentInv, Stores
<1> QED BY <1>1, <1>2, <1>3, <1>4, SteersLive, SteersStay

LEMMA Erased ==
  ASSUME AttachmentInv, EraseByUser \/ SweepErase \/ Cleanup
  PROVE  AttachmentInv'
<1>0. stored \in Nat /\ Files \subseteq 1 .. stored
  BY DEF AttachmentInv, Stores
<1>1. CASE EraseByUser
  <2>1. /\ rows' = RowsWithout({removing}) /\ messages' = messages /\ stored' = stored
        /\ written' = written /\ UNCHANGED <<active, waitingFor, uploading, sweep>>
        /\ removing' = 0
    BY <1>1 DEF EraseByUser
  <2>2. \A f \in {removing} : f \in Files => rows[f].deleting
    BY DEF AttachmentInv, Swept, Erasing
  <2>3. Stores' /\ Held' /\ Steered' /\ RowsFollow
    BY <2>1, <2>2, MarkedGo
  <2>4. Files' \subseteq Files /\ \A f \in Files' : rows'[f] = rows[f]
    BY <2>1, Erases
  <2>5. Swept'
    BY <1>0, <2>1, <2>4 DEF AttachmentInv, Swept, Erasing
  <2> QED BY <2>3, <2>5 DEF AttachmentInv
<1>2. CASE SweepErase
  <2>1. /\ rows' = RowsWithout({sweep.file}) /\ messages' = messages /\ stored' = stored
        /\ written' = written /\ UNCHANGED <<active, waitingFor, uploading, removing>>
        /\ sweep' = [sweep EXCEPT !.file = 0]
    BY <1>2 DEF SweepErase
  <2>2. \A f \in {sweep.file} : f \in Files => rows[f].deleting
    BY DEF AttachmentInv, Swept, Erasing
  <2>3. Stores' /\ Held' /\ Steered' /\ RowsFollow
    BY <2>1, <2>2, MarkedGo
  <2>4. Files' \subseteq Files /\ \A f \in Files' : rows'[f] = rows[f]
    BY <2>1, Erases
  <2>5. /\ sweep' \in SweepType /\ sweep'.spared = sweep.spared /\ sweep'.todo = sweep.todo
        /\ sweep'.file = 0
    BY <2>1 DEF AttachmentInv, Swept, SweepType
  <2>6. Erasing(removing)' /\ Erasing(sweep.file)'
    BY <1>0, <2>1, <2>4, <2>5 DEF AttachmentInv, Swept, Erasing
  <2>7. sweep'.spared # NoChat =>
          \A f \in sweep'.todo \cup {sweep'.file} : f \in Files' => rows'[f].chat # sweep'.spared
    BY <1>0, <2>4, <2>5 DEF AttachmentInv, Swept
  <2>8. Swept'
    BY <2>1, <2>5, <2>6, <2>7 DEF Swept, SweepType
  <2> QED BY <2>3, <2>8 DEF AttachmentInv
<1>3. CASE Cleanup
  <2>1. PICK gone : gone = {f \in Files : rows[f].deleting}
    OBVIOUS
  <2>2. /\ rows' = RowsWithout(gone) /\ messages' = messages /\ stored' = stored
        /\ written' = written /\ UNCHANGED <<active, waitingFor, uploading>>
        /\ removing' = removing /\ sweep' = sweep
    BY <1>3, <2>1 DEF Cleanup
  <2>3. Stores' /\ Held' /\ Steered' /\ RowsFollow
    BY <2>1, <2>2, MarkedGo
  <2> QED BY <1>0, <2>2, <2>3, SweptStays DEF AttachmentInv
<1> QED BY <1>1, <1>2, <1>3

(* A thread goes with its messages: what is left of them is in the rows of other threads. *)
LEMMA ThreadGoes == ASSUME AttachmentInv, NEW c \in Chat, DeleteThread(c) PROVE AttachmentInv'
<1>1. PICK gone : gone = {f \in Files : rows[f].chat = c}
  OBVIOUS
<1>2. /\ rows' = RowsWithout(gone) /\ messages' = {m \in messages : m.chat # c}
      /\ stored' = stored /\ written' = written
      /\ UNCHANGED <<active, waitingFor, uploading, removing, sweep>>
  BY <1>1 DEF DeleteThread
<1>3. RowsFollow /\ RefsFollow /\ Files' = Files \ gone /\ \A f \in Files' : rows'[f] = rows[f]
  BY <1>2, Erases
<1>4. Stores'
  BY <1>2, <1>3 DEF AttachmentInv, Stores, RowsFollow
<1>5. Held'
  <2> SUFFICES ASSUME NEW m \in messages', m.linked /\ ~m.late /\ ~m.evicted
               PROVE  /\ m.file \in Files' /\ ~rows'[m.file].deleting
                      /\ m.id \in rows'[m.file].refs /\ rows'[m.file].chat = m.chat
    BY DEF Held, Holds
  <2>1. Holds(m) /\ m.chat # c
    BY <1>2 DEF AttachmentInv, Held
  <2>2. m.file \in Files'
    BY <1>1, <1>3, <2>1 DEF Holds
  <2> QED BY <1>3, <2>1, <2>2 DEF Holds
<1>6. stored' \in Nat /\ stored <= stored'
  BY <1>2 DEF AttachmentInv, Stores
<1> QED BY <1>2, <1>3, <1>4, <1>5, <1>6, SteersLive, SteersStay, SweptStays DEF AttachmentInv

Spared(s) ==
  s.spared # NoChat => \A f \in s.todo \cup {s.file} : f \in Files => rows[f].chat # s.spared

(* The sweep is named, reads its list and ends; a page or the document goes. *)
LEMMA SweepTurns ==
  ASSUME AttachmentInv, Alarm \/ ReadList \/ SweepEnds \/ PageCloses \/ DocumentDies
  PROVE  AttachmentInv'
<1>1. /\ rows' = rows /\ messages' = messages /\ stored' = stored /\ written' = written
      /\ UNCHANGED <<active, waitingFor>>
      /\ uploading' \in {uploading, NoChat} /\ removing' \in {removing, 0}
  BY DEF Alarm, ReadList, SweepEnds, PageCloses, DocumentDies
<1>2. Stores' /\ Held'
  BY <1>1, RowsStay DEF AttachmentInv, Stores, Held
<1>3. stored \in Nat /\ Files \subseteq 1 .. stored /\ rows \in [Files -> RowType]
      /\ active \in Seq(Chat)
  BY DEF AttachmentInv, Stores
<1>4. sweep \in SweepType
  BY DEF AttachmentInv, Swept, SweepType
<1>5. ASSUME NEW s, s \in SweepType, sweep' = s, s.file = 0 \/ s.file = sweep.file, Spared(s)
      PROVE  Swept'
  <2>1. Erasing(removing)' /\ Erasing(sweep.file)'
    BY <1>1, <1>3, <1>5 DEF AttachmentInv, Swept, Erasing
  <2>2. sweep' \in SweepType'
    BY <1>1, <1>5 DEF SweepType
  <2>3. Spared(s)'
    BY <1>1, <1>5 DEF Spared
  <2> QED BY <1>1, <1>5, <2>1, <2>2, <2>3 DEF Swept, SweepType, Spared
<1>6. ASSUME Alarm PROVE Swept'
  <2>1. PICK c : c = IF active = <<>> THEN NoChat ELSE Head(active)
    OBVIOUS
  <2>2. c \in Chat \cup {NoChat}
    BY <1>3, <2>1
  <2>3. PICK s : s = [Idle EXCEPT !.spared = c, !.over = -1]
    OBVIOUS
  <2>4. s = [spared |-> c, todo |-> {}, over |-> -1, file |-> 0]
    BY <2>3 DEF Idle
  <2>6. s \in SweepType
    BY <2>2, <2>4 DEF SweepType
  <2>7. s.file = 0 /\ Spared(s)
    BY <1>3, <2>4 DEF Spared
  <2>5. sweep' = s
    BY <1>6, <2>1, <2>3 DEF Alarm
  <2> QED BY <1>5, <2>5, <2>6, <2>7 DEF Spared
<1>7. Idle \in SweepType /\ Idle.file = 0 /\ Spared(Idle)
  BY <1>3 DEF Idle, SweepType, Spared
<1>8. ASSUME ReadList PROVE Swept'
  <2>1. CASE sweep' = Idle
    BY <1>5, <1>7, <2>1 DEF Spared
  <2>2. CASE /\ Cardinality(Files) > Budget
             /\ sweep' = [sweep EXCEPT !.todo = Spares(sweep.spared),
                                       !.over = Cardinality(Files) - Budget]
    <3>1. Cardinality(Files) - Budget \in Int
      <4>1. IsFiniteSet(1 .. stored)
        <5>1. stored \in Int /\ 1 \in Int
          BY <1>3
        <5> QED BY <5>1, FS_Interval, ZenonT(30)
      <4>2. IsFiniteSet(Files)
        BY <1>3, <4>1, FS_Subset
      <4> QED BY <4>2, FS_CardinalityType, AttachmentAssumption
    <3>2. PICK s : s = [sweep EXCEPT !.todo = Spares(sweep.spared),
                                     !.over = Cardinality(Files) - Budget]
      OBVIOUS
    <3>3. Spares(sweep.spared) \subseteq 1 .. stored
      BY <1>3 DEF Spares
    <3>4. /\ s \in SweepType /\ s.file = sweep.file /\ s.spared = sweep.spared
          /\ s.todo = Spares(sweep.spared)
      BY <1>4, <3>1, <3>2, <3>3 DEF SweepType
    <3>5. ASSUME s.spared # NoChat, NEW f \in s.todo \cup {s.file}, f \in Files
          PROVE  rows[f].chat # s.spared
      BY <3>4, <3>5 DEF Spares, AttachmentInv, Swept
    <3>6. Spared(s) /\ sweep' = s
      BY <2>2, <3>2, <3>5 DEF Spared
    <3> QED BY <1>5, <3>4, <3>6 DEF Spared
  <2> QED BY <1>8, <2>1, <2>2 DEF ReadList
<1>9. ASSUME SweepEnds \/ DocumentDies PROVE Swept'
  <2>1. sweep' = Idle
    BY <1>9 DEF SweepEnds, DocumentDies
  <2> QED BY <1>5, <1>7, <2>1 DEF Spared
<1>10. ASSUME PageCloses PROVE Swept'
  <2>1. sweep' = sweep
    BY <1>10 DEF PageCloses
  <2>2. Spared(sweep)
    BY DEF AttachmentInv, Swept, Spared
  <2> QED BY <1>4, <1>5, <2>1, <2>2 DEF Spared
<1>11. Swept'
  BY <1>6, <1>8, <1>9, <1>10
<1> QED BY <1>1, <1>2, <1>11, RowsStay, SteersLive, SteersStay DEF AttachmentInv
(* An import counts the links again; nobody is waiting then. *)
Here(m) == m.file \in Files /\ rows[m.file].chat = m.chat

LEMMA Imports == ASSUME AttachmentInv, Import PROVE AttachmentInv'
<1>0. /\ stored \in Nat /\ Files \subseteq 1 .. stored /\ rows \in [Files -> RowType]
      /\ messages \subseteq NodeType
  BY DEF AttachmentInv, Stores
<1>1. /\ UNCHANGED <<active, stored, written, waitingFor, uploading, removing, sweep>>
      /\ active = <<>>
      /\ messages' = {[m EXCEPT !.evicted = m.evicted \/ ~Here(m),
                                !.late = Here(m) /\ rows[m.file].deleting] : m \in messages}
      /\ rows' = [f \in Files |-> [rows[f] EXCEPT !.refs = {m.id : m \in {n \in messages :
                                                            n.file = f /\ Here(n)}}]]
  BY DEF Import, Here
<1>2. waitingFor = {}
  <2>1. active = <<>>
    BY DEF Import
  <2>2. DOMAIN active = {}
    BY <2>1
  <2> QED BY <2>2 DEF AttachmentInv, Steered, Live
<1>3. \A f \in Files : {m.id : m \in {n \in messages : n.file = f /\ Here(n)}} \in SUBSET Nat
  BY <1>0 DEF NodeType
<1>4. /\ Files' = Files
      /\ \A f \in Files : /\ rows'[f] \in RowType /\ rows'[f].chat = rows[f].chat
                          /\ rows'[f].deleting = rows[f].deleting
  BY <1>0, <1>1, <1>3 DEF RowType
<1>5. rows' \in [Files' -> RowType]
  BY <1>1, <1>4
<1>6. RowsFollow
  BY <1>0, <1>1, <1>4, <1>5 DEF RowsFollow
<1>7. ASSUME NEW n \in messages'
      PROVE  /\ n \in NodeType
             /\ n.linked /\ ~n.late /\ ~n.evicted =>
                  /\ n.file \in Files' /\ ~rows'[n.file].deleting
                  /\ n.id \in rows'[n.file].refs /\ rows'[n.file].chat = n.chat
  <2>1. PICK m \in messages :
          n = [m EXCEPT !.evicted = m.evicted \/ ~Here(m),
                        !.late = Here(m) /\ rows[m.file].deleting]
    BY <1>1
  <2>2. m \in NodeType
    BY <1>0
  <2>3. PICK e \in BOOLEAN, l \in BOOLEAN :
          /\ e = (m.evicted \/ ~Here(m)) /\ l = (Here(m) /\ rows[m.file].deleting)
    OBVIOUS
  <2>4. n = [m EXCEPT !.evicted = e, !.late = l]
    BY <2>1, <2>3
  <2>5. /\ n \in NodeType /\ n.file = m.file /\ n.id = m.id /\ n.chat = m.chat
        /\ n.late = l /\ n.evicted = e
    BY <2>2, <2>4 DEF NodeType
  <2>6. ASSUME ~n.late, ~n.evicted
        PROVE  /\ n.file \in Files' /\ ~rows'[n.file].deleting
               /\ n.id \in rows'[n.file].refs /\ rows'[n.file].chat = n.chat
    <3>1. Here(m) /\ ~(Here(m) /\ rows[m.file].deleting)
      BY <2>3, <2>5, <2>6
    <3>2. m.file \in Files /\ rows[m.file].chat = m.chat /\ ~rows[m.file].deleting
      BY <3>1 DEF Here
    <3>3. m.id \in {k.id : k \in {n1 \in messages : n1.file = m.file /\ Here(n1)}}
      BY <3>1
    <3>4. rows'[m.file].refs = {k.id : k \in {n1 \in messages : n1.file = m.file /\ Here(n1)}}
      BY <1>0, <1>1, <3>2 DEF RowType
    <3> QED BY <1>4, <2>5, <3>2, <3>3, <3>4
  <2> QED BY <2>5, <2>6
<1>8. Stores'
  BY <1>1, <1>5, <1>6, <1>7 DEF AttachmentInv, Stores, RowsFollow
<1>9. Held'
  BY <1>7 DEF Held, Holds
<1>10. Steered'
  BY <1>1, <1>2 DEF Steered
<1>11. stored' \in Nat /\ stored <= stored'
  <2>1. stored' = stored
    BY <1>1
  <2>2. stored \in Nat
    BY <1>0
  <2> QED BY <2>1, <2>2
<1> QED BY <1>1, <1>6, <1>8, <1>9, <1>10, <1>11, SweptStays DEF AttachmentInv

(* docs/development/data-model.md, section 6 (src/data/attachments.ts remove,              *)
(* linkAttachments, reconcileImportedAttachments; src/data/quota.ts): for any number of    *)
(* threads, attachments and messages, wherever the one that removes an attachment dies,    *)
(* a message that had linked it is marked before its row goes, and the sweep leaves the    *)
(* thread its alarm named alone.                                                           *)
THEOREM GoneAreMarked == AttachmentSpec => []GoneIsMarked
<1>1. AttachmentInit => AttachmentInv
  <2> SUFFICES ASSUME AttachmentInit PROVE AttachmentInv
    OBVIOUS
  <2>1. Files = {} /\ rows \in [Files -> RowType]
    BY DEF AttachmentInit
  <2>2. Stores
    BY <2>1 DEF AttachmentInit, Stores
  <2>3. Held /\ Steered
    BY DEF AttachmentInit, Held, Steered
  <2>4. Swept
    <3>1. sweep = [spared |-> NoChat, todo |-> {}, over |-> 0, file |-> 0]
      BY DEF AttachmentInit, Idle
    <3> QED BY <2>1, <3>1 DEF AttachmentInit, Swept, Erasing
  <2> QED BY <2>2, <2>3, <2>4 DEF AttachmentInv
<1>2. AttachmentInv /\ [AttachmentNext]_attachmentVars => AttachmentInv'
  <2> SUFFICES ASSUME AttachmentInv, [AttachmentNext]_attachmentVars PROVE AttachmentInv'
    OBVIOUS
  <2>1. CASE AttachmentNext
    BY <2>1, Stored, TurnEnds, ThreadGoes, Submits, Steers, UserMarks, SteerWritten, Erased,
       SweepMarks, SweepTurns, Imports DEF AttachmentNext
  <2>2. CASE UNCHANGED attachmentVars
    <3>1. Stores' /\ Held'
      BY <2>2, RowsStay DEF AttachmentInv, Stores, Held
    <3> QED BY <2>2, <3>1, RowsStay, SteersLive, SteersStay, SweptStays DEF AttachmentInv
  <2> QED BY <2>1, <2>2
<1>3. AttachmentInv => GoneIsMarked
  BY MarkedIs
<1> QED BY <1>1, <1>2, <1>3, PTL DEF AttachmentSpec

(* ------------------------- the loop of a turn ------------------------- *)

USE DEF loopVars, callVars, steerVars

(* A message that is being stored or waits may still be given: it comes after every one    *)
(* the model has been given, and, once the next request has fixed those it waits for, after *)
(* these. Whoever ends the turn has stopped accepting first.                               *)
LoopNode == [kind : EntryKind, n : Nat]
Waits(i) == steers[i] \in {"admitting", "stored"}
InCall == {"asking", "cleared", "interacting", "dispatching", "executing", "thrown",
           "askingTrusted", "trusted", "dispatchingTrusted", "acting"}

LoopTypes ==
  /\ steers \in Seq(SteerState) /\ cutoff \subseteq DOMAIN steers
  /\ history \in Seq(LoopNode) /\ batch \in Seq(Nat) /\ pos \in Nat \ {0} /\ pos <= Len(batch) + 1
  /\ loopAt \in InCall => pos \in DOMAIN batch

WaitingInv ==
  /\ \A i, j \in DOMAIN steers : steers[i] = "given" /\ Waits(j) => i < j
  /\ loopAt = "cutting" => \A i \in cutoff, j \in DOMAIN steers \ cutoff : Waits(j) => i < j
  /\ loopAt \in {"settling", "closing", "done"} => ~accepting
  /\ (loopAt = "closing" /\ turnReason = "end") \/ (loopAt = "done" /\ ~giveFailed) =>
       \A j \in DOMAIN steers : ~Waits(j)
  /\ loopAt = "done" /\ turnReason = "end" => ~giveFailed

GivenInv ==
  /\ \A i \in DOMAIN history : history[i].kind = "steer" =>
       history[i].n \in DOMAIN steers /\ steers[history[i].n] = "given"
  /\ \A i, j \in DOMAIN history :
       i < j /\ history[i].kind = "steer" /\ history[j].kind = "steer" =>
         history[i].n < history[j].n

AnsweredInv ==
  loopAt = "settling" \/ (loopAt \in {"closing", "done"} /\ turnReason = "end") =>
    \E a \in DOMAIN history :
      history[a].kind = "assistant" /\ \A i \in DOMAIN history : history[i].kind = "steer" => i < a

SteerInv == LoopTypes /\ WaitingInv /\ GivenInv /\ AnsweredInv

(* ------------------------- lists of numbers ------------------------- *)

LEMMA InOrderIs ==
  ASSUME NEW S \in SUBSET Nat, IsFiniteSet(S)
  PROVE  InOrder(S) \in [1..Cardinality(S) -> S] /\ Ascends(InOrder(S)) /\ Cardinality(S) \in Nat
<1>1. Cardinality(S) \in Nat
  BY FS_CardinalityType
<1>2. \E s \in [1..Cardinality(S) -> S] : Ascends(s)
  BY Listed
<1> QED BY <1>1, <1>2 DEF InOrder, Ascends

(* Ids are renamed one after the other, each against those used and those before it.       *)
Unlike(used) == {s \in Seq(Nat) : IsInjective(s) /\ \A i \in DOMAIN s : s[i] \notin used}

LEMMA Renamed ==
  ASSUME NEW used \in SUBSET Nat, IsFiniteSet(used), NEW done \in Unlike(used), NEW id \in Nat
  PROVE  Rename(done, id, used) \in Unlike(used)
<1> DEFINE taken == used \cup {done[i] : i \in DOMAIN done}
           new == IF id \in taken THEN UnusedId(taken \cup {id}) ELSE id
<1>1. done \in Seq(Nat) /\ IsInjective(done) /\ \A i \in DOMAIN done : done[i] \notin used
  BY DEF Unlike
<1>2. IsFiniteSet(taken)
  <2>1. IsFiniteSet({done[i] : i \in DOMAIN done})
    BY <1>1, FinitelyMany
  <2> QED BY <2>1, FS_Union
<1>3. new \in Nat /\ new \notin taken
  <2>1. IsFiniteSet(taken \cup {id})
    BY <1>2, FS_AddElement
  <2>2. PICK k \in Nat : k = Cardinality(taken \cup {id})
    BY <2>1, FS_CardinalityType
  <2>3. \E x \in 1..k + 1 : x \notin taken \cup {id}
    <3> HIDE DEF taken
    <3> QED BY <2>1, <2>2, Unheld
  <2>4. UnusedId(taken \cup {id}) \in 1..k + 1 /\ UnusedId(taken \cup {id}) \notin taken \cup {id}
    <3> HIDE DEF taken
    <3> QED BY <2>2, <2>3 DEF UnusedId
  <2> QED BY <2>4
<1>4. PICK n \in Nat : n = new
  BY <1>3
<1>5. Rename(done, id, used) = Append(done, n)
  BY <1>4 DEF Rename
<1>6. /\ Append(done, n) \in Seq(Nat) /\ DOMAIN Append(done, n) = DOMAIN done \cup {Len(done) + 1}
      /\ Len(done) + 1 \notin DOMAIN done
      /\ \A i \in DOMAIN done : Append(done, n)[i] = done[i]
      /\ Append(done, n)[Len(done) + 1] = n
  BY <1>1, Added
<1>7. n \notin used /\ \A i \in DOMAIN done : done[i] # n
  BY <1>3, <1>4
<1>8. IsInjective(Append(done, n))
  BY <1>1, <1>6, <1>7 DEF IsInjective
<1>9. \A i \in DOMAIN Append(done, n) : Append(done, n)[i] \notin used
  BY <1>1, <1>6, <1>7
<1> QED BY <1>5, <1>6, <1>8, <1>9 DEF Unlike

RenamesOf(ids, used, f) ==
  f = [k \in 0..Len(ids) |-> IF k = 0 THEN <<>> ELSE Rename(f[k - 1], ids[k], used)]

LEMMA IdsUnique ==
  ASSUME NEW used \in SUBSET Nat, IsFiniteSet(used), NEW ids \in Seq(Nat)
  PROVE  UniqueIds(ids, used) \in Unlike(used)
<1> DEFINE S == Unlike(used)
           g == [x \in S \X Nat |-> Rename(x[1], x[2], used)]
<1>1. Len(ids) \in Nat /\ \A k \in 1..Len(ids) : ids[k] \in Nat
  OBVIOUS
<1>2. g \in [S \X Nat -> S]
  BY Renamed
<1>3. <<>> \in S
  <2>1. <<>> \in Seq(Nat) /\ DOMAIN <<>> = {}
    BY NothingIn
  <2> QED BY <2>1 DEF Unlike, IsInjective
<1>4. \A x \in S, n \in Nat : g[<<x, n>>] = Rename(x, n, used)
  OBVIOUS
<1>5. PICK f \in [0..Len(ids) -> S] : f[0] = <<>> /\ \A k \in 1..Len(ids) : f[k] = g[<<f[k - 1], ids[k]>>]
  <2>1. Iterable(S, Nat, <<>>, g, ids)
    <3> HIDE DEF S, g
    <3> QED BY <1>2, <1>3 DEF Iterable
  <2> HIDE DEF S, g
  <2> QED BY <2>1, Iterates
<1>6. RenamesOf(ids, used, f)
  <2>1. \A k \in 0..Len(ids) : f[k] = IF k = 0 THEN <<>> ELSE Rename(f[k - 1], ids[k], used)
    <3> SUFFICES ASSUME NEW k \in 0..Len(ids), k # 0 PROVE f[k] = Rename(f[k - 1], ids[k], used)
      BY <1>5
    <3>1. k \in 1..Len(ids) /\ k - 1 \in 0..Len(ids)
      BY <1>1
    <3>2. f[k - 1] \in S /\ ids[k] \in Nat
      BY <1>1, <1>5, <3>1
    <3> HIDE DEF S, g
    <3> QED BY <1>4, <1>5, <3>1, <3>2
  <2>2. DOMAIN f = 0..Len(ids)
    BY <1>5
  <2> QED BY <1>5, <2>1, <2>2 DEF RenamesOf
<1>7. PICK h : RenamesOf(ids, used, h) /\ UniqueIds(ids, used) = h[Len(ids)]
  <2>1. UniqueIds(ids, used) = (CHOOSE h : RenamesOf(ids, used, h))[Len(ids)]
    BY DEF UniqueIds, RenamesOf
  <2> QED BY <1>6, <2>1
<1>8. Follows(S, <<>>, g, ids, h)
  <2>1. h[0] = <<>>
    BY <1>1, <1>7 DEF RenamesOf
  <2>2. ASSUME NEW k \in 1..Len(ids), h[k - 1] \in S PROVE h[k] = g[<<h[k - 1], ids[k]>>]
    <3>1. k \in 0..Len(ids) /\ k # 0
      BY <1>1
    <3>2. h[k] = Rename(h[k - 1], ids[k], used)
      BY <1>7, <3>1 DEF RenamesOf
    <3> QED BY <1>1, <1>4, <2>2, <3>2
  <2> HIDE DEF S, g
  <2> QED BY <2>1, <2>2 DEF Follows
<1>9. h[Len(ids)] \in S
  <2>1. Iterable(S, Nat, <<>>, g, ids)
    <3> HIDE DEF S, g
    <3> QED BY <1>2, <1>3 DEF Iterable
  <2> HIDE DEF S, g
  <2> QED BY <1>1, <1>8, <2>1, Iterated
<1> QED BY <1>7, <1>9

LEMMA UsedFinitely ==
  ASSUME history \in Seq(LoopNode) PROVE UsedIds \in SUBSET Nat /\ IsFiniteSet(UsedIds)
<1>1. /\ DOMAIN history = 1..Len(history) /\ Len(history) \in Nat
      /\ \A i \in DOMAIN history : history[i].n \in Nat
  <2>1. \A i \in DOMAIN history : history[i] \in LoopNode
    OBVIOUS
  <2>2. \A i \in DOMAIN history : history[i].n \in Nat
    BY <2>1 DEF LoopNode
  <2> QED BY <2>2
<1>2. PICK q : q = [i \in 1..Len(history) |-> history[i].n]
  OBVIOUS
<1>3. q \in Seq(Nat) /\ DOMAIN q = DOMAIN history
  BY <1>1, <1>2
<1>4. IsFiniteSet({q[i] : i \in DOMAIN q})
  BY <1>3, FinitelyMany
<1>5. UsedIds \subseteq {q[i] : i \in DOMAIN q}
  BY <1>1, <1>2, <1>3 DEF UsedIds
<1>6. UsedIds \subseteq Nat
  BY <1>1 DEF UsedIds
<1> QED BY <1>4, <1>5, <1>6, FS_Subset

(* ------------------------- what a turn adds to its history ------------------------- *)

\* Nothing is taken back, and what is added is no message of the user.
Quiet(h, g) ==
  /\ g \in Seq(LoopNode) /\ DOMAIN h \subseteq DOMAIN g /\ \A i \in DOMAIN h : g[i] = h[i]
  /\ \A i \in DOMAIN g \ DOMAIN h : g[i].kind # "steer" /\ \A j \in DOMAIN h : j < i

LEMMA QuietSame == ASSUME NEW h \in Seq(LoopNode) PROVE Quiet(h, h)
  BY DEF Quiet

LEMMA QuietAdds ==
  ASSUME NEW h \in Seq(LoopNode), NEW kind \in EntryKind, NEW n \in Nat
  PROVE  /\ Append(h, Entry(kind, n)) \in Seq(LoopNode)
         /\ kind # "steer" => Quiet(h, Append(h, Entry(kind, n)))
<1>1. Entry(kind, n) \in LoopNode /\ Entry(kind, n).kind = kind
  BY DEF Entry, LoopNode
<1>2. PICK e : e = Entry(kind, n)
  OBVIOUS
<1>3. e \in LoopNode /\ e.kind = kind
  BY <1>1, <1>2
<1>4. /\ Append(h, e) \in Seq(LoopNode) /\ DOMAIN Append(h, e) = DOMAIN h \cup {Len(h) + 1}
      /\ \A i \in DOMAIN h : Append(h, e)[i] = h[i]
      /\ Append(h, e)[Len(h) + 1] = e
      /\ \A i \in DOMAIN h : i < Len(h) + 1
  BY <1>3, Added
<1>5. kind # "steer" => Quiet(h, Append(h, e))
  BY <1>3, <1>4 DEF Quiet
<1> QED BY <1>2, <1>4, <1>5

LEMMA QuietOn ==
  ASSUME NEW h \in Seq(LoopNode), NEW g, Quiet(h, g), NEW f, Quiet(g, f) PROVE Quiet(h, f)
  BY DEF Quiet

LEMMA CallWritten ==
  ASSUME LoopTypes, pos \in DOMAIN batch
  PROVE  /\ batch[pos] \in Nat /\ CallEntry \in LoopNode
         /\ WithCall \in Seq(LoopNode) /\ Quiet(history, WithCall)
         /\ Append(history, CallEntry) \in Seq(LoopNode) /\ Quiet(history, Append(history, CallEntry))
<1>1. history \in Seq(LoopNode) /\ batch[pos] \in Nat
  BY DEF LoopTypes
<1>2. PICK n \in Nat : n = batch[pos]
  BY <1>1
<1>3. "call" \in EntryKind /\ "call" # "steer"
  BY DEF EntryKind
<1>4. Append(history, Entry("call", n)) \in Seq(LoopNode) /\ Quiet(history, Append(history, Entry("call", n)))
  BY <1>1, <1>3, QuietAdds
<1>5. CallEntry = Entry("call", n)
  BY <1>2 DEF CallEntry
<1>6. Entry("call", n) \in LoopNode
  BY <1>3 DEF Entry, LoopNode
<1>7. WithCall \in {history, Append(history, Entry("call", n))}
  BY <1>5 DEF WithCall
<1>8. Quiet(history, history)
  BY <1>1, QuietSame
<1> QED BY <1>1, <1>4, <1>5, <1>6, <1>7, <1>8

LEMMA CallFailed ==
  ASSUME LoopTypes, pos \in DOMAIN batch, NEW kind \in EntryKind, kind # "steer"
  PROVE  /\ Append(WithCall, Entry(kind, batch[pos])) \in Seq(LoopNode)
         /\ Quiet(history, Append(WithCall, Entry(kind, batch[pos])))
         /\ Append(history, Entry(kind, batch[pos])) \in Seq(LoopNode)
         /\ Quiet(history, Append(history, Entry(kind, batch[pos])))
<1>1. history \in Seq(LoopNode) /\ batch[pos] \in Nat /\ WithCall \in Seq(LoopNode) /\ Quiet(history, WithCall)
  BY CallWritten DEF LoopTypes
<1>2. PICK w \in Seq(LoopNode) : w = WithCall
  BY <1>1
<1>3. PICK n \in Nat : n = batch[pos]
  BY <1>1
<1>4. Append(w, Entry(kind, n)) \in Seq(LoopNode) /\ Quiet(w, Append(w, Entry(kind, n)))
  BY <1>1, QuietAdds
<1>5. Append(history, Entry(kind, n)) \in Seq(LoopNode) /\ Quiet(history, Append(history, Entry(kind, n)))
  BY <1>1, QuietAdds
<1>6. Quiet(history, w)
  BY <1>1, <1>2
<1>7. Quiet(history, Append(w, Entry(kind, n)))
  BY <1>1, <1>4, <1>6, QuietOn
<1> QED BY <1>2, <1>3, <1>4, <1>5, <1>7

\* What a step in the calls of an answer does to what the messages' order rests on.
CallMoves ==
  /\ Quiet(history, history') /\ steers' = steers /\ cutoff' = cutoff /\ batch' = batch
  /\ pos' \in Nat \ {0} /\ pos' <= Len(batch) + 1
  /\ (loopAt' \in InCall => pos' \in DOMAIN batch)
  /\ loopAt' \in {"top", "calls", "closing"} \cup InCall
  /\ (loopAt' = "closing" => turnReason' # "end" /\ accepting' = FALSE)

\* The steps that write nothing.
LEMMA SilentMoves ==
  ASSUME LoopTypes, history' = history, steers' = steers, cutoff' = cutoff, batch' = batch, pos' = pos,
         loopAt' \in {"top", "closing"} \/ (loopAt' \in InCall /\ pos \in DOMAIN batch),
         loopAt' = "closing" => turnReason' # "end" /\ accepting' = FALSE
  PROVE  CallMoves
<1>1. Quiet(history, history')
  BY QuietSame DEF LoopTypes
<1>2. pos' \in Nat \ {0} /\ pos' <= Len(batch) + 1
  BY DEF LoopTypes
<1>3. loopAt' \in {"top", "calls", "closing"} \cup InCall
  OBVIOUS
<1>4. loopAt' \in InCall => pos' \in DOMAIN batch
  BY DEF InCall
<1> QED BY <1>1, <1>2, <1>3, <1>4 DEF CallMoves

\* The call is written, if it is not yet, and goes on.
LEMMA WritingMoves ==
  ASSUME LoopTypes, history' \in {history, WithCall, Append(history, CallEntry)}, steers' = steers,
         cutoff' = cutoff, batch' = batch, pos' = pos, pos \in DOMAIN batch, loopAt' \in InCall
  PROVE  CallMoves
<1>1. Quiet(history, history')
  BY QuietSame, CallWritten DEF LoopTypes
<1>2. loopAt' # "closing"
  BY DEF InCall
<1>3. pos' \in Nat \ {0} /\ pos' <= Len(batch) + 1 /\ pos' \in DOMAIN batch
  BY DEF LoopTypes
<1>4. loopAt' \in {"top", "calls", "closing"} \cup InCall
  OBVIOUS
<1> QED BY <1>1, <1>2, <1>3, <1>4 DEF CallMoves

\* The call is over.
LEMMA OverMoves ==
  ASSUME LoopTypes, pos \in DOMAIN batch, NEW kind \in EntryKind, kind # "steer",
         history' \in {Append(WithCall, Entry(kind, batch[pos])), Append(history, Entry(kind, batch[pos]))},
         steers' = steers, cutoff' = cutoff, CallOver, loopAt' \in {"calls", "closing"},
         loopAt' = "closing" => turnReason' # "end" /\ accepting' = FALSE
  PROVE  CallMoves
<1>1. Quiet(history, history')
  BY CallFailed
<1>2. batch' = batch /\ pos' = pos + 1
  BY DEF CallOver
<1>3. pos' \in Nat \ {0} /\ pos' <= Len(batch) + 1
  BY <1>2 DEF LoopTypes
<1>4. loopAt' \notin InCall
  BY DEF InCall
<1> QED BY <1>1, <1>2, <1>3, <1>4 DEF CallMoves

LEMMA AtCallIn == ASSUME LoopTypes, AtCall PROVE pos \in DOMAIN batch
  BY DEF AtCall, LoopTypes

LEMMA CallStepsMove == ASSUME LoopTypes, CallSteps PROVE CallMoves
<1>0. /\ {"failed", "refused", "ok", "notice", "call"} \subseteq EntryKind
      /\ history \in Seq(LoopNode)
      /\ loopAt \in InCall => pos \in DOMAIN batch
  BY DEF EntryKind, LoopTypes
<1>1. CASE ForceFinalization
  <2>1. /\ history' = Append(history, Entry("notice", 0)) /\ steers' = steers /\ cutoff' = cutoff
        /\ batch' = batch /\ pos' = pos /\ loopAt' = "top"
    BY <1>1 DEF ForceFinalization
  <2>2. Quiet(history, history')
    BY <1>0, <2>1, QuietAdds
  <2>3. loopAt' \notin InCall
    BY <2>1 DEF InCall
  <2> QED BY <2>1, <2>2, <2>3 DEF CallMoves, LoopTypes
<1>2. CASE NextRound
  BY <1>2, SilentMoves DEF NextRound
<1>3. CASE \E told \in BOOLEAN : RejectCall(told)
  <2>1. PICK told \in BOOLEAN : RejectCall(told)
    BY <1>3
  <2>2. pos \in DOMAIN batch
    BY <2>1, AtCallIn DEF RejectCall
  <2>3. PICK kind : kind = IF told THEN "failed" ELSE "refused"
    OBVIOUS
  <2>4. kind \in EntryKind /\ kind # "steer"
    BY <1>0, <2>3
  <2>5. history' = Append(WithCall, Entry(kind, batch[pos])) /\ CallOver
    BY <2>1, <2>3 DEF RejectCall, FailCall
  <2>6. steers' = steers /\ cutoff' = cutoff /\ loopAt' = "calls"
    BY <2>1 DEF RejectCall, GoesOn, RestUnchanged
  <2> QED BY <2>2, <2>4, <2>5, <2>6, OverMoves
<1>4. CASE AllowCall
  <2>1. pos \in DOMAIN batch /\ "cleared" \in InCall
    BY <1>4, AtCallIn DEF AllowCall, InCall
  <2> QED BY <1>4, <2>1, SilentMoves DEF AllowCall
<1>5. CASE AskApproval
  <2>1. pos \in DOMAIN batch /\ "asking" \in InCall
    BY <1>5, AtCallIn DEF AskApproval, InCall
  <2> QED BY <1>5, <2>1, WritingMoves DEF AskApproval
<1>6. CASE Approve
  <2>1. pos \in DOMAIN batch /\ {"asking", "askingTrusted", "cleared", "trusted"} \subseteq InCall
    BY <1>0, <1>6 DEF Approve, InCall
  <2> QED BY <1>6, <2>1, SilentMoves DEF Approve, InCall
<1>7. CASE Decline
  <2>1. pos \in DOMAIN batch
    BY <1>0, <1>7 DEF Decline, InCall
  <2>2. history' = Append(WithCall, Entry("refused", batch[pos])) /\ CallOver
    BY <1>7 DEF Decline, FailCall
  <2>3. /\ steers' = steers /\ cutoff' = cutoff /\ loopAt' \in {"calls", "closing"}
        /\ loopAt' = "closing" => turnReason' # "end" /\ accepting' = FALSE
    BY <1>7 DEF Decline, GoesOn, RestUnchanged, Close
  <2> QED BY <1>0, <2>1, <2>2, <2>3, OverMoves
<1>8. CASE Dispatch
  <2>1. pos \in DOMAIN batch /\ {"dispatching", "dispatchingTrusted", "cleared", "trusted"} \subseteq InCall
    BY <1>0, <1>8 DEF Dispatch, InCall
  <2> QED BY <1>8, <2>1, SilentMoves DEF Dispatch, InCall
<1>9. CASE FailInterrupted
  <2>1. pos \in DOMAIN batch
    BY <1>0, <1>9 DEF FailInterrupted, InCall
  <2>2. history' = Append(WithCall, Entry("refused", batch[pos])) /\ CallOver
    BY <1>9 DEF FailInterrupted, FailCall
  <2>3. /\ steers' = steers /\ cutoff' = cutoff /\ loopAt' \in {"calls", "closing"}
        /\ loopAt' = "closing" => turnReason' # "end" /\ accepting' = FALSE
    BY <1>9 DEF FailInterrupted, RestUnchanged, Close
  <2> QED BY <1>0, <2>1, <2>2, <2>3, OverMoves
<1>10. CASE RefuseQuestion
  <2>1. pos \in DOMAIN batch
    BY <1>0, <1>10 DEF RefuseQuestion, InCall
  <2>2. history' = Append(WithCall, Entry("failed", batch[pos])) /\ CallOver
    BY <1>10 DEF RefuseQuestion, FailCall
  <2>3. steers' = steers /\ cutoff' = cutoff /\ loopAt' = "calls"
    BY <1>10 DEF RefuseQuestion, GoesOn, RestUnchanged
  <2> QED BY <1>0, <2>1, <2>2, <2>3, OverMoves
<1>11. CASE AskQuestion
  <2>1. pos \in DOMAIN batch /\ "interacting" \in InCall
    BY <1>0, <1>11 DEF AskQuestion, InCall
  <2> QED BY <1>11, <2>1, WritingMoves DEF AskQuestion
<1>12. CASE AnswerQuestion \/ ToolReturns
  <2>1. pos \in DOMAIN batch
    BY <1>0, <1>12 DEF AnswerQuestion, ToolReturns, InCall
  <2>2. Succeed
    BY <1>12 DEF AnswerQuestion, ToolReturns
  <2>3. history' = Append(history, Entry("ok", batch[pos])) /\ CallOver
    BY <2>2 DEF Succeed
  <2>4. steers' = steers /\ cutoff' = cutoff /\ loopAt' = "calls"
    BY <2>2 DEF Succeed, GoesOn, RestUnchanged
  <2> QED BY <1>0, <2>1, <2>3, <2>4, OverMoves
<1>13. CASE LeaveQuestion
  <2>1. pos \in DOMAIN batch
    BY <1>0, <1>13 DEF LeaveQuestion, InCall
  <2>2. history' = Append(WithCall, Entry("refused", batch[pos])) /\ CallOver
    BY <1>13 DEF LeaveQuestion, FailCall
  <2>3. /\ steers' = steers /\ cutoff' = cutoff /\ loopAt' \in {"calls", "closing"}
        /\ loopAt' = "closing" => turnReason' # "end" /\ accepting' = FALSE
    BY <1>13 DEF LeaveQuestion, RestUnchanged, Close
  <2> QED BY <1>0, <2>1, <2>2, <2>3, OverMoves
<1>14. CASE QuestionFails
  BY <1>14, SilentMoves DEF QuestionFails, Close
<1>15. CASE RefuseDispatch
  <2>1. pos \in DOMAIN batch
    BY <1>0, <1>15 DEF RefuseDispatch, InCall
  <2>2. history' = Append(WithCall, Entry("failed", batch[pos])) /\ CallOver
    BY <1>15 DEF RefuseDispatch, FailCall
  <2>3. steers' = steers /\ cutoff' = cutoff /\ loopAt' = "calls"
    BY <1>15 DEF RefuseDispatch, GoesOn, RestUnchanged
  <2> QED BY <1>0, <2>1, <2>2, <2>3, OverMoves
<1>16. CASE Execute
  <2>1. pos \in DOMAIN batch /\ "executing" \in InCall
    BY <1>0, <1>16 DEF Execute, InCall
  <2> QED BY <1>16, <2>1, WritingMoves DEF Execute
<1>17. CASE ToolThrows
  <2>1. pos \in DOMAIN batch /\ "thrown" \in InCall
    BY <1>0, <1>17 DEF ToolThrows, InCall
  <2> QED BY <1>17, <2>1, SilentMoves DEF ToolThrows
<1>18. CASE TellFailure
  <2>1. pos \in DOMAIN batch
    BY <1>0, <1>18 DEF TellFailure, InCall
  <2>2. PICK told \in BOOLEAN : FailCall(told)
    BY <1>18 DEF TellFailure
  <2>3. PICK kind : kind = IF told THEN "failed" ELSE "refused"
    OBVIOUS
  <2>4. kind \in EntryKind /\ kind # "steer"
    BY <1>0, <2>3
  <2>5. history' = Append(WithCall, Entry(kind, batch[pos])) /\ CallOver
    BY <2>2, <2>3 DEF FailCall
  <2>6. steers' = steers /\ cutoff' = cutoff /\ loopAt' = "calls"
    BY <1>18 DEF TellFailure, GoesOn, RestUnchanged
  <2> QED BY <2>1, <2>4, <2>5, <2>6, OverMoves
<1>19. CASE Escalate
  <2>1. pos \in DOMAIN batch /\ {"trusted", "askingTrusted"} \subseteq InCall
    BY <1>0, <1>19 DEF Escalate, InCall
  <2> QED BY <1>19, <2>1, WritingMoves DEF Escalate
<1>20. CASE ExecuteTrusted
  <2>1. pos \in DOMAIN batch /\ "acting" \in InCall
    BY <1>0, <1>20 DEF ExecuteTrusted, InCall
  <2> QED BY <1>20, <2>1, WritingMoves DEF ExecuteTrusted
<1> QED
  BY <1>1, <1>2, <1>3, <1>4, <1>5, <1>6, <1>7, <1>8, <1>9, <1>10, <1>11, <1>12, <1>13, <1>14,
     <1>15, <1>16, <1>17, <1>18, <1>19, <1>20 DEF CallSteps

(* ------------------------- the order of the messages is kept ------------------------- *)

\* A step that gives no message and ends nothing well.
LEMMA QuietKeeps ==
  ASSUME SteerInv, Quiet(history, history'), steers' = steers, cutoff' = cutoff,
         batch' \in Seq(Nat), pos' \in Nat \ {0}, pos' <= Len(batch') + 1,
         loopAt' \in InCall => pos' \in DOMAIN batch', loopAt' \notin {"cutting", "settling", "done"},
         loopAt' = "closing" => turnReason' # "end" /\ accepting' = FALSE
  PROVE  SteerInv'
<1>1. LoopTypes'
  <2>1. history' \in Seq(LoopNode)
    BY DEF Quiet
  <2> QED BY <2>1 DEF SteerInv, LoopTypes
<1>2. WaitingInv'
  BY DEF SteerInv, WaitingInv, Waits
<1>3. \A i \in DOMAIN history' : history'[i].kind = "steer" => i \in DOMAIN history /\ history'[i] = history[i]
  BY DEF Quiet
<1>4. GivenInv'
  <2>1. \A i \in DOMAIN history' : history'[i].kind = "steer" =>
          history'[i].n \in DOMAIN steers' /\ steers'[history'[i].n] = "given"
    BY <1>3 DEF SteerInv, GivenInv
  <2>2. \A i, j \in DOMAIN history' :
          i < j /\ history'[i].kind = "steer" /\ history'[j].kind = "steer" =>
            history'[i].n < history'[j].n
    BY <1>3 DEF SteerInv, GivenInv
  <2> QED BY <2>1, <2>2 DEF GivenInv
<1>5. AnsweredInv'
  BY DEF AnsweredInv
<1> QED BY <1>1, <1>2, <1>4, <1>5 DEF SteerInv

LEMMA CallsKeepOrder == ASSUME SteerInv, CallSteps PROVE SteerInv'
<1>1. CallMoves /\ batch \in Seq(Nat)
  BY CallStepsMove DEF SteerInv, LoopTypes
<1>2. loopAt' \notin {"cutting", "settling", "done"}
  BY <1>1 DEF CallMoves, InCall
<1> QED BY <1>1, <1>2, QuietKeeps DEF CallMoves

LEMMA StopsKeepOrder ==
  ASSUME SteerInv, StopAborted({"top", "building", "streaming"}) \/ StopAborted({"calls"})
  PROVE  SteerInv'
<1>1. history \in Seq(LoopNode) /\ batch \in Seq(Nat) /\ pos \in Nat \ {0} /\ pos <= Len(batch) + 1
  BY DEF SteerInv, LoopTypes
<1>2. Quiet(history, history)
  BY <1>1, QuietSame
<1>3. /\ steers' = steers /\ cutoff' = cutoff /\ batch' = batch /\ pos' = pos /\ history' = history
      /\ loopAt' = "closing" /\ turnReason' # "end" /\ accepting' = FALSE
  BY DEF StopAborted, Close
<1>4. loopAt' \notin InCall
  BY <1>3 DEF InCall
<1> QED BY <1>1, <1>2, <1>3, <1>4, QuietKeeps

\* The user adds a message: it comes after every other.
LEMMA SteerKeepsOrder == ASSUME SteerInv, Steer PROVE SteerInv'
<1>1. /\ steers \in Seq(SteerState) /\ "admitting" \in SteerState /\ accepting
      /\ steers' = Append(steers, "admitting") /\ cutoff' = cutoff /\ loopAt' = loopAt
      /\ history' = history /\ batch' = batch /\ pos' = pos /\ accepting' = accepting
      /\ turnReason' = turnReason /\ giveFailed' = giveFailed
  BY DEF Steer, SteerInv, LoopTypes, SteerState
<1>2. /\ steers' \in Seq(SteerState) /\ DOMAIN steers' = DOMAIN steers \cup {Len(steers) + 1}
      /\ \A i \in DOMAIN steers : steers'[i] = steers[i] /\ i < Len(steers) + 1
      /\ steers'[Len(steers) + 1] = "admitting"
  BY <1>1, Added
<1>3. LoopTypes'
  BY <1>1, <1>2 DEF SteerInv, LoopTypes
<1>4. WaitingInv'
  <2>1. loopAt \notin {"settling", "closing", "done"}
    BY <1>1 DEF SteerInv, WaitingInv
  <2>2. \A i, j \in DOMAIN steers' : steers'[i] = "given" /\ steers'[j] \in {"admitting", "stored"} => i < j
    BY <1>2 DEF SteerInv, WaitingInv, Waits
  <2>3. loopAt = "cutting" =>
          \A i \in cutoff, j \in DOMAIN steers' \ cutoff : steers'[j] \in {"admitting", "stored"} => i < j
    BY <1>2 DEF SteerInv, WaitingInv, Waits, LoopTypes
  <2> QED BY <1>1, <2>1, <2>2, <2>3 DEF WaitingInv, Waits
<1>5. GivenInv'
  BY <1>1, <1>2 DEF SteerInv, GivenInv
<1>6. AnsweredInv'
  BY <1>1 DEF SteerInv, AnsweredInv
<1> QED BY <1>3, <1>4, <1>5, <1>6 DEF SteerInv

LEMMA AdmittedKeepsOrder == ASSUME SteerInv, NEW i \in DOMAIN steers, Admitted(i) PROVE SteerInv'
<1>1. PICK s \in {"stored", "dropped"} : steers' = [steers EXCEPT ![i] = s]
  BY DEF Admitted
<1>2. /\ steers \in Seq(SteerState) /\ s \in SteerState /\ steers[i] = "admitting"
      /\ cutoff' = cutoff /\ loopAt' = loopAt
      /\ history' = history /\ batch' = batch /\ pos' = pos /\ accepting' = accepting
      /\ turnReason' = turnReason /\ giveFailed' = giveFailed
  BY DEF Admitted, SteerInv, LoopTypes, SteerState
<1>3. /\ steers' \in Seq(SteerState) /\ DOMAIN steers' = DOMAIN steers
      /\ \A j \in DOMAIN steers : j # i => steers'[j] = steers[j]
      /\ steers'[i] = s
  BY <1>1, <1>2
<1>4. \A j \in DOMAIN steers : /\ steers'[j] \in {"admitting", "stored"} => steers[j] \in {"admitting", "stored"}
                               /\ steers'[j] = "given" <=> steers[j] = "given"
  BY <1>2, <1>3
<1>5. LoopTypes'
  BY <1>2, <1>3 DEF SteerInv, LoopTypes
<1>6. WaitingInv'
  <2>1. cutoff \subseteq DOMAIN steers
    BY DEF SteerInv, LoopTypes
  <2> QED BY <1>2, <1>3, <1>4, <2>1 DEF SteerInv, WaitingInv, Waits
<1>7. GivenInv'
  BY <1>2, <1>3, <1>4 DEF SteerInv, GivenInv
<1>8. AnsweredInv'
  BY <1>2 DEF SteerInv, AnsweredInv
<1> QED BY <1>5, <1>6, <1>7, <1>8 DEF SteerInv

LEMMA InterruptKeepsOrder == ASSUME SteerInv, Interrupt PROVE SteerInv'
<1>1. /\ steers' = steers /\ cutoff' = cutoff /\ loopAt' = loopAt
      /\ history' = history /\ batch' = batch /\ pos' = pos /\ accepting' = FALSE
      /\ turnReason' = turnReason /\ giveFailed' = giveFailed
  BY DEF Interrupt
<1>2. LoopTypes' /\ GivenInv' /\ AnsweredInv'
  BY <1>1 DEF SteerInv, LoopTypes, GivenInv, AnsweredInv
<1>3. WaitingInv'
  BY <1>1 DEF SteerInv, WaitingInv, Waits
<1> QED BY <1>2, <1>3 DEF SteerInv

LEMMA CutoffKeepsOrder == ASSUME SteerInv, TakeCutoff PROVE SteerInv'
<1>1. /\ steers' = steers /\ loopAt' = "cutting"
      /\ history' = history /\ batch' = batch /\ pos' = pos
      /\ cutoff' = In("stored") \cup In("admitting")
  BY DEF TakeCutoff
<1>2. \A j \in DOMAIN steers : Waits(j) <=> j \in cutoff'
  BY <1>1 DEF Waits, In
<1>3. cutoff' \subseteq DOMAIN steers /\ loopAt' \notin InCall
  BY <1>1 DEF In, InCall
<1>4. LoopTypes' /\ GivenInv' /\ AnsweredInv'
  BY <1>1, <1>3 DEF SteerInv, LoopTypes, GivenInv, AnsweredInv
<1>5. WaitingInv'
  BY <1>1, <1>2 DEF SteerInv, WaitingInv, Waits
<1> QED BY <1>4, <1>5 DEF SteerInv

LEMMA SettleKeepsOrder == ASSUME SteerInv, Settle PROVE SteerInv'
<1>1. history \in Seq(LoopNode) /\ batch \in Seq(Nat) /\ pos \in Nat \ {0} /\ pos <= Len(batch) + 1
  BY DEF SteerInv, LoopTypes
<1>2. Quiet(history, history)
  BY <1>1, QuietSame
<1>3. /\ steers' = steers /\ cutoff' = cutoff /\ batch' = batch /\ pos' = pos /\ history' = history
      /\ loopAt = "settling" /\ giveFailed' = giveFailed
  BY DEF Settle
<1>4. CASE loopAt' = "top"
  <2>1. loopAt' \notin InCall
    BY <1>4 DEF InCall
  <2> QED BY <1>1, <1>2, <1>3, <1>4, <2>1, QuietKeeps
<1>5. CASE In("stored") = {} /\ Close("end")
  <2>1. \A j \in DOMAIN steers : ~Waits(j)
    BY <1>5 DEF Settle, AllStored, In, Waits
  <2>2. loopAt' = "closing" /\ turnReason' = "end" /\ ~accepting' /\ loopAt' \notin InCall
    BY <1>5 DEF Close, InCall
  <2>3. LoopTypes' /\ GivenInv' /\ AnsweredInv'
    BY <1>3, <2>2 DEF SteerInv, LoopTypes, GivenInv, AnsweredInv
  <2>4. WaitingInv'
    BY <1>3, <2>1, <2>2 DEF SteerInv, WaitingInv, Waits
  <2> QED BY <2>3, <2>4 DEF SteerInv
<1> QED BY <1>4, <1>5 DEF Settle

LEMMA Joined ==
  ASSUME NEW T, NEW h \in Seq(T), NEW n \in Nat, NEW r \in [1..n -> T]
  PROVE  /\ h \o r \in Seq(T) /\ DOMAIN (h \o r) = 1..Len(h) + n
         /\ \A i \in DOMAIN h : (h \o r)[i] = h[i]
         /\ \A i \in 1..n : (h \o r)[Len(h) + i] = r[i]
<1>1. r \in Seq(T) /\ Len(r) = n
  OBVIOUS
<1> QED BY <1>1, ConcatProperties

\* Messages are given in their order, after all that were given before.
LEMMA Given ==
  ASSUME SteerInv, NEW S \in SUBSET DOMAIN steers, \A i \in S : steers[i] = "stored", GiveSteers(S)
  PROVE  /\ history' \in Seq(LoopNode) /\ steers' \in Seq(SteerState) /\ DOMAIN steers' = DOMAIN steers
         /\ \A i \in DOMAIN steers : steers'[i] = IF i \in S THEN "given" ELSE steers[i]
         /\ GivenInv'
         /\ DOMAIN history \subseteq DOMAIN history' /\ \A i \in DOMAIN history : history'[i] = history[i]
         /\ S = {} => DOMAIN history' = DOMAIN history
<1>1. /\ steers \in Seq(SteerState) /\ history \in Seq(LoopNode) /\ Len(steers) \in Nat
      /\ DOMAIN steers = 1..Len(steers) /\ "given" \in SteerState /\ "steer" \in EntryKind
      /\ \A i \in DOMAIN steers : steers[i] \in SteerState
  BY DEF SteerInv, LoopTypes, SteerState, EntryKind
<1>2. S \in SUBSET Nat /\ IsFiniteSet(S)
  <2>1. PICK k \in Nat : k = Len(steers)
    BY <1>1
  <2>2. IsFiniteSet(1..k)
    BY FS_Interval
  <2>3. S \subseteq 1..k
    BY <1>1, <2>1
  <2> QED BY <2>2, <2>3, FS_Subset
<1>3. PICK n \in Nat : n = Cardinality(S)
  BY <1>2, InOrderIs
<1>4. PICK s : s = InOrder(S)
  OBVIOUS
<1>5. s \in [1..n -> S] /\ Ascends(s)
  BY <1>2, <1>3, <1>4, InOrderIs
<1>6. PICK r : r = [i \in 1..n |-> Entry("steer", s[i])]
  OBVIOUS
<1>7. r \in [1..n -> LoopNode] /\ \A i \in 1..n : r[i].kind = "steer" /\ r[i].n = s[i]
  BY <1>1, <1>2, <1>5, <1>6 DEF Entry, LoopNode
<1>8. history' = history \o r
  BY <1>3, <1>4, <1>6 DEF GiveSteers
<1>9. /\ history' \in Seq(LoopNode) /\ DOMAIN history' = 1..Len(history) + n
      /\ \A i \in DOMAIN history : history'[i] = history[i]
      /\ \A i \in 1..n : history'[Len(history) + i] = r[i]
  BY <1>1, <1>7, <1>8, Joined
<1>10. DOMAIN history = 1..Len(history) /\ Len(history) \in Nat
  BY <1>1
<1>11. \A i \in DOMAIN history' : i \notin DOMAIN history => i - Len(history) \in 1..n /\ history'[i] = r[i - Len(history)]
  <2>1. ASSUME NEW i \in DOMAIN history', i \notin DOMAIN history PROVE i - Len(history) \in 1..n /\ i = Len(history) + (i - Len(history))
    BY <1>9, <1>10, <2>1
  <2> QED BY <1>9, <2>1
<1>12. /\ steers' \in Seq(SteerState) /\ DOMAIN steers' = DOMAIN steers
       /\ \A i \in DOMAIN steers : steers'[i] = IF i \in S THEN "given" ELSE steers[i]
  <2>1. steers' = [i \in DOMAIN steers |-> IF i \in S THEN "given" ELSE steers[i]]
    BY DEF GiveSteers
  <2>2. \A i \in DOMAIN steers : (IF i \in S THEN "given" ELSE steers[i]) \in SteerState
    BY <1>1
  <2>3. steers' \in [1..Len(steers) -> SteerState]
    BY <1>1, <2>1, <2>2
  <2>4. steers' \in Seq(SteerState)
    BY <1>1, <2>3
  <2>5. DOMAIN steers' = DOMAIN steers
    BY <2>1
  <2>6. \A i \in DOMAIN steers : steers'[i] = IF i \in S THEN "given" ELSE steers[i]
    BY <2>1
  <2> QED BY <2>4, <2>5, <2>6
<1>13. ASSUME NEW i \in DOMAIN history', history'[i].kind = "steer"
       PROVE  /\ history'[i].n \in DOMAIN steers' /\ steers'[history'[i].n] = "given"
              /\ i \in DOMAIN history => steers[history'[i].n] = "given" /\ history'[i] = history[i]
              /\ i \notin DOMAIN history => history'[i].n = s[i - Len(history)] /\ s[i - Len(history)] \in S
  <2>1. CASE i \in DOMAIN history
    <3>1. history'[i] = history[i] /\ history[i].n \in DOMAIN steers /\ steers[history[i].n] = "given"
      BY <1>9, <1>13, <2>1 DEF SteerInv, GivenInv
    <3> QED BY <1>12, <2>1, <3>1
  <2>2. CASE i \notin DOMAIN history
    <3>1. history'[i].n = s[i - Len(history)] /\ s[i - Len(history)] \in S
      BY <1>5, <1>7, <1>11, <2>2
    <3> QED BY <1>12, <2>2, <3>1
  <2> QED BY <2>1, <2>2
<1>14. ASSUME NEW i \in DOMAIN history', NEW j \in DOMAIN history', i < j,
              history'[i].kind = "steer", history'[j].kind = "steer"
       PROVE  history'[i].n < history'[j].n
  <2>1. CASE j \in DOMAIN history
    <3>1. i \in DOMAIN history
      BY <1>9, <1>10, <1>14, <2>1
    <3> QED BY <1>9, <1>14, <2>1, <3>1 DEF SteerInv, GivenInv
  <2>2. CASE j \notin DOMAIN history /\ i \in DOMAIN history
    <3>1. history'[j].n \in S /\ steers[history'[i].n] = "given" /\ history'[i].n \in DOMAIN steers
      BY <1>12, <1>13, <1>14, <2>2
    <3>2. Waits(history'[j].n) /\ history'[j].n \in DOMAIN steers
      BY <3>1 DEF Waits
    <3> QED BY <3>1, <3>2 DEF SteerInv, WaitingInv
  <2>3. CASE j \notin DOMAIN history /\ i \notin DOMAIN history
    <3>1. history'[i].n = s[i - Len(history)] /\ history'[j].n = s[j - Len(history)]
      BY <1>13, <1>14, <2>3
    <3>2. /\ i - Len(history) \in DOMAIN s /\ j - Len(history) \in DOMAIN s
          /\ i - Len(history) < j - Len(history)
      BY <1>5, <1>9, <1>10, <1>11, <1>14, <2>3
    <3> QED BY <1>5, <3>1, <3>2 DEF Ascends
  <2> QED BY <2>1, <2>2, <2>3
<1>15. GivenInv'
  BY <1>13, <1>14 DEF GivenInv
<1>16. S = {} => DOMAIN history' = DOMAIN history
  <2>1. ASSUME S = {} PROVE n = 0
    BY <1>3, <2>1, FS_EmptySet
  <2> QED BY <1>9, <1>10, <2>1
<1>17. DOMAIN history \subseteq DOMAIN history'
  BY <1>9, <1>10
<1> QED BY <1>9, <1>12, <1>15, <1>16, <1>17

LEMMA MaterializeKeepsOrder == ASSUME SteerInv, Materialize PROVE SteerInv'
<1> DEFINE S == cutoff \cap In("stored")
<1>0. history \in Seq(LoopNode) /\ batch \in Seq(Nat) /\ pos \in Nat \ {0} /\ pos <= Len(batch) + 1
      /\ cutoff \subseteq DOMAIN steers
  BY DEF SteerInv, LoopTypes
<1>1. /\ loopAt = "cutting" /\ cutoff \cap In("admitting") = {} /\ cutoff' = cutoff
      /\ batch' = batch /\ pos' = pos
  BY DEF Materialize, CutoffStored
<1>2. CASE GiveSteers(S) /\ loopAt' = "building" /\ accepting' = accepting /\ giveFailed' = giveFailed
  <2>1. S \in SUBSET DOMAIN steers /\ \A i \in S : steers[i] = "stored"
    BY DEF In
  <2>2. /\ history' \in Seq(LoopNode) /\ steers' \in Seq(SteerState) /\ DOMAIN steers' = DOMAIN steers
        /\ \A i \in DOMAIN steers : steers'[i] = IF i \in S THEN "given" ELSE steers[i]
        /\ GivenInv'
    <3> HIDE DEF S
    <3> QED BY <1>2, <2>1, Given
  <2>3. loopAt' \notin InCall
    BY <1>2 DEF InCall
  <2>4. LoopTypes'
    BY <1>0, <1>1, <2>2, <2>3 DEF LoopTypes
  <2>5. ASSUME NEW i \in DOMAIN steers, NEW j \in DOMAIN steers,
               steers'[i] = "given", steers'[j] \in {"admitting", "stored"}
        PROVE  i < j
    <3>1. j \notin S /\ steers[j] \in {"admitting", "stored"}
      BY <2>2, <2>5
    <3>2. Waits(j) /\ j \notin cutoff
      BY <1>1, <3>1 DEF Waits, In
    <3>3. CASE i \in S
      BY <1>1, <3>2, <3>3 DEF SteerInv, WaitingInv
    <3>4. CASE i \notin S
      <4>1. steers[i] = "given"
        BY <2>2, <2>5, <3>4
      <4> QED BY <3>2, <4>1 DEF SteerInv, WaitingInv
    <3> QED BY <3>3, <3>4
  <2>6. WaitingInv'
    <3>1. \A i, j \in DOMAIN steers' : steers'[i] = "given" /\ steers'[j] \in {"admitting", "stored"} => i < j
      BY <2>2, <2>5
    <3> QED BY <1>2, <3>1 DEF WaitingInv, Waits
  <2>7. AnsweredInv'
    BY <1>2 DEF AnsweredInv
  <2> QED BY <2>2, <2>4, <2>6, <2>7 DEF SteerInv
<1>3. CASE Close("error") /\ history' = history /\ steers' = steers
  <2>1. Quiet(history, history)
    BY <1>0, QuietSame
  <2>2. loopAt' = "closing" /\ turnReason' # "end" /\ accepting' = FALSE /\ loopAt' \notin InCall
    BY <1>3 DEF Close, InCall
  <2> QED BY <1>0, <1>1, <1>3, <2>1, <2>2, QuietKeeps
<1> QED BY <1>2, <1>3 DEF Materialize

LEMMA AskingKeepsOrder ==
  ASSUME SteerInv, AskModel \/ RequestFails \/ \E ids \in Seq(Nat) : ModelAnswers(ids)
  PROVE  SteerInv'
<1>0. history \in Seq(LoopNode) /\ batch \in Seq(Nat) /\ pos \in Nat \ {0} /\ pos <= Len(batch) + 1
  BY DEF SteerInv, LoopTypes
<1>1. Quiet(history, history)
  BY <1>0, QuietSame
<1>2. CASE AskModel
  <2>1. /\ steers' = steers /\ cutoff' = cutoff /\ history' = history /\ batch' = batch /\ pos' = pos
        /\ loopAt' = "streaming" /\ loopAt' \notin InCall
    BY <1>2 DEF AskModel, InCall
  <2> QED BY <1>0, <1>1, <2>1, QuietKeeps
<1>3. CASE RequestFails
  <2>1. /\ steers' = steers /\ cutoff' = cutoff /\ history' = history /\ batch' = batch /\ pos' = pos
        /\ loopAt' = "closing" /\ turnReason' # "end" /\ accepting' = FALSE /\ loopAt' \notin InCall
    BY <1>3 DEF RequestFails, Close, InCall
  <2> QED BY <1>0, <1>1, <2>1, QuietKeeps
<1>4. CASE \E ids \in Seq(Nat) : ModelAnswers(ids)
  <2>1. PICK ids \in Seq(Nat) : ModelAnswers(ids)
    BY <1>4
  <2>2. UsedIds \in SUBSET Nat /\ IsFiniteSet(UsedIds)
    BY <1>0, UsedFinitely
  <2>3. UniqueIds(ids, UsedIds) \in Unlike(UsedIds)
    BY <2>2, IdsUnique
  <2>4. /\ steers' = steers /\ cutoff' = cutoff /\ history' = history
        /\ batch' = UniqueIds(ids, UsedIds) /\ pos' = 1 /\ loopAt' = "recording" /\ loopAt' \notin InCall
    BY <2>1 DEF ModelAnswers, InCall
  <2>5. batch' \in Seq(Nat)
    BY <2>3, <2>4 DEF Unlike
  <2>6. pos' \in Nat \ {0} /\ pos' <= Len(batch') + 1
    BY <2>4, <2>5
  <2> QED BY <1>1, <2>4, <2>5, <2>6, QuietKeeps
<1> QED BY <1>2, <1>3, <1>4

LEMMA RecordKeepsOrder == ASSUME SteerInv, RecordAnswer PROVE SteerInv'
<1>0. history \in Seq(LoopNode) /\ batch \in Seq(Nat) /\ pos \in Nat \ {0} /\ pos <= Len(batch) + 1
  BY DEF SteerInv, LoopTypes
<1>1. /\ steers' = steers /\ cutoff' = cutoff /\ batch' = batch /\ pos' = pos
      /\ history' = Append(history, Entry("assistant", 0)) /\ giveFailed' = giveFailed
      /\ \/ loopAt' = "closing" /\ turnReason' # "end" /\ accepting' = FALSE
         \/ loopAt' = "settling" /\ accepting' = FALSE
         \/ loopAt' = "calls"
  BY DEF RecordAnswer, Close
<1>2. Quiet(history, history')
  BY <1>0, <1>1, QuietAdds DEF EntryKind
<1>3. loopAt' \notin InCall
  BY <1>1 DEF InCall
<1>4. CASE loopAt' # "settling"
  BY <1>0, <1>1, <1>2, <1>3, <1>4, QuietKeeps
<1>5. CASE loopAt' = "settling"
  <2>1. LoopTypes'
    BY <1>1, <1>2, <1>3 DEF SteerInv, LoopTypes, Quiet
  <2>2. WaitingInv'
    BY <1>1, <1>5 DEF SteerInv, WaitingInv, Waits
  <2>3. \A i \in DOMAIN history' : history'[i].kind = "steer" => i \in DOMAIN history /\ history'[i] = history[i]
    BY <1>2 DEF Quiet
  <2>4. GivenInv'
    BY <1>1, <2>3 DEF SteerInv, GivenInv
  <2>5. AnsweredInv'
    <3>1. /\ Len(history) + 1 \in DOMAIN history' /\ \A i \in DOMAIN history : i < Len(history) + 1
          /\ history'[Len(history) + 1] = Entry("assistant", 0)
      BY <1>0, <1>1
    <3>2. history'[Len(history) + 1].kind = "assistant"
      BY <3>1 DEF Entry
    <3> QED BY <2>3, <3>1, <3>2 DEF AnsweredInv
  <2> QED BY <2>1, <2>2, <2>4, <2>5 DEF SteerInv
<1> QED BY <1>4, <1>5

LEMMA FinishKeepsOrder == ASSUME SteerInv, FinishTurn PROVE SteerInv'
<1>0. history \in Seq(LoopNode) /\ batch \in Seq(Nat) /\ pos \in Nat \ {0} /\ pos <= Len(batch) + 1
      /\ cutoff \subseteq DOMAIN steers
  BY DEF SteerInv, LoopTypes
<1>1. /\ loopAt = "closing" /\ In("admitting") = {} /\ loopAt' = "done" /\ cutoff' = cutoff
      /\ batch' = batch /\ pos' = pos /\ accepting' = accepting /\ loopAt' \notin InCall /\ ~accepting
  BY DEF FinishTurn, AllStored, InCall, SteerInv, WaitingInv
<1>2. CASE history' = history /\ steers' = steers /\ giveFailed' = TRUE /\ turnReason' = "interrupted"
  <2>1. LoopTypes' /\ GivenInv' /\ AnsweredInv'
    BY <1>1, <1>2 DEF SteerInv, LoopTypes, GivenInv, AnsweredInv
  <2>2. WaitingInv'
    BY <1>1, <1>2 DEF SteerInv, WaitingInv, Waits
  <2> QED BY <2>1, <2>2 DEF SteerInv
<1>3. CASE ~giveFailed /\ giveFailed' = giveFailed /\ GiveSteers(In("stored")) /\ turnReason' = turnReason
  <2>1. In("stored") \in SUBSET DOMAIN steers /\ \A i \in In("stored") : steers[i] = "stored"
    BY DEF In
  <2>2. /\ history' \in Seq(LoopNode) /\ steers' \in Seq(SteerState) /\ DOMAIN steers' = DOMAIN steers
        /\ \A i \in DOMAIN steers : steers'[i] = IF i \in In("stored") THEN "given" ELSE steers[i]
        /\ GivenInv'
        /\ DOMAIN history \subseteq DOMAIN history' /\ \A i \in DOMAIN history : history'[i] = history[i]
        /\ In("stored") = {} => DOMAIN history' = DOMAIN history
    BY <1>3, <2>1, Given
  <2>3. LoopTypes'
    BY <1>0, <1>1, <2>2 DEF LoopTypes
  <2>4. \A j \in DOMAIN steers' : steers'[j] \notin {"admitting", "stored"}
    BY <1>1, <2>2 DEF In
  <2>5. WaitingInv'
    BY <1>1, <1>3, <2>2, <2>4 DEF WaitingInv, Waits
  <2>6. AnsweredInv'
    <3>1. SUFFICES ASSUME turnReason = "end"
                   PROVE  \E a \in DOMAIN history' :
                            /\ history'[a].kind = "assistant"
                            /\ \A i \in DOMAIN history' : history'[i].kind = "steer" => i < a
      BY <1>1, <1>3 DEF AnsweredInv
    <3>2. In("stored") = {}
      BY <1>1, <3>1 DEF SteerInv, WaitingInv, Waits, In
    <3> QED BY <1>1, <2>2, <3>1, <3>2 DEF SteerInv, AnsweredInv
  <2> QED BY <2>2, <2>3, <2>5, <2>6 DEF SteerInv
<1> QED BY <1>2, <1>3 DEF FinishTurn

LEMMA SteerAlways == LoopSpec => []SteerInv
<1>1. LoopInit => SteerInv
  <2> SUFFICES ASSUME LoopInit PROVE SteerInv
    OBVIOUS
  <2>1. /\ steers = <<>> /\ cutoff = {} /\ loopAt = "top" /\ history = <<>> /\ batch = <<>> /\ pos = 1
    BY DEF LoopInit
  <2>2. DOMAIN steers = {} /\ DOMAIN history = {} /\ Len(batch) = 0 /\ loopAt \notin InCall
    BY <2>1 DEF InCall
  <2>3. LoopTypes
    BY <2>1, <2>2 DEF LoopTypes
  <2> QED BY <2>1, <2>2, <2>3 DEF SteerInv, WaitingInv, GivenInv, AnsweredInv
<1>2. SteerInv /\ [LoopNext]_loopVars => SteerInv'
  <2> SUFFICES ASSUME SteerInv, [LoopNext]_loopVars PROVE SteerInv'
    OBVIOUS
  <2>1. CASE UserSteps
    BY <2>1, SteerKeepsOrder, InterruptKeepsOrder, AdmittedKeepsOrder DEF UserSteps
  <2>2. CASE RequestSteps
    <3>1. ASSUME NEW k \in 0..MaxCalls, NEW ids \in [1..k -> 1..k] PROVE ids \in Seq(Nat)
      <4>1. k \in Nat /\ ids \in [1..k -> Nat]
        BY LoopAssumption
      <4> QED BY <4>1
    <3> QED BY <2>2, <3>1, CutoffKeepsOrder, MaterializeKeepsOrder, AskingKeepsOrder, RecordKeepsOrder,
               SettleKeepsOrder DEF RequestSteps
  <2>3. CASE CallSteps
    BY <2>3, CallsKeepOrder
  <2>4. CASE EndSteps
    BY <2>4, StopsKeepOrder, FinishKeepsOrder DEF EndSteps
  <2>5. CASE UNCHANGED loopVars
    BY <2>5 DEF SteerInv, LoopTypes, WaitingInv, GivenInv, AnsweredInv, Waits
  <2> QED BY <2>1, <2>2, <2>3, <2>4, <2>5 DEF LoopNext
<1> QED BY <1>1, <1>2, PTL DEF LoopSpec

\* A message the engine accepted while the turn runs is answered before the turn completes,
\* in the order the messages were accepted, and is not lost by how the turn ends
\* (src/src/agent/loop.ts).
THEOREM SteersAreHeard == LoopSpec => []SteersHeard
<1>1. SteerInv => SteersHeard
  <2> SUFFICES ASSUME SteerInv PROVE SteersHeard
    OBVIOUS
  <2>1. loopAt = "done" /\ ~giveFailed => In("admitting") \cup In("stored") = {}
    BY DEF SteerInv, WaitingInv, Waits, In
  <2>2. loopAt = "done" /\ turnReason = "end" =>
          \A i \in DOMAIN history : history[i].kind = "steer" =>
            \E a \in DOMAIN history : history[a].kind = "assistant" /\ i < a
    BY DEF SteerInv, AnsweredInv
  <2> QED BY <2>1, <2>2 DEF SteerInv, GivenInv, SteersHeard
<1> QED BY <1>1, SteerAlways, PTL

(* ------------------------- what a request says ------------------------- *)

Says(role, calls, results) == [role |-> role, calls |-> calls, results |-> results]
LoopMessage == [role : {"user", "assistant", "result"}, calls : Seq(Nat), results : Seq(Nat)]

\* The step of each of the two passes, and what its recursive definition asks for.
NodeStep == [x \in Seq(LoopMessage) \X LoopNode |-> NodeAsMessage(x[1], x[2])]
WireStep == [x \in Seq(LoopMessage) \X LoopMessage |-> WireMessage(x[1], x[2])]
MessagesOf(q, f) ==
  f = [k \in 0..Len(q) |-> IF k = 0 THEN <<>> ELSE NodeAsMessage(f[k - 1], q[k])]
WireOf(q, f) ==
  f = [k \in 0..Len(q) |-> IF k = 0 THEN <<>> ELSE WireMessage(f[k - 1], q[k])]

LEMMA SaysTyped ==
  /\ <<>> \in Seq(Nat) /\ \A n \in Nat : <<n>> \in Seq(Nat)
  /\ \A role \in {"user", "assistant", "result"}, c \in Seq(Nat), r \in Seq(Nat) :
       /\ Says(role, c, r) \in LoopMessage /\ Says(role, c, r).role = role
       /\ Says(role, c, r).calls = c /\ Says(role, c, r).results = r
  BY DEF Says, LoopMessage

LEMMA SaysEach ==
  /\ Says("user", <<>>, <<>>) \in LoopMessage /\ Says("assistant", <<>>, <<>>) \in LoopMessage
  /\ \A n \in Nat : Says("result", <<>>, <<n>>) \in LoopMessage
  BY SaysTyped

LEMMA SaysAnswer ==
  ASSUME NEW c \in Seq(Nat), NEW m, m = Says("assistant", c, <<>>)
  PROVE  m \in LoopMessage /\ m.role = "assistant" /\ m.calls = c /\ m.results = <<>>
<1>1. <<>> \in Seq(Nat)
  OBVIOUS
<1> QED BY <1>1 DEF Says, LoopMessage

LEMMA SaysResult ==
  ASSUME NEW r \in Seq(Nat), NEW m, m = Says("result", <<>>, r)
  PROVE  m \in LoopMessage /\ m.role = "result" /\ m.calls = <<>> /\ m.results = r
<1>1. <<>> \in Seq(Nat)
  OBVIOUS
<1> QED BY <1>1 DEF Says, LoopMessage

LEMMA MoreResults ==
  ASSUME NEW c, NEW u, NEW s, s = Says("result", c, u), NEW v
  PROVE  [s EXCEPT !.results = v] = Says("result", c, v)
  BY DEF Says

LEMMA MoreCalls ==
  ASSUME NEW c, NEW u, NEW s, s = Says("assistant", u, c), NEW v
  PROVE  [s EXCEPT !.calls = v] = Says("assistant", v, c)
  BY DEF Says

LEMMA CallJoins ==
  ASSUME NEW c \in Seq(Nat), NEW n \in Nat
  PROVE  JoinsCall(c, n) \in Seq(Nat)
  BY DEF JoinsCall

LEMMA NodeTyped ==
  ASSUME NEW M \in Seq(LoopMessage), NEW e \in LoopNode
  PROVE  NodeAsMessage(M, e) \in Seq(LoopMessage)
<1>1. e.kind \in EntryKind /\ e.n \in Nat
  BY DEF LoopNode
<1>2. PICK n \in Nat : n = e.n
  BY <1>1
<1>3. CASE e.kind = "call"
  <2>1. PICK a : a = CHOOSE i \in DOMAIN M :
                       /\ M[i].role = "assistant"
                       /\ \A j \in DOMAIN M : M[j].role = "assistant" => j <= i
    OBVIOUS
  <2>2. NodeAsMessage(M, e) = [M EXCEPT ![a].calls = JoinsCall(@, n)]
    BY <1>2, <1>3, <2>1 DEF NodeAsMessage
  <2>3. CASE a \in DOMAIN M
    <3>1. PICK m \in LoopMessage : m = M[a]
      BY <2>3
    <3>2. JoinsCall(m.calls, n) \in Seq(Nat)
      BY <3>1, CallJoins DEF LoopMessage
    <3>3. [m EXCEPT !.calls = JoinsCall(@, n)] \in LoopMessage
      BY <3>1, <3>2 DEF LoopMessage
    <3>4. [M EXCEPT ![a] = [m EXCEPT !.calls = JoinsCall(@, n)]] \in Seq(LoopMessage)
      BY <2>3, <3>3
    <3>5. NodeAsMessage(M, e) = [M EXCEPT ![a] = [m EXCEPT !.calls = JoinsCall(@, n)]]
      BY <2>2, <3>1
    <3> QED BY <3>4, <3>5
  <2>4. CASE a \notin DOMAIN M
    <3>1. [M EXCEPT ![a].calls = JoinsCall(@, n)] = M
      BY <2>4
    <3> QED BY <2>2, <3>1
  <2> QED BY <2>3, <2>4
<1>4. CASE e.kind = "steer"
  <2>1. NodeAsMessage(M, e) = Append(M, Says("user", <<>>, <<>>))
    BY <1>4 DEF NodeAsMessage, Says
  <2>2. PICK m \in LoopMessage : m = Says("user", <<>>, <<>>)
    BY SaysEach
  <2>3. Append(M, m) \in Seq(LoopMessage)
    OBVIOUS
  <2> QED BY <2>1, <2>2, <2>3
<1>5. CASE e.kind = "assistant"
  <2>1. NodeAsMessage(M, e) = Append(M, Says("assistant", <<>>, <<>>))
    BY <1>5 DEF NodeAsMessage, Says
  <2>2. PICK m \in LoopMessage : m = Says("assistant", <<>>, <<>>)
    BY SaysEach
  <2>3. Append(M, m) \in Seq(LoopMessage)
    OBVIOUS
  <2> QED BY <2>1, <2>2, <2>3
<1>6. CASE e.kind = "notice"
  <2>1. NodeAsMessage(M, e) = M
    BY <1>6 DEF NodeAsMessage
  <2> QED BY <2>1
<1>7. CASE e.kind \in {"ok", "failed", "refused"}
  <2>1. NodeAsMessage(M, e) = Append(M, Says("result", <<>>, <<n>>))
    BY <1>2, <1>7 DEF NodeAsMessage, Says
  <2>2. PICK m \in LoopMessage : m = Says("result", <<>>, <<n>>)
    BY SaysEach
  <2>3. Append(M, m) \in Seq(LoopMessage)
    OBVIOUS
  <2> QED BY <2>1, <2>2, <2>3
<1> QED BY <1>1, <1>3, <1>4, <1>5, <1>6, <1>7 DEF EntryKind

LEMMA WireTyped ==
  ASSUME NEW w \in Seq(LoopMessage), NEW m \in LoopMessage
  PROVE  WireMessage(w, m) \in Seq(LoopMessage)
<1>1. CASE m.role = "result" /\ w # <<>> /\ Last(w).results # <<>>
  <2>1. PICK k \in Nat : k = Len(w)
    OBVIOUS
  <2>2. k \in DOMAIN w
    BY <1>1, <2>1
  <2>3. PICK l \in LoopMessage : l = w[k]
    BY <2>2
  <2>4. l.results \in Seq(Nat) /\ m.results \in Seq(Nat)
    BY DEF LoopMessage
  <2>5. l.results \o m.results \in Seq(Nat)
    BY <2>4, ConcatProperties
  <2>6. [l EXCEPT !.results = @ \o m.results] \in LoopMessage
    BY <2>5 DEF LoopMessage
  <2>7. [w EXCEPT ![k] = [l EXCEPT !.results = @ \o m.results]] \in Seq(LoopMessage)
    BY <2>2, <2>6
  <2>8. WireMessage(w, m) = [w EXCEPT ![k] = [l EXCEPT !.results = @ \o m.results]]
    BY <1>1, <2>1, <2>3 DEF WireMessage
  <2> QED BY <2>7, <2>8
<1>2. CASE ~(m.role = "result" /\ w # <<>> /\ Last(w).results # <<>>)
  <2>1. WireMessage(w, m) = Append(w, m)
    BY <1>2 DEF WireMessage
  <2> QED BY <2>1
<1> QED BY <1>1, <1>2

LEMMA Stepping ==
  /\ NodeStep \in [Seq(LoopMessage) \X LoopNode -> Seq(LoopMessage)]
  /\ \A M \in Seq(LoopMessage), e \in LoopNode : NodeStep[<<M, e>>] = NodeAsMessage(M, e)
  /\ WireStep \in [Seq(LoopMessage) \X LoopMessage -> Seq(LoopMessage)]
  /\ \A w \in Seq(LoopMessage), m \in LoopMessage : WireStep[<<w, m>>] = WireMessage(w, m)
<1>1. NodeStep \in [Seq(LoopMessage) \X LoopNode -> Seq(LoopMessage)]
  BY NodeTyped DEF NodeStep
<1>2. \A M \in Seq(LoopMessage), e \in LoopNode : NodeStep[<<M, e>>] = NodeAsMessage(M, e)
  BY DEF NodeStep
<1>3. WireStep \in [Seq(LoopMessage) \X LoopMessage -> Seq(LoopMessage)]
  BY WireTyped DEF WireStep
<1>4. \A w \in Seq(LoopMessage), m \in LoopMessage : WireStep[<<w, m>>] = WireMessage(w, m)
  BY DEF WireStep
<1> QED BY <1>1, <1>2, <1>3, <1>4

LEMMA NodeIterable ==
  ASSUME NEW q \in Seq(LoopNode)
  PROVE  Iterable(Seq(LoopMessage), LoopNode, <<>>, NodeStep, q)
  BY Stepping DEF Iterable

LEMMA WireIterable ==
  ASSUME NEW q \in Seq(LoopMessage)
  PROVE  Iterable(Seq(LoopMessage), LoopMessage, <<>>, WireStep, q)
  BY Stepping DEF Iterable

LEMMA MessagesFollow ==
  ASSUME NEW q \in Seq(LoopNode)
  PROVE  \E h : Follows(Seq(LoopMessage), <<>>, NodeStep, q, h) /\ Messages(q) = h[Len(q)]
<1> DEFINE S == Seq(LoopMessage)
<1>1. Len(q) \in Nat /\ \A k \in 1..Len(q) : q[k] \in LoopNode
  OBVIOUS
<1>2. PICK f \in [0..Len(q) -> S] : f[0] = <<>> /\ \A k \in 1..Len(q) : f[k] = NodeStep[<<f[k - 1], q[k]>>]
  <2>1. Iterable(S, LoopNode, <<>>, NodeStep, q)
    BY NodeIterable
  <2> HIDE DEF S
  <2> QED BY <2>1, Iterates
<1>3. MessagesOf(q, f)
  <2>1. ASSUME NEW k \in 0..Len(q), k # 0 PROVE f[k] = NodeAsMessage(f[k - 1], q[k])
    <3>1. k \in 1..Len(q) /\ k - 1 \in 0..Len(q)
      BY <1>1, <2>1
    <3>2. f[k - 1] \in S /\ q[k] \in LoopNode
      BY <1>1, <1>2, <3>1
    <3>3. NodeStep[<<f[k - 1], q[k]>>] = NodeAsMessage(f[k - 1], q[k])
      BY <3>2, Stepping
    <3> QED BY <1>2, <3>1, <3>3
  <2>2. \A k \in 0..Len(q) : f[k] = IF k = 0 THEN <<>> ELSE NodeAsMessage(f[k - 1], q[k])
    BY <1>2, <2>1
  <2>3. DOMAIN f = 0..Len(q)
    BY <1>2
  <2> QED BY <1>2, <2>2, <2>3 DEF MessagesOf
<1>4. PICK h : MessagesOf(q, h) /\ Messages(q) = h[Len(q)]
  <2>1. Messages(q) = (CHOOSE h : MessagesOf(q, h))[Len(q)]
    BY DEF Messages, MessagesOf
  <2> QED BY <1>3, <2>1
<1>5. h[0] = <<>>
  BY <1>1, <1>4 DEF MessagesOf
<1>6. ASSUME NEW k \in 1..Len(q), h[k - 1] \in S PROVE h[k] = NodeStep[<<h[k - 1], q[k]>>]
  <2>1. k \in 0..Len(q) /\ k # 0
    BY <1>1
  <2>2. h[k] = NodeAsMessage(h[k - 1], q[k])
    BY <1>4, <2>1 DEF MessagesOf
  <2> QED BY <1>1, <1>6, <2>2, Stepping
<1>7. Follows(S, <<>>, NodeStep, q, h)
  <2> HIDE DEF S
  <2> QED BY <1>5, <1>6 DEF Follows
<1> QED BY <1>4, <1>7

LEMMA WireFollows ==
  ASSUME NEW q \in Seq(LoopMessage)
  PROVE  \E h : Follows(Seq(LoopMessage), <<>>, WireStep, q, h) /\ Wire(q) = h[Len(q)]
<1> DEFINE S == Seq(LoopMessage)
<1>1. Len(q) \in Nat /\ \A k \in 1..Len(q) : q[k] \in LoopMessage
  OBVIOUS
<1>2. PICK f \in [0..Len(q) -> S] : f[0] = <<>> /\ \A k \in 1..Len(q) : f[k] = WireStep[<<f[k - 1], q[k]>>]
  <2>1. Iterable(S, LoopMessage, <<>>, WireStep, q)
    BY WireIterable
  <2> HIDE DEF S
  <2> QED BY <2>1, Iterates
<1>3. WireOf(q, f)
  <2>1. ASSUME NEW k \in 0..Len(q), k # 0 PROVE f[k] = WireMessage(f[k - 1], q[k])
    <3>1. k \in 1..Len(q) /\ k - 1 \in 0..Len(q)
      BY <1>1, <2>1
    <3>2. f[k - 1] \in S /\ q[k] \in LoopMessage
      BY <1>1, <1>2, <3>1
    <3>3. WireStep[<<f[k - 1], q[k]>>] = WireMessage(f[k - 1], q[k])
      BY <3>2, Stepping
    <3> QED BY <1>2, <3>1, <3>3
  <2>2. \A k \in 0..Len(q) : f[k] = IF k = 0 THEN <<>> ELSE WireMessage(f[k - 1], q[k])
    BY <1>2, <2>1
  <2>3. DOMAIN f = 0..Len(q)
    BY <1>2
  <2> QED BY <1>2, <2>2, <2>3 DEF WireOf
<1>4. PICK h : WireOf(q, h) /\ Wire(q) = h[Len(q)]
  <2>1. Wire(q) = (CHOOSE h : WireOf(q, h))[Len(q)]
    BY DEF Wire, WireOf
  <2> QED BY <1>3, <2>1
<1>5. h[0] = <<>>
  BY <1>1, <1>4 DEF WireOf
<1>6. ASSUME NEW k \in 1..Len(q), h[k - 1] \in S PROVE h[k] = WireStep[<<h[k - 1], q[k]>>]
  <2>1. k \in 0..Len(q) /\ k # 0
    BY <1>1
  <2>2. h[k] = WireMessage(h[k - 1], q[k])
    BY <1>4, <2>1 DEF WireOf
  <2> QED BY <1>1, <1>6, <2>2, Stepping
<1>7. Follows(S, <<>>, WireStep, q, h)
  <2> HIDE DEF S
  <2> QED BY <1>5, <1>6 DEF Follows
<1> QED BY <1>4, <1>7

\* One more node, or message, is one more step.
LEMMA MessagesGrow ==
  ASSUME NEW q \in Seq(LoopNode), NEW e \in LoopNode
  PROVE  /\ Messages(q) \in Seq(LoopMessage)
         /\ Messages(Append(q, e)) = NodeAsMessage(Messages(q), e)
         /\ Messages(Append(q, e)) \in Seq(LoopMessage)
<1>1. PICK n \in Nat : n = Len(q)
  OBVIOUS
<1>2. PICK r \in Seq(LoopNode) : r = Append(q, e)
  <2>1. Append(q, e) \in Seq(LoopNode)
    BY Added
  <2> QED BY <2>1
<1>3. Len(r) = n + 1 /\ r[n + 1] = e /\ \A k \in 1..n : r[k] = q[k]
  BY <1>1, <1>2
<1>4. PICK h : Follows(Seq(LoopMessage), <<>>, NodeStep, q, h) /\ Messages(q) = h[n]
  BY <1>1, MessagesFollow
<1>5. PICK f : Follows(Seq(LoopMessage), <<>>, NodeStep, r, f) /\ Messages(r) = f[n + 1]
  BY <1>2, <1>3, MessagesFollow
<1>6. /\ Iterable(Seq(LoopMessage), LoopNode, <<>>, NodeStep, q)
      /\ Iterable(Seq(LoopMessage), LoopNode, <<>>, NodeStep, r)
  BY NodeIterable
<1>7. h[n] \in Seq(LoopMessage)
  BY <1>1, <1>4, <1>6, Iterated
<1>8. \A k \in 0..n : h[k] = f[k]
  <2>1. n <= Len(q) /\ n <= Len(r) /\ \A k \in 1..n : q[k] = r[k]
    BY <1>1, <1>3
  <2> QED BY <1>4, <1>5, <1>6, <2>1, IterationsAgree
<1>9. h[n] = f[n]
  BY <1>8
<1>10. f[n + 1] = NodeStep[<<f[n], e>>]
  <2>1. n + 1 \in 1..Len(r) /\ n + 1 - 1 = n
    BY <1>3
  <2> QED BY <1>3, <1>5, <1>7, <1>9, <2>1 DEF Follows
<1>11. f[n + 1] = NodeAsMessage(f[n], e)
  BY <1>7, <1>9, <1>10, Stepping
<1>12. NodeAsMessage(f[n], e) \in Seq(LoopMessage)
  BY <1>7, <1>9, NodeTyped
<1> QED BY <1>2, <1>4, <1>5, <1>7, <1>9, <1>11, <1>12

LEMMA WireGrows ==
  ASSUME NEW q \in Seq(LoopMessage), NEW e \in LoopMessage
  PROVE  /\ Wire(q) \in Seq(LoopMessage)
         /\ Wire(Append(q, e)) = WireMessage(Wire(q), e)
         /\ Wire(Append(q, e)) \in Seq(LoopMessage)
<1>1. PICK n \in Nat : n = Len(q)
  OBVIOUS
<1>2. PICK r \in Seq(LoopMessage) : r = Append(q, e)
  <2>1. Append(q, e) \in Seq(LoopMessage)
    BY Added
  <2> QED BY <2>1
<1>3. Len(r) = n + 1 /\ r[n + 1] = e /\ \A k \in 1..n : r[k] = q[k]
  BY <1>1, <1>2
<1>4. PICK h : Follows(Seq(LoopMessage), <<>>, WireStep, q, h) /\ Wire(q) = h[n]
  BY <1>1, WireFollows
<1>5. PICK f : Follows(Seq(LoopMessage), <<>>, WireStep, r, f) /\ Wire(r) = f[n + 1]
  BY <1>2, <1>3, WireFollows
<1>6. /\ Iterable(Seq(LoopMessage), LoopMessage, <<>>, WireStep, q)
      /\ Iterable(Seq(LoopMessage), LoopMessage, <<>>, WireStep, r)
  BY WireIterable
<1>7. h[n] \in Seq(LoopMessage)
  BY <1>1, <1>4, <1>6, Iterated
<1>8. \A k \in 0..n : h[k] = f[k]
  <2>1. n <= Len(q) /\ n <= Len(r) /\ \A k \in 1..n : q[k] = r[k]
    BY <1>1, <1>3
  <2> QED BY <1>4, <1>5, <1>6, <2>1, IterationsAgree
<1>9. h[n] = f[n]
  BY <1>8
<1>10. f[n + 1] = WireStep[<<f[n], e>>]
  <2>1. n + 1 \in 1..Len(r) /\ n + 1 - 1 = n
    BY <1>3
  <2> QED BY <1>3, <1>5, <1>7, <1>9, <2>1 DEF Follows
<1>11. f[n + 1] = WireMessage(f[n], e)
  BY <1>7, <1>9, <1>10, Stepping
<1>12. WireMessage(f[n], e) \in Seq(LoopMessage)
  BY <1>7, <1>9, WireTyped
<1> QED BY <1>2, <1>4, <1>5, <1>7, <1>9, <1>11, <1>12

LEMMA NothingSaid == Messages(<<>>) = <<>> /\ Wire(<<>>) = <<>>
<1>1. <<>> \in Seq(LoopNode) /\ <<>> \in Seq(LoopMessage) /\ Len(<<>>) = 0
  OBVIOUS
<1>2. Messages(<<>>) = <<>>
  BY <1>1, MessagesFollow DEF Follows
<1>3. Wire(<<>>) = <<>>
  BY <1>1, WireFollows DEF Follows
<1> QED BY <1>2, <1>3

\* The messages while the calls of an answer are carried out: the answer with the k calls
\* that are written, and a result for each of the first n.
Told(P, calls, k, n) ==
  Append(P, Says("assistant", SubSeq(calls, 1, k), <<>>))
    \o [i \in 1..n |-> Says("result", <<>>, <<calls[i]>>)]
\* They are two messages of a request, or one.
ToldWire(w, calls, k, n) ==
  IF n = 0 THEN Append(w, Says("assistant", SubSeq(calls, 1, k), <<>>))
  ELSE Append(Append(w, Says("assistant", SubSeq(calls, 1, k), <<>>)),
              Says("result", <<>>, SubSeq(calls, 1, n)))

LEMMA ToldIs ==
  ASSUME NEW P \in Seq(LoopMessage), NEW calls \in Seq(Nat), NEW k \in 0..Len(calls), NEW n \in 0..Len(calls)
  PROVE  /\ Told(P, calls, k, n) \in Seq(LoopMessage) /\ Len(Told(P, calls, k, n)) = Len(P) + 1 + n
         /\ \A i \in DOMAIN P : Told(P, calls, k, n)[i] = P[i]
         /\ Told(P, calls, k, n)[Len(P) + 1] = Says("assistant", SubSeq(calls, 1, k), <<>>)
         /\ \A i \in 1..n : Told(P, calls, k, n)[Len(P) + 1 + i] = Says("result", <<>>, <<calls[i]>>)
<1>1. SubSeq(calls, 1, k) \in Seq(Nat) /\ Len(calls) \in Nat /\ n \in Nat
  BY FirstOnes
<1>2. PICK m : m = Says("assistant", SubSeq(calls, 1, k), <<>>)
  OBVIOUS
<1>3. m \in LoopMessage
  BY <1>1, <1>2, SaysTyped
<1>4. PICK r : r = [i \in 1..n |-> Says("result", <<>>, <<calls[i]>>)]
  OBVIOUS
<1>5. r \in [1..n -> LoopMessage] /\ \A i \in 1..n : r[i] = Says("result", <<>>, <<calls[i]>>)
  <2>1. \A i \in 1..n : calls[i] \in Nat
    OBVIOUS
  <2>2. \A i \in 1..n : Says("result", <<>>, <<calls[i]>>) \in LoopMessage
    BY <2>1, SaysEach
  <2> QED BY <1>4, <2>2
<1>6. /\ Append(P, m) \in Seq(LoopMessage) /\ Len(Append(P, m)) = Len(P) + 1
      /\ \A i \in DOMAIN P : Append(P, m)[i] = P[i] /\ i \in DOMAIN Append(P, m)
      /\ Append(P, m)[Len(P) + 1] = m /\ Len(P) + 1 \in DOMAIN Append(P, m) /\ Len(P) \in Nat
  BY <1>3
<1>7. PICK A \in Seq(LoopMessage) : A = Append(P, m)
  BY <1>6
<1>8. /\ A \o r \in Seq(LoopMessage) /\ DOMAIN (A \o r) = 1..Len(A) + n
      /\ \A i \in DOMAIN A : (A \o r)[i] = A[i]
      /\ \A i \in 1..n : (A \o r)[Len(A) + i] = r[i]
  BY <1>1, <1>5, Joined
<1>9. Told(P, calls, k, n) = A \o r
  BY <1>2, <1>4, <1>7 DEF Told
<1>10. Len(A \o r) = Len(A) + n
  BY <1>1, <1>7, <1>8
<1> QED BY <1>2, <1>5, <1>6, <1>7, <1>8, <1>9, <1>10

LEMMA ToldMore ==
  ASSUME NEW P \in Seq(LoopMessage), NEW calls \in Seq(Nat), NEW k \in 0..Len(calls),
         NEW n \in Nat, n + 1 <= Len(calls)
  PROVE  Append(Told(P, calls, k, n), Says("result", <<>>, <<calls[n + 1]>>)) = Told(P, calls, k, n + 1)
<1>1. n \in 0..Len(calls) /\ n + 1 \in 0..Len(calls) /\ calls[n + 1] \in Nat /\ Len(P) \in Nat
  OBVIOUS
<1>2. PICK m : m = Says("result", <<>>, <<calls[n + 1]>>)
  OBVIOUS
<1>3. m \in LoopMessage
  BY <1>1, <1>2, SaysEach
<1>4. PICK T : T = Told(P, calls, k, n)
  OBVIOUS
<1>5. PICK V : V = Told(P, calls, k, n + 1)
  OBVIOUS
<1>0. PICK p \in Nat : p = Len(P) /\ DOMAIN P = 1..p
  OBVIOUS
<1>6. /\ T \in Seq(LoopMessage) /\ Len(T) = Len(P) + 1 + n
      /\ \A i \in DOMAIN P : T[i] = P[i]
      /\ T[Len(P) + 1] = Says("assistant", SubSeq(calls, 1, k), <<>>)
      /\ \A i \in 1..n : T[Len(P) + 1 + i] = Says("result", <<>>, <<calls[i]>>)
  <2>1. n \in 0..Len(calls)
    BY <1>1
  <2>2. /\ Told(P, calls, k, n) \in Seq(LoopMessage) /\ Len(Told(P, calls, k, n)) = Len(P) + 1 + n
        /\ \A i \in DOMAIN P : Told(P, calls, k, n)[i] = P[i]
        /\ Told(P, calls, k, n)[Len(P) + 1] = Says("assistant", SubSeq(calls, 1, k), <<>>)
        /\ \A i \in 1..n : Told(P, calls, k, n)[Len(P) + 1 + i] = Says("result", <<>>, <<calls[i]>>)
    BY <2>1, ToldIs
  <2> QED BY <1>4, <2>2
<1>7. /\ V \in Seq(LoopMessage) /\ Len(V) = Len(P) + 1 + (n + 1)
      /\ \A i \in DOMAIN P : V[i] = P[i]
      /\ V[Len(P) + 1] = Says("assistant", SubSeq(calls, 1, k), <<>>)
      /\ \A i \in 1..n + 1 : V[Len(P) + 1 + i] = Says("result", <<>>, <<calls[i]>>)
  <2>1. n + 1 \in 0..Len(calls)
    BY <1>1
  <2> QED BY <1>5, <2>1, ToldIs
<1>8. /\ Append(T, m) \in Seq(LoopMessage) /\ Len(Append(T, m)) = Len(T) + 1
      /\ \A i \in 1..Len(T) : Append(T, m)[i] = T[i]
      /\ Append(T, m)[Len(T) + 1] = m
  <2>1. T \in Seq(LoopMessage) /\ Len(T) \in Nat /\ DOMAIN T = 1..Len(T)
    BY <1>6
  <2>2. Append(T, m) \in Seq(LoopMessage) /\ DOMAIN Append(T, m) = DOMAIN T \cup {Len(T) + 1}
        /\ (\A i \in DOMAIN T : Append(T, m)[i] = T[i]) /\ Append(T, m)[Len(T) + 1] = m
    BY <1>3, <2>1, Added
  <2>3. Len(Append(T, m)) = Len(T) + 1
    BY <2>1, <2>2
  <2> QED BY <2>1, <2>2, <2>3
<1>9. ASSUME NEW i \in 1..Len(V) PROVE Append(T, m)[i] = V[i]
  <2>1. CASE i \in DOMAIN P
    BY <1>1, <1>6, <1>7, <1>8, <2>1
  <2>2. CASE i = Len(P) + 1
    BY <1>1, <1>6, <1>7, <1>8, <2>2
  <2>3. CASE i = Len(P) + 1 + (n + 1)
    <3>1. V[i] = m /\ i = Len(T) + 1
      BY <1>1, <1>2, <1>6, <1>7, <2>3
    <3> QED BY <1>8, <3>1
  <2>4. CASE i - (Len(P) + 1) \in 1..n
    <3>1. PICK j \in 1..n : j = i - (Len(P) + 1)
      BY <2>4
    <3>2. i = Len(P) + 1 + j /\ j \in 1..n + 1 /\ i \in 1..Len(T)
      BY <1>1, <1>6, <3>1
    <3> QED BY <1>6, <1>7, <1>8, <3>2
  <2>5. i \in DOMAIN P \/ i = Len(P) + 1 \/ i = Len(P) + 1 + (n + 1) \/ i - (Len(P) + 1) \in 1..n
    <3>1. i \in 1..p + 1 + (n + 1)
      BY <1>0, <1>7, <1>9
    <3>2. i \in 1..p \/ i = p + 1 \/ i = p + 1 + (n + 1) \/ i - (p + 1) \in 1..n
      BY <3>1
    <3> QED BY <1>0, <3>2
  <2> QED BY <2>1, <2>2, <2>3, <2>4, <2>5
<1>10. Len(Append(T, m)) = Len(V)
  BY <1>1, <1>6, <1>7, <1>8
<1>11. Append(T, m) = V
  BY <1>7, <1>8, <1>9, <1>10, SeqEqual
<1> QED BY <1>2, <1>4, <1>5, <1>11

LEMMA WireTold ==
  ASSUME NEW P \in Seq(LoopMessage), NEW calls \in Seq(Nat), NEW k \in 0..Len(calls), NEW n \in 0..Len(calls)
  PROVE  Wire(Told(P, calls, k, n)) = ToldWire(Wire(P), calls, k, n)
<1> DEFINE Bad == {m \in Nat : m <= Len(calls) /\ Wire(Told(P, calls, k, m)) # ToldWire(Wire(P), calls, k, m)}
<1>1. Len(calls) \in Nat /\ SubSeq(calls, 1, k) \in Seq(Nat)
  BY FirstOnes
<1>2. PICK a : a = Says("assistant", SubSeq(calls, 1, k), <<>>)
  OBVIOUS
<1>3. a \in LoopMessage /\ a.role = "assistant" /\ a.results = <<>>
  BY <1>1, <1>2, SaysAnswer
<1>4. PICK w : w = Wire(P)
  OBVIOUS
<1>5. w \in Seq(LoopMessage)
  BY <1>3, <1>4, WireGrows
<1>6. PICK wa : wa = Append(w, a)
  OBVIOUS
<1>7. wa \in Seq(LoopMessage) /\ wa # <<>> /\ Last(wa) = a
  <2>1. /\ wa \in Seq(LoopMessage) /\ wa # <<>> /\ DOMAIN wa = DOMAIN w \cup {Len(w) + 1}
        /\ wa[Len(w) + 1] = a /\ Len(w) + 1 \notin DOMAIN w
    BY <1>3, <1>5, <1>6, Added
  <2>2. Len(wa) = Len(w) + 1
    BY <1>3, <1>5, <1>6
  <2> QED BY <2>1, <2>2 DEF Last
<1>8. Told(P, calls, k, 0) = Append(P, a)
  <2>1. PICK T \in Seq(LoopMessage) : T = Append(P, a)
    <3>1. Append(P, a) \in Seq(LoopMessage)
      BY <1>3, Added
    <3> QED BY <3>1
  <2>2. [i \in 1..0 |-> Says("result", <<>>, <<calls[i]>>)] = <<>>
    OBVIOUS
  <2>3. Told(P, calls, k, 0) = T \o <<>>
    BY <1>2, <2>1, <2>2 DEF Told
  <2>4. T \o <<>> = T
    BY ConcatEmptySeq
  <2> QED BY <2>1, <2>3, <2>4
<1>9. Wire(Told(P, calls, k, 0)) = wa
  <2>1. Wire(Append(P, a)) = WireMessage(w, a)
    BY <1>3, <1>4, WireGrows
  <2>2. WireMessage(w, a) = wa
    BY <1>3, <1>6 DEF WireMessage
  <2> QED BY <1>8, <2>1, <2>2
<1>10. ASSUME NEW m \in Nat, m + 1 <= Len(calls), Wire(Told(P, calls, k, m)) = ToldWire(w, calls, k, m)
       PROVE  Wire(Told(P, calls, k, m + 1)) = ToldWire(w, calls, k, m + 1)
  <2>1. m \in 0..Len(calls) /\ m + 1 \in DOMAIN calls /\ calls[m + 1] \in Nat
    BY <1>1, <1>10
  <2>2. PICK r : r = Says("result", <<>>, <<calls[m + 1]>>)
    OBVIOUS
  <2>3. r \in LoopMessage /\ r.role = "result" /\ r.results = <<calls[m + 1]>>
    <3>1. <<calls[m + 1]>> \in Seq(Nat)
      BY <2>1
    <3> QED BY <2>2, <3>1, SaysResult
  <2>4. PICK T : T = Told(P, calls, k, m)
    OBVIOUS
  <2>5. T \in Seq(LoopMessage)
    BY <2>1, <2>4, ToldIs
  <2>6. Told(P, calls, k, m + 1) = Append(T, r)
    BY <1>10, <2>2, <2>4, ToldMore
  <2>7. Wire(Append(T, r)) = WireMessage(ToldWire(w, calls, k, m), r)
    BY <1>10, <2>3, <2>4, <2>5, WireGrows
  <2>8. CASE m = 0
    <3>1. ToldWire(w, calls, k, m) = wa
      BY <1>2, <1>6, <2>8 DEF ToldWire
    <3>2. WireMessage(wa, r) = Append(wa, r)
      BY <1>3, <1>7 DEF WireMessage
    <3>3. <<calls[m + 1]>> = SubSeq(calls, 1, m + 1)
      <4>1. SubSeq(calls, 1, 0) \in Seq(Nat) /\ Len(SubSeq(calls, 1, 0)) = 0
        BY <1>1, FirstOnes
      <4>2. SubSeq(calls, 1, 0) = <<>>
        BY <4>1, EmptySeq
      <4>3. SubSeq(calls, 1, 0) \o <<calls[0 + 1]>> = SubSeq(calls, 1, 0 + 1)
        BY <2>1, <2>8, FirstOnesMore
      <4>4. <<>> \o <<calls[0 + 1]>> = <<calls[0 + 1]>>
        BY <2>1, <2>8
      <4> QED BY <2>8, <4>2, <4>3, <4>4
    <3>4. ToldWire(w, calls, k, m + 1) = Append(wa, r)
      <4>1. m + 1 # 0
        BY <1>10
      <4> QED BY <1>2, <1>6, <2>2, <3>3, <4>1 DEF ToldWire
    <3> QED BY <2>6, <2>7, <3>1, <3>2, <3>4
  <2>9. CASE m # 0
    <3>1. PICK s : s = Says("result", <<>>, SubSeq(calls, 1, m))
      OBVIOUS
    <3>2. SubSeq(calls, 1, m) \in Seq(Nat) /\ Len(SubSeq(calls, 1, m)) = m
      BY <2>1, FirstOnes
    <3>3. s \in LoopMessage /\ s.results = SubSeq(calls, 1, m) /\ s.results # <<>>
      <4>1. s \in LoopMessage /\ s.results = SubSeq(calls, 1, m)
        BY <3>1, <3>2, SaysResult
      <4>2. SubSeq(calls, 1, m) # <<>>
        BY <2>9, <3>2
      <4> QED BY <4>1, <4>2
    <3>4. ToldWire(w, calls, k, m) = Append(wa, s)
      BY <1>2, <1>6, <2>9, <3>1 DEF ToldWire
    <3>5. PICK x \in Seq(LoopMessage) : x = Append(wa, s)
      <4>1. Append(wa, s) \in Seq(LoopMessage)
        BY <1>7, <3>3, Added
      <4> QED BY <4>1
    <3>6. PICK j \in Nat : j = Len(wa)
      BY <1>7
    <3>7. x # <<>> /\ Len(x) = j + 1 /\ x[j + 1] = s /\ \A i \in 1..j : x[i] = wa[i]
      <4>1. /\ x # <<>> /\ DOMAIN x = DOMAIN wa \cup {j + 1} /\ x[j + 1] = s
            /\ \A i \in DOMAIN wa : x[i] = wa[i]
        BY <1>7, <3>3, <3>5, <3>6, Added
      <4>2. Len(x) = j + 1 /\ DOMAIN wa = 1..j
        BY <1>7, <3>3, <3>5, <3>6
      <4> QED BY <4>1, <4>2
    <3>8. WireMessage(x, r) = [x EXCEPT ![j + 1].results = @ \o r.results]
      BY <2>3, <3>3, <3>7 DEF WireMessage, Last
    <3>9. PICK y : y = Says("result", <<>>, SubSeq(calls, 1, m + 1))
      OBVIOUS
    <3>10. s.results \o r.results = SubSeq(calls, 1, m + 1)
      BY <2>1, <2>3, <3>3, FirstOnesMore
    <3>11. [s EXCEPT !.results = @ \o r.results] = y
      <4>1. PICK v : v = s.results \o r.results
        OBVIOUS
      <4>2. [s EXCEPT !.results = v] = Says("result", <<>>, v)
        BY <3>1, MoreResults
      <4>3. Says("result", <<>>, v) = y
        BY <3>9, <3>10, <4>1
      <4>4. [s EXCEPT !.results = @ \o r.results] = [s EXCEPT !.results = v]
        BY <4>1
      <4> QED BY <4>2, <4>3, <4>4
    <3>12. [x EXCEPT ![j + 1].results = @ \o r.results] = [x EXCEPT ![j + 1] = y]
      BY <3>7, <3>11
    <3>13. y \in LoopMessage
      <4>1. SubSeq(calls, 1, m + 1) \in Seq(Nat)
        BY <1>1, <1>10, FirstOnes
      <4> QED BY <3>9, <4>1, SaysResult
    <3>14. [x EXCEPT ![j + 1] = y] = Append(wa, y)
      <4>1. /\ Append(wa, y) \in Seq(LoopMessage) /\ Len(Append(wa, y)) = j + 1
            /\ Append(wa, y)[j + 1] = y /\ \A i \in 1..j : Append(wa, y)[i] = wa[i]
        BY <1>7, <3>6, <3>13
      <4>2. PICK z : z = [x EXCEPT ![j + 1] = y]
        OBVIOUS
      <4>3. z \in Seq(LoopMessage) /\ Len(z) = j + 1 /\ z[j + 1] = y /\ \A i \in 1..j : z[i] = x[i]
        BY <3>7, <3>13, <4>2
      <4>4. \A i \in 1..j + 1 : i = j + 1 \/ i \in 1..j
        OBVIOUS
      <4>5. \A i \in 1..j + 1 : z[i] = Append(wa, y)[i]
        BY <3>7, <4>1, <4>3, <4>4
      <4>6. z = Append(wa, y)
        BY <4>1, <4>3, <4>5, SeqEqual
      <4> QED BY <4>2, <4>6
    <3>15. m + 1 # 0
      OBVIOUS
    <3>16. ToldWire(w, calls, k, m + 1) = Append(wa, y)
      BY <1>2, <1>6, <3>9, <3>15 DEF ToldWire
    <3> QED BY <2>6, <2>7, <3>4, <3>5, <3>8, <3>12, <3>14, <3>16
  <2> QED BY <2>8, <2>9
<1>11. ASSUME Bad # {} PROVE FALSE
  <2>1. PICK m \in Bad : \A j \in Bad : m <= j
    <3>1. Bad \in SUBSET Nat
      OBVIOUS
    <3> HIDE DEF Bad
    <3> QED BY <1>11, <3>1, Least
  <2>2. m # 0
    <3>1. Wire(Told(P, calls, k, 0)) = ToldWire(Wire(P), calls, k, 0)
      BY <1>2, <1>4, <1>6, <1>9 DEF ToldWire
    <3> QED BY <2>1, <3>1
  <2>3. m \in Nat /\ m <= Len(calls)
    BY <2>1
  <2>4. m - 1 \in Nat /\ m - 1 < m /\ m - 1 <= Len(calls) /\ (m - 1) + 1 <= Len(calls) /\ (m - 1) + 1 = m
    BY <1>1, <2>2, <2>3
  <2>5. m - 1 \notin Bad
    <3> HIDE DEF Bad
    <3> QED BY <2>1, <2>3, <2>4
  <2>6. Wire(Told(P, calls, k, m - 1)) = ToldWire(w, calls, k, m - 1)
    BY <1>4, <2>4, <2>5
  <2>7. Wire(Told(P, calls, k, (m - 1) + 1)) = ToldWire(w, calls, k, (m - 1) + 1)
    BY <1>10, <2>4, <2>6
  <2> QED BY <1>4, <2>1, <2>4, <2>7
<1>12. n \notin Bad
  <2> HIDE DEF Bad
  <2> QED BY <1>11
<1> QED BY <1>1, <1>12

\* A call joins the answer it came from, once.
LEMMA CallTold ==
  ASSUME NEW P \in Seq(LoopMessage), NEW calls \in Seq(Nat), IsInjective(calls),
         NEW n \in Nat, n + 1 <= Len(calls), NEW k \in {n, n + 1}
  PROVE  NodeAsMessage(Told(P, calls, k, n), Entry("call", calls[n + 1])) = Told(P, calls, n + 1, n)
<1>1. /\ Len(calls) \in Nat /\ n \in 0..Len(calls) /\ n + 1 \in 0..Len(calls) /\ k \in 0..Len(calls)
      /\ n + 1 \in DOMAIN calls /\ calls[n + 1] \in Nat
  OBVIOUS
<1>2. PICK p \in Nat : p = Len(P) /\ DOMAIN P = 1..p
  OBVIOUS
<1>3. PICK T : T = Told(P, calls, k, n)
  OBVIOUS
<1>4. PICK V : V = Told(P, calls, n + 1, n)
  OBVIOUS
<1>5. PICK c : c = SubSeq(calls, 1, k)
  OBVIOUS
<1>6. /\ T \in Seq(LoopMessage) /\ Len(T) = p + 1 + n
      /\ \A i \in 1..p : T[i] = P[i]
      /\ T[p + 1] = Says("assistant", c, <<>>)
      /\ \A i \in 1..n : T[p + 1 + i] = Says("result", <<>>, <<calls[i]>>)
  <2>1. k \in 0..Len(calls) /\ n \in 0..Len(calls)
    BY <1>1
  <2>2. /\ T \in Seq(LoopMessage) /\ Len(T) = p + 1 + n
        /\ \A i \in 1..p : T[i] = P[i]
        /\ T[p + 1] = Says("assistant", SubSeq(calls, 1, k), <<>>)
        /\ \A i \in 1..n : T[p + 1 + i] = Says("result", <<>>, <<calls[i]>>)
    <3>1. /\ Told(P, calls, k, n) \in Seq(LoopMessage) /\ Len(Told(P, calls, k, n)) = Len(P) + 1 + n
          /\ \A i \in DOMAIN P : Told(P, calls, k, n)[i] = P[i]
          /\ Told(P, calls, k, n)[Len(P) + 1] = Says("assistant", SubSeq(calls, 1, k), <<>>)
          /\ \A i \in 1..n : Told(P, calls, k, n)[Len(P) + 1 + i] = Says("result", <<>>, <<calls[i]>>)
      BY <2>1, ToldIs
    <3> QED BY <1>2, <1>3, <3>1
  <2> QED BY <1>5, <2>2
<1>7. /\ V \in Seq(LoopMessage) /\ Len(V) = p + 1 + n
      /\ \A i \in 1..p : V[i] = P[i]
      /\ V[p + 1] = Says("assistant", SubSeq(calls, 1, n + 1), <<>>)
      /\ \A i \in 1..n : V[p + 1 + i] = Says("result", <<>>, <<calls[i]>>)
  <2>1. n + 1 \in 0..Len(calls) /\ n \in 0..Len(calls)
    BY <1>1
  <2>2. /\ Told(P, calls, n + 1, n) \in Seq(LoopMessage) /\ Len(Told(P, calls, n + 1, n)) = Len(P) + 1 + n
        /\ \A i \in DOMAIN P : Told(P, calls, n + 1, n)[i] = P[i]
        /\ Told(P, calls, n + 1, n)[Len(P) + 1] = Says("assistant", SubSeq(calls, 1, n + 1), <<>>)
        /\ \A i \in 1..n : Told(P, calls, n + 1, n)[Len(P) + 1 + i] = Says("result", <<>>, <<calls[i]>>)
    BY <2>1, ToldIs
  <2> QED BY <1>2, <1>4, <2>2
<1>8. c \in Seq(Nat) /\ Len(c) = k /\ \A i \in 1..k : c[i] = calls[i]
  BY <1>1, <1>5, FirstOnes
<1>9. T[p + 1].role = "assistant" /\ T[p + 1].calls = c
  BY <1>6, <1>8, SaysAnswer
<1>10. ASSUME NEW j \in DOMAIN T, T[j].role = "assistant" PROVE j <= p + 1
  <2>1. CASE j - (p + 1) \in 1..n
    <3>1. PICK i \in 1..n : i = j - (p + 1)
      BY <2>1
    <3>2. j \in Nat /\ i \in DOMAIN calls
      BY <1>1, <1>6, <3>1
    <3>4. calls[i] \in Nat /\ <<calls[i]>> \in Seq(Nat)
      BY <3>2
    <3>5. j = p + 1 + i
      BY <3>1, <3>2
    <3>3. T[j].role = "result"
      <4>1. T[j] = Says("result", <<>>, <<calls[i]>>)
        BY <1>6, <3>5
      <4> QED BY <3>4, <4>1, SaysResult
    <3> QED BY <1>10, <3>3
  <2>2. j \in 1..p + 1 + n
    BY <1>6
  <2> QED BY <2>1, <2>2
<1>11. PICK a : a = CHOOSE i \in DOMAIN T :
                      /\ T[i].role = "assistant"
                      /\ \A j \in DOMAIN T : T[j].role = "assistant" => j <= i
  OBVIOUS
<1>12. a = p + 1
  <2>1. p + 1 \in DOMAIN T
    BY <1>6
  <2>2. /\ a \in DOMAIN T /\ T[a].role = "assistant"
        /\ \A j \in DOMAIN T : T[j].role = "assistant" => j <= a
    BY <1>9, <1>10, <1>11, <2>1
  <2>3. a <= p + 1
    BY <1>10, <2>2
  <2>4. p + 1 <= a
    BY <1>9, <2>1, <2>2
  <2>5. a \in Nat
    BY <1>6, <2>2
  <2> QED BY <2>3, <2>4, <2>5
<1>13. PICK e : e = Entry("call", calls[n + 1])
  OBVIOUS
<1>14. e.kind = "call" /\ e.n = calls[n + 1]
  BY <1>13 DEF Entry
<1>15. NodeAsMessage(T, e) = [T EXCEPT ![p + 1].calls = JoinsCall(@, calls[n + 1])]
  BY <1>11, <1>12, <1>14 DEF NodeAsMessage
<1>16. JoinsCall(c, calls[n + 1]) = SubSeq(calls, 1, n + 1)
  <2>1. CASE k = n
    <3>1. \A i \in 1..n : calls[i] # calls[n + 1]
      BY <1>1 DEF IsInjective
    <3>2. ~Contains(c, calls[n + 1])
      BY <1>8, <2>1, <3>1 DEF Contains
    <3>3. Append(SubSeq(calls, 1, n), calls[n + 1]) = SubSeq(calls, 1, n + 1)
      BY <1>1, FirstOnesMore
    <3> QED BY <1>5, <2>1, <3>2, <3>3 DEF JoinsCall
  <2>2. CASE k = n + 1
    <3>1. n + 1 \in 1..k /\ c[n + 1] = calls[n + 1]
      BY <1>1, <1>8, <2>2
    <3>2. Contains(c, calls[n + 1])
      BY <1>8, <3>1 DEF Contains
    <3> QED BY <1>5, <2>2, <3>2 DEF JoinsCall
  <2> QED BY <2>1, <2>2
<1>17. PICK v : v = SubSeq(calls, 1, n + 1)
  OBVIOUS
<1>18. PICK m : m = Says("assistant", v, <<>>)
  OBVIOUS
<1>19. [T EXCEPT ![p + 1].calls = JoinsCall(@, calls[n + 1])] = [T EXCEPT ![p + 1] = m]
  <2>1. PICK t : t = T[p + 1]
    OBVIOUS
  <2>2. [t EXCEPT !.calls = v] = m
    BY <1>6, <1>18, <2>1, MoreCalls
  <2>3. [t EXCEPT !.calls = JoinsCall(@, calls[n + 1])] = m
    BY <1>9, <1>16, <1>17, <2>1, <2>2
  <2> QED BY <2>1, <2>3
<1>20. [T EXCEPT ![p + 1] = m] = V
  <2>1. m \in LoopMessage
    <3>1. v \in Seq(Nat)
      BY <1>1, <1>17, FirstOnes
    <3> QED BY <1>18, <3>1, SaysAnswer
  <2>2. PICK z : z = [T EXCEPT ![p + 1] = m]
    OBVIOUS
  <2>3. p + 1 \in DOMAIN T
    BY <1>6
  <2>4. z \in Seq(LoopMessage) /\ Len(z) = Len(T) /\ z[p + 1] = m /\ \A i \in DOMAIN T : i # p + 1 => z[i] = T[i]
    BY <1>6, <2>1, <2>2, <2>3
  <2>5. ASSUME NEW i \in 1..Len(z) PROVE z[i] = V[i]
    <3>1. i \in 1..p + 1 + n /\ i \in DOMAIN T
      BY <1>6, <2>4
    <3>2. CASE i \in 1..p
      <4>1. i # p + 1
        BY <3>2
      <4> QED BY <1>6, <1>7, <2>4, <3>1, <3>2, <4>1
    <3>3. CASE i = p + 1
      BY <1>7, <1>17, <1>18, <2>4, <3>3
    <3>4. CASE i - (p + 1) \in 1..n
      <4>1. PICK j \in 1..n : j = i - (p + 1)
        BY <3>4
      <4>3. i \in Nat
        BY <3>1
      <4>2. i = p + 1 + j /\ i # p + 1
        BY <4>1, <4>3
      <4> QED BY <1>6, <1>7, <2>4, <3>1, <4>2
    <3>5. i \in 1..p \/ i = p + 1 \/ i - (p + 1) \in 1..n
      BY <3>1
    <3> QED BY <3>2, <3>3, <3>4, <3>5
  <2>6. Len(z) = Len(V)
    BY <1>6, <1>7, <2>4
  <2>7. z = V
    BY <1>7, <2>4, <2>5, <2>6, SeqEqual
  <2> QED BY <2>2, <2>7
<1> QED BY <1>3, <1>4, <1>13, <1>15, <1>19, <1>20

LEMMA NodeSays ==
  ASSUME NEW M, NEW n
  PROVE  /\ NodeAsMessage(M, Entry("steer", n)) = Append(M, Says("user", <<>>, <<>>))
         /\ NodeAsMessage(M, Entry("assistant", n)) = Append(M, Says("assistant", <<>>, <<>>))
         /\ NodeAsMessage(M, Entry("notice", n)) = M
         /\ \A kind \in {"ok", "failed", "refused"} :
              NodeAsMessage(M, Entry(kind, n)) = Append(M, Says("result", <<>>, <<n>>))
<1>1. NodeAsMessage(M, Entry("steer", n)) = Append(M, Says("user", <<>>, <<>>))
  BY DEF NodeAsMessage, Entry, Says
<1>2. NodeAsMessage(M, Entry("assistant", n)) = Append(M, Says("assistant", <<>>, <<>>))
  BY DEF NodeAsMessage, Entry, Says
<1>3. NodeAsMessage(M, Entry("notice", n)) = M
  BY DEF NodeAsMessage, Entry
<1>4. ASSUME NEW kind \in {"ok", "failed", "refused"}
      PROVE  NodeAsMessage(M, Entry(kind, n)) = Append(M, Says("result", <<>>, <<n>>))
  BY DEF NodeAsMessage, Entry, Says
<1> QED BY <1>1, <1>2, <1>3, <1>4

(* ------------------------- a request that can be answered ------------------------- *)

Asks(w) == {i \in DOMAIN w : w[i].role = "assistant" /\ w[i].calls # <<>>}

\* The message after an answer holds exactly the results of its calls, no two calls share an
\* id, and no results are without their calls.
Sound(w) ==
  /\ \A i \in Asks(w) : i < Len(w) /\ w[i + 1].results = w[i].calls /\ IsInjective(w[i].calls)
  /\ \A i, j \in Asks(w) : i # j => Range(w[i].calls) \cap Range(w[j].calls) = {}
  /\ \A i \in DOMAIN w : w[i].results # <<>> => i - 1 \in Asks(w)
AskedIn(w, U) == \A i \in DOMAIN w : Range(w[i].calls) \subseteq U

LEMMA SoundAdds ==
  ASSUME NEW w \in Seq(LoopMessage), Sound(w), NEW U, AskedIn(w, U),
         NEW m \in LoopMessage, m.calls = <<>>, m.results = <<>>
  PROVE  Sound(Append(w, m)) /\ AskedIn(Append(w, m), U)
<1>1. PICK x : x = Append(w, m)
  OBVIOUS
<1>2. /\ x \in Seq(LoopMessage) /\ DOMAIN x = DOMAIN w \cup {Len(w) + 1} /\ Len(w) + 1 \notin DOMAIN w
      /\ \A i \in DOMAIN w : x[i] = w[i] /\ i < Len(w) + 1
      /\ x[Len(w) + 1] = m
  BY <1>1, Added
<1>3. Len(w) \in Nat /\ DOMAIN w = 1..Len(w) /\ Len(x) = Len(w) + 1
  BY <1>1
<1>4. Asks(x) = Asks(w)
  BY <1>2 DEF Asks
<1>5. \A i \in Asks(w) : i \in DOMAIN w /\ i + 1 \in DOMAIN w /\ x[i] = w[i] /\ x[i + 1] = w[i + 1]
  <2>1. ASSUME NEW i \in Asks(w) PROVE i \in DOMAIN w /\ i + 1 \in DOMAIN w
    <3>1. i \in DOMAIN w /\ i < Len(w)
      BY DEF Asks, Sound
    <3> QED BY <1>3, <3>1
  <2> QED BY <1>2, <2>1
<1>6. \A i \in Asks(x) : i < Len(x) /\ x[i + 1].results = x[i].calls /\ IsInjective(x[i].calls)
  BY <1>2, <1>3, <1>4, <1>5 DEF Sound
<1>7. \A i, j \in Asks(x) : i # j => Range(x[i].calls) \cap Range(x[j].calls) = {}
  BY <1>4, <1>5 DEF Sound
<1>8. \A i \in DOMAIN x : x[i].results # <<>> => i - 1 \in Asks(x)
  BY <1>2, <1>4 DEF Sound
<1>9. Sound(x)
  BY <1>6, <1>7, <1>8 DEF Sound
<1>10. AskedIn(x, U)
  <2>1. Range(<<>>) = {}
    <3>1. DOMAIN <<>> = {}
      BY NothingIn
    <3> QED BY <3>1 DEF Range
  <2> QED BY <1>2, <2>1 DEF AskedIn
<1> QED BY <1>1, <1>9, <1>10

LEMMA SoundAnswers ==
  ASSUME NEW w \in Seq(LoopMessage), Sound(w), NEW U, AskedIn(w, U),
         NEW a \in LoopMessage, a.role = "assistant", a.results = <<>>, IsInjective(a.calls),
         Range(a.calls) \cap U = {}, a.calls # <<>>,
         NEW r \in LoopMessage, r.role = "result", r.calls = <<>>, r.results = a.calls
  PROVE  Sound(Append(Append(w, a), r)) /\ AskedIn(Append(Append(w, a), r), U \cup Range(a.calls))
<1>1. PICK n \in Nat : n = Len(w) /\ DOMAIN w = 1..n
  OBVIOUS
<1>2. PICK wa \in Seq(LoopMessage) : wa = Append(w, a)
  <2>1. Append(w, a) \in Seq(LoopMessage)
    BY Added
  <2> QED BY <2>1
<1>3. /\ DOMAIN wa = DOMAIN w \cup {n + 1} /\ wa[n + 1] = a /\ \A i \in DOMAIN w : wa[i] = w[i]
      /\ Len(wa) = n + 1
  BY <1>1, <1>2
<1>4. PICK x \in Seq(LoopMessage) : x = Append(wa, r)
  <2>1. Append(wa, r) \in Seq(LoopMessage)
    BY Added
  <2> QED BY <2>1
<1>5. /\ DOMAIN x = DOMAIN wa \cup {n + 2} /\ x[n + 2] = r /\ \A i \in DOMAIN wa : x[i] = wa[i]
      /\ Len(x) = n + 2
  BY <1>3, <1>4
<1>6. /\ DOMAIN x = 1..n + 2 /\ DOMAIN x = (DOMAIN w \cup {n + 1}) \cup {n + 2}
      /\ x[n + 1] = a /\ x[n + 2] = r /\ \A i \in DOMAIN w : x[i] = w[i]
  BY <1>3, <1>5
<1>7. Asks(x) = Asks(w) \cup {n + 1}
  BY <1>6 DEF Asks
<1>8. \A i \in Asks(w) : i \in DOMAIN w /\ i + 1 \in DOMAIN w /\ x[i] = w[i] /\ x[i + 1] = w[i + 1]
  <2>1. ASSUME NEW i \in Asks(w) PROVE i \in DOMAIN w /\ i + 1 \in DOMAIN w
    <3>1. i \in DOMAIN w /\ i < n
      BY <1>1 DEF Asks, Sound
    <3> QED BY <1>1, <3>1
  <2> QED BY <1>6, <2>1
<1>9. ASSUME NEW i \in Asks(x) PROVE i < Len(x) /\ x[i + 1].results = x[i].calls /\ IsInjective(x[i].calls)
  <2>1. CASE i \in Asks(w)
    <3>1. i < Len(x)
      BY <1>1, <1>5, <1>8, <2>1
    <3> QED BY <1>8, <2>1, <3>1 DEF Sound
  <2>2. CASE i = n + 1
    <3>1. i + 1 = n + 2 /\ i < Len(x)
      BY <1>5, <2>2
    <3> QED BY <1>6, <2>2, <3>1
  <2> QED BY <1>7, <2>1, <2>2
<1>10. ASSUME NEW i \in Asks(x), NEW j \in Asks(x), i # j PROVE Range(x[i].calls) \cap Range(x[j].calls) = {}
  <2>1. CASE i \in Asks(w) /\ j \in Asks(w)
    BY <1>8, <1>10, <2>1 DEF Sound
  <2>2. CASE i \in Asks(w) /\ j = n + 1
    <3>1. Range(x[i].calls) \subseteq U /\ x[j] = a
      BY <1>6, <1>8, <2>2 DEF AskedIn
    <3> QED BY <3>1
  <2>3. CASE j \in Asks(w) /\ i = n + 1
    <3>1. Range(x[j].calls) \subseteq U /\ x[i] = a
      BY <1>6, <1>8, <2>3 DEF AskedIn
    <3> QED BY <3>1
  <2> QED BY <1>7, <1>10, <2>1, <2>2, <2>3
<1>11. ASSUME NEW i \in DOMAIN x, x[i].results # <<>> PROVE i - 1 \in Asks(x)
  <2>1. CASE i \in DOMAIN w
    BY <1>6, <1>7, <1>11, <2>1 DEF Sound
  <2>2. CASE i = n + 2
    <3>1. i - 1 = n + 1
      BY <2>2
    <3> QED BY <1>7, <3>1
  <2> QED BY <1>6, <1>11, <2>1, <2>2
<1>12. Sound(x)
  BY <1>9, <1>10, <1>11 DEF Sound
<1>13. AskedIn(x, U \cup Range(a.calls))
  <2>1. Range(<<>>) = {}
    <3>1. DOMAIN <<>> = {}
      BY NothingIn
    <3> QED BY <3>1 DEF Range
  <2>2. ASSUME NEW i \in DOMAIN x PROVE Range(x[i].calls) \subseteq U \cup Range(a.calls)
    <3>1. CASE i \in DOMAIN w
      BY <1>6, <3>1 DEF AskedIn
    <3>2. CASE i = n + 1
      BY <1>6, <3>2
    <3>3. CASE i = n + 2
      BY <1>6, <2>1, <3>3
    <3> QED BY <1>6, <3>1, <3>2, <3>3
  <2> QED BY <2>2 DEF AskedIn
<1> QED BY <1>2, <1>4, <1>12, <1>13

LEMMA TurnAnswered ==
  ASSUME NEW P \in Seq(LoopMessage), Sound(Wire(P)), NEW U, AskedIn(Wire(P), U),
         NEW calls \in Seq(Nat), IsInjective(calls), Range(calls) \cap U = {}, NEW n \in 0..Len(calls)
  PROVE  /\ Sound(Wire(Told(P, calls, n, n)))
         /\ AskedIn(Wire(Told(P, calls, n, n)), U \cup {calls[i] : i \in 1..n})
<1>1. PICK w : w = Wire(P)
  OBVIOUS
<1>2. w \in Seq(LoopMessage)
  BY <1>1, SaysEach, WireGrows
<1>3. Wire(Told(P, calls, n, n)) = ToldWire(w, calls, n, n)
  BY <1>1, WireTold
<1>4. PICK c \in Seq(Nat) : c = SubSeq(calls, 1, n)
  <2>1. SubSeq(calls, 1, n) \in Seq(Nat)
    BY FirstOnes
  <2> QED BY <2>1
<1>5. Len(c) = n /\ DOMAIN c = 1..n /\ \A i \in 1..n : c[i] = calls[i] /\ i \in DOMAIN calls
  BY <1>4, FirstOnes
<1>6. PICK a : a = Says("assistant", c, <<>>)
  OBVIOUS
<1>7. a \in LoopMessage /\ a.role = "assistant" /\ a.calls = c /\ a.results = <<>>
  BY <1>6, SaysAnswer
<1>8. PICK V : V = {calls[i] : i \in 1..n}
  OBVIOUS
<1>9. CASE n = 0
  <2>1. c = <<>>
    BY <1>5, <1>9, EmptySeq
  <2>2. ToldWire(w, calls, n, n) = Append(w, a)
    BY <1>4, <1>6, <1>9 DEF ToldWire
  <2>3. Sound(Append(w, a)) /\ AskedIn(Append(w, a), U)
    BY <1>1, <1>2, <1>7, <2>1, SoundAdds
  <2>4. AskedIn(Append(w, a), U \cup V)
    BY <2>3 DEF AskedIn
  <2> QED BY <1>3, <1>8, <2>2, <2>3, <2>4
<1>10. CASE n # 0
  <2>1. PICK r : r = Says("result", <<>>, c)
    OBVIOUS
  <2>2. r \in LoopMessage /\ r.role = "result" /\ r.calls = <<>> /\ r.results = c
    BY <2>1, SaysResult
  <2>3. ToldWire(w, calls, n, n) = Append(Append(w, a), r)
    BY <1>4, <1>6, <1>10, <2>1 DEF ToldWire
  <2>4. IsInjective(c)
    BY <1>5 DEF IsInjective
  <2>5. Range(c) = V
    BY <1>5, <1>8 DEF Range
  <2>6. V \subseteq Range(calls)
    BY <1>5, <1>8 DEF Range
  <2>7. c # <<>>
    <3>1. 1 \in DOMAIN c
      BY <1>5, <1>10
    <3> QED BY <3>1, NothingIn
  <2>8. Range(a.calls) \cap U = {} /\ IsInjective(a.calls) /\ a.calls # <<>> /\ r.results = a.calls
    BY <1>7, <2>2, <2>4, <2>5, <2>6, <2>7
  <2>9. Sound(Append(Append(w, a), r)) /\ AskedIn(Append(Append(w, a), r), U \cup Range(a.calls))
    BY <1>1, <1>2, <1>7, <2>2, <2>8, SoundAnswers
  <2> QED BY <1>3, <1>7, <1>8, <2>3, <2>5, <2>9
<1> QED BY <1>9, <1>10

\* The ids a history holds, and whether all it asked for is answered.
UsedIn(h) == {h[i].n : i \in {j \in DOMAIN h : h[j].kind = "call"}}
AllAnswered(h) == Sound(Wire(Messages(h))) /\ AskedIn(Wire(Messages(h)), UsedIn(h))

\* The answer's calls are being carried out: k of them are written, n have their results,
\* all before them is answered, and none of them has an id that was used before.
OpenAt(h, calls, k, n) ==
  \E P \in Seq(LoopMessage) :
    /\ Messages(h) = Told(P, calls, k, n) /\ Sound(Wire(P))
    /\ AskedIn(Wire(P), UsedIn(h) \ Range(calls))
    /\ \A i \in 1..k : calls[i] \in UsedIn(h)

LEMMA UsedGrows ==
  ASSUME NEW h \in Seq(LoopNode), NEW kind \in EntryKind, NEW n \in Nat
  PROVE  /\ UsedIn(h) \subseteq UsedIn(Append(h, Entry(kind, n)))
         /\ kind = "call" => n \in UsedIn(Append(h, Entry(kind, n)))
<1>1. PICK e \in LoopNode : e = Entry(kind, n)
  BY DEF Entry, LoopNode
<1>2. e.kind = kind /\ e.n = n
  BY <1>1 DEF Entry
<1>3. /\ DOMAIN Append(h, e) = DOMAIN h \cup {Len(h) + 1}
      /\ \A i \in DOMAIN h : Append(h, e)[i] = h[i]
      /\ Append(h, e)[Len(h) + 1] = e
  BY Added
<1>4. UsedIn(h) \subseteq UsedIn(Append(h, e))
  BY <1>3 DEF UsedIn
<1>5. kind = "call" => n \in UsedIn(Append(h, e))
  BY <1>2, <1>3 DEF UsedIn
<1> QED BY <1>1, <1>4, <1>5

LEMMA OneMore ==
  ASSUME NEW h \in Seq(LoopNode), NEW kind \in EntryKind, NEW n \in Nat
  PROVE  /\ Messages(h) \in Seq(LoopMessage)
         /\ Messages(Append(h, Entry(kind, n))) = NodeAsMessage(Messages(h), Entry(kind, n))
<1>1. Entry(kind, n) \in LoopNode
  BY DEF Entry, LoopNode
<1> QED BY <1>1, MessagesGrow

\* A call of the answer is written.
LEMMA OpenCall ==
  ASSUME NEW h \in Seq(LoopNode), NEW calls \in Seq(Nat), IsInjective(calls),
         NEW n \in Nat, n + 1 <= Len(calls), NEW k \in {n, n + 1}, OpenAt(h, calls, k, n)
  PROVE  OpenAt(Append(h, Entry("call", calls[n + 1])), calls, n + 1, n)
<1>1. calls[n + 1] \in Nat /\ "call" \in EntryKind
  BY DEF EntryKind
<1>2. PICK id \in Nat : id = calls[n + 1]
  BY <1>1
<1>3. PICK g : g = Append(h, Entry("call", id))
  OBVIOUS
<1>4. PICK P \in Seq(LoopMessage) :
        /\ Messages(h) = Told(P, calls, k, n) /\ Sound(Wire(P))
        /\ AskedIn(Wire(P), UsedIn(h) \ Range(calls))
        /\ \A i \in 1..k : calls[i] \in UsedIn(h)
  BY DEF OpenAt
<1>5. Messages(g) = NodeAsMessage(Messages(h), Entry("call", id))
  BY <1>1, <1>3, OneMore
<1>6. Messages(g) = Told(P, calls, n + 1, n)
  BY <1>2, <1>4, <1>5, CallTold
<1>7. UsedIn(h) \subseteq UsedIn(g) /\ id \in UsedIn(g)
  BY <1>1, <1>3, UsedGrows
<1>8. AskedIn(Wire(P), UsedIn(g) \ Range(calls))
  BY <1>4, <1>7 DEF AskedIn
<1>9. \A i \in 1..n + 1 : calls[i] \in UsedIn(g)
  <2>1. \A i \in 1..n + 1 : i = n + 1 \/ i \in 1..n
    OBVIOUS
  <2>2. \A i \in 1..n : i \in 1..k
    OBVIOUS
  <2> QED BY <1>2, <1>4, <1>7, <2>1, <2>2
<1>10. OpenAt(g, calls, n + 1, n)
  BY <1>4, <1>6, <1>8, <1>9 DEF OpenAt
<1> QED BY <1>2, <1>3, <1>10

\* A call of the answer gets its result.
LEMMA OpenResult ==
  ASSUME NEW h \in Seq(LoopNode), NEW calls \in Seq(Nat),
         NEW n \in Nat, n + 1 <= Len(calls), OpenAt(h, calls, n + 1, n),
         NEW kind \in {"ok", "failed", "refused"}
  PROVE  OpenAt(Append(h, Entry(kind, calls[n + 1])), calls, n + 1, n + 1)
<1>1. calls[n + 1] \in Nat /\ kind \in EntryKind
  BY DEF EntryKind
<1>2. PICK id \in Nat : id = calls[n + 1]
  BY <1>1
<1>3. PICK g : g = Append(h, Entry(kind, id))
  OBVIOUS
<1>4. PICK P \in Seq(LoopMessage) :
        /\ Messages(h) = Told(P, calls, n + 1, n) /\ Sound(Wire(P))
        /\ AskedIn(Wire(P), UsedIn(h) \ Range(calls))
        /\ \A i \in 1..n + 1 : calls[i] \in UsedIn(h)
  BY DEF OpenAt
<1>5. Messages(g) = NodeAsMessage(Messages(h), Entry(kind, id))
  BY <1>1, <1>3, OneMore
<1>6. Messages(g) = Append(Told(P, calls, n + 1, n), Says("result", <<>>, <<id>>))
  BY <1>4, <1>5, NodeSays
<1>7. n + 1 \in 0..Len(calls)
  OBVIOUS
<1>8. Messages(g) = Told(P, calls, n + 1, n + 1)
  BY <1>2, <1>6, <1>7, ToldMore
<1>9. UsedIn(h) \subseteq UsedIn(g)
  BY <1>1, <1>3, UsedGrows
<1>10. AskedIn(Wire(P), UsedIn(g) \ Range(calls))
  BY <1>4, <1>9 DEF AskedIn
<1>11. \A i \in 1..n + 1 : calls[i] \in UsedIn(g)
  BY <1>4, <1>9
<1>12. OpenAt(g, calls, n + 1, n + 1)
  BY <1>4, <1>8, <1>10, <1>11 DEF OpenAt
<1> QED BY <1>2, <1>3, <1>12

\* All the calls that are written have their results.
LEMMA OpenCloses ==
  ASSUME NEW h \in Seq(LoopNode), NEW calls \in Seq(Nat), IsInjective(calls), NEW n \in 0..Len(calls),
         OpenAt(h, calls, n, n)
  PROVE  AllAnswered(h)
<1>1. PICK P \in Seq(LoopMessage) :
        /\ Messages(h) = Told(P, calls, n, n) /\ Sound(Wire(P))
        /\ AskedIn(Wire(P), UsedIn(h) \ Range(calls))
        /\ \A i \in 1..n : calls[i] \in UsedIn(h)
  BY DEF OpenAt
<1>2. PICK U : U = UsedIn(h) \ Range(calls)
  OBVIOUS
<1>3. Range(calls) \cap U = {}
  BY <1>2
<1>4. /\ Sound(Wire(Told(P, calls, n, n)))
      /\ AskedIn(Wire(Told(P, calls, n, n)), U \cup {calls[i] : i \in 1..n})
  BY <1>1, <1>2, <1>3, TurnAnswered
<1>5. U \cup {calls[i] : i \in 1..n} \subseteq UsedIn(h)
  BY <1>1, <1>2
<1>6. AskedIn(Wire(Told(P, calls, n, n)), UsedIn(h))
  BY <1>4, <1>5 DEF AskedIn
<1> QED BY <1>1, <1>4, <1>6 DEF AllAnswered

\* Messages that ask for nothing leave all answered.
LEMMA StaysAnswered ==
  ASSUME NEW h \in Seq(LoopNode), AllAnswered(h), NEW e \in LoopNode,
         e.kind \in {"steer", "assistant", "notice"}
  PROVE  AllAnswered(Append(h, e))
<1>1. PICK M : M = Messages(h)
  OBVIOUS
<1>2. PICK w : w = Wire(M)
  OBVIOUS
<1>3. M \in Seq(LoopMessage) /\ Messages(Append(h, e)) = NodeAsMessage(M, e)
  BY <1>1, MessagesGrow
<1>4. w \in Seq(LoopMessage)
  BY <1>2, <1>3, SaysEach, WireGrows
<1>5. /\ DOMAIN Append(h, e) = DOMAIN h \cup {Len(h) + 1}
      /\ \A i \in DOMAIN h : Append(h, e)[i] = h[i]
  BY Added
<1>6. UsedIn(h) \subseteq UsedIn(Append(h, e))
  BY <1>5 DEF UsedIn
<1>7. CASE e.kind = "notice"
  <2>1. NodeAsMessage(M, e) = M
    BY <1>7 DEF NodeAsMessage
  <2> QED BY <1>1, <1>3, <1>6, <2>1 DEF AllAnswered, AskedIn
<1>8. CASE e.kind \in {"steer", "assistant"}
  <2>1. PICK m \in LoopMessage : /\ NodeAsMessage(M, e) = Append(M, m)
                                 /\ m.role # "result" /\ m.calls = <<>> /\ m.results = <<>>
    <3>1. CASE e.kind = "steer"
      <4>1. PICK m : m = Says("user", <<>>, <<>>)
        OBVIOUS
      <4>2. NodeAsMessage(M, e) = Append(M, m)
        BY <3>1, <4>1 DEF NodeAsMessage, Says
      <4>3. m \in LoopMessage /\ m.role # "result" /\ m.calls = <<>> /\ m.results = <<>>
        BY <4>1, SaysEach DEF Says
      <4> QED BY <4>2, <4>3
    <3>2. CASE e.kind = "assistant"
      <4>1. PICK m : m = Says("assistant", <<>>, <<>>)
        OBVIOUS
      <4>2. NodeAsMessage(M, e) = Append(M, m)
        BY <3>2, <4>1 DEF NodeAsMessage, Says
      <4>3. m \in LoopMessage /\ m.role # "result" /\ m.calls = <<>> /\ m.results = <<>>
        BY <4>1, SaysEach DEF Says
      <4> QED BY <4>2, <4>3
    <3> QED BY <1>8, <3>1, <3>2
  <2>2. Wire(Append(M, m)) = WireMessage(w, m)
    BY <1>2, <1>3, WireGrows
  <2>3. WireMessage(w, m) = Append(w, m)
    BY <2>1 DEF WireMessage
  <2>4. Sound(w) /\ AskedIn(w, UsedIn(h))
    BY <1>1, <1>2 DEF AllAnswered
  <2>5. Sound(Append(w, m)) /\ AskedIn(Append(w, m), UsedIn(h))
    BY <1>4, <2>1, <2>4, SoundAdds
  <2>6. AskedIn(Append(w, m), UsedIn(Append(h, e)))
    BY <1>6, <2>5 DEF AskedIn
  <2> QED BY <1>3, <2>1, <2>2, <2>3, <2>5, <2>6 DEF AllAnswered
<1> QED BY <1>7, <1>8

\* The calls of a new answer are begun.
LEMMA OpenBegins ==
  ASSUME NEW h \in Seq(LoopNode), AllAnswered(h), NEW calls \in Seq(Nat),
         \A i \in DOMAIN calls : calls[i] \notin UsedIn(h)
  PROVE  OpenAt(Append(h, Entry("assistant", 0)), calls, 0, 0)
<1>1. PICK g : g = Append(h, Entry("assistant", 0))
  OBVIOUS
<1>2. "assistant" \in EntryKind
  BY DEF EntryKind
<1>3. PICK M \in Seq(LoopMessage) : M = Messages(h)
  BY <1>2, OneMore
<1>4. Messages(g) = Append(M, Says("assistant", <<>>, <<>>))
  <2>1. Messages(g) = NodeAsMessage(M, Entry("assistant", 0))
    BY <1>1, <1>2, <1>3, OneMore
  <2> QED BY <2>1, NodeSays
<1>5. PICK m \in LoopMessage : m = Says("assistant", <<>>, <<>>)
  BY SaysEach
<1>6. PICK T \in Seq(LoopMessage) : T = Append(M, m)
  <2>1. Append(M, m) \in Seq(LoopMessage)
    BY Added
  <2> QED BY <2>1
<1>7. SubSeq(calls, 1, 0) = <<>>
  <2>1. SubSeq(calls, 1, 0) \in Seq(Nat) /\ Len(SubSeq(calls, 1, 0)) = 0
    BY FirstOnes
  <2> QED BY <2>1, EmptySeq
<1>8. [i \in 1..0 |-> Says("result", <<>>, <<calls[i]>>)] = <<>>
  OBVIOUS
<1>9. Told(M, calls, 0, 0) = T \o <<>>
  BY <1>5, <1>6, <1>7, <1>8 DEF Told
<1>10. T \o <<>> = T
  BY ConcatEmptySeq
<1>11. Messages(g) = Told(M, calls, 0, 0)
  BY <1>4, <1>5, <1>6, <1>9, <1>10
<1>12. UsedIn(h) \subseteq UsedIn(g)
  BY <1>1, <1>2, UsedGrows
<1>13. AskedIn(Wire(M), UsedIn(g) \ Range(calls)) /\ Sound(Wire(M))
  BY <1>3, <1>12 DEF AllAnswered, AskedIn, Range
<1>14. \A i \in 1..0 : calls[i] \in UsedIn(g)
  OBVIOUS
<1>15. OpenAt(g, calls, 0, 0)
  BY <1>11, <1>13, <1>14 DEF OpenAt
<1> QED BY <1>1, <1>15

\* The messages that are given ask for nothing.
LEMMA UsersSay ==
  ASSUME NEW h \in Seq(LoopNode), AllAnswered(h), NEW n \in Nat, NEW r \in [1..n -> LoopNode],
         \A i \in 1..n : r[i].kind = "steer"
  PROVE  AllAnswered(h \o r)
<1> DEFINE upTo(k) == h \o [i \in 1..k |-> r[i]]
           Bad == {k \in Nat : k <= n /\ ~AllAnswered(upTo(k))}
<1>1. \A k \in Nat : k <= n => [i \in 1..k |-> r[i]] \in [1..k -> LoopNode]
  OBVIOUS
<1>2. \A k \in Nat : k <= n => /\ upTo(k) \in Seq(LoopNode) /\ Len(upTo(k)) = Len(h) + k
                               /\ \A i \in DOMAIN h : upTo(k)[i] = h[i]
                               /\ \A i \in 1..k : upTo(k)[Len(h) + i] = r[i]
  <2>1. SUFFICES ASSUME NEW k \in Nat, k <= n
                 PROVE  /\ upTo(k) \in Seq(LoopNode) /\ Len(upTo(k)) = Len(h) + k
                        /\ \A i \in DOMAIN h : upTo(k)[i] = h[i]
                        /\ \A i \in 1..k : upTo(k)[Len(h) + i] = r[i]
    OBVIOUS
  <2>2. PICK s \in [1..k -> LoopNode] : s = [i \in 1..k |-> r[i]]
    BY <1>1, <2>1
  <2>3. /\ h \o s \in Seq(LoopNode) /\ DOMAIN (h \o s) = 1..Len(h) + k
        /\ \A i \in DOMAIN h : (h \o s)[i] = h[i]
        /\ \A i \in 1..k : (h \o s)[Len(h) + i] = s[i]
    BY Joined
  <2>4. Len(h \o s) = Len(h) + k
    BY <2>3
  <2> QED BY <2>2, <2>3, <2>4
<1>3. AllAnswered(upTo(0))
  <2>1. [i \in 1..0 |-> r[i]] = <<>>
    OBVIOUS
  <2>2. h \o <<>> = h
    BY ConcatEmptySeq
  <2> QED BY <2>1, <2>2
<1>4. ASSUME NEW k \in Nat, k + 1 <= n, AllAnswered(upTo(k)) PROVE AllAnswered(upTo(k + 1))
  <2>0. k <= n /\ k + 1 \in Nat
    BY <1>4
  <2>1. PICK g \in Seq(LoopNode) : g = upTo(k)
    <3> HIDE DEF upTo
    <3> QED BY <1>2, <1>4, <2>0
  <2>2. PICK f \in Seq(LoopNode) : f = upTo(k + 1)
    <3> HIDE DEF upTo
    <3> QED BY <1>2, <1>4, <2>0
  <2>3. PICK e \in LoopNode : e = r[k + 1]
    BY <1>4
  <2>4. AllAnswered(Append(g, e))
    <3>1. e.kind = "steer"
      BY <1>4, <2>3
    <3> HIDE DEF upTo
    <3> QED BY <1>4, <2>1, <3>1, StaysAnswered
  <2>5. PICK l \in Nat : l = Len(h) /\ DOMAIN h = 1..l
    OBVIOUS
  <2>6. /\ Len(g) = l + k /\ (\A i \in DOMAIN h : g[i] = h[i]) /\ (\A i \in 1..k : g[l + i] = r[i])
    <3>1. k <= n
      BY <1>4
    <3> HIDE DEF upTo
    <3> QED BY <1>2, <2>1, <2>5, <3>1
  <2>7. /\ Len(f) = l + (k + 1) /\ (\A i \in DOMAIN h : f[i] = h[i])
        /\ (\A i \in 1..k + 1 : f[l + i] = r[i])
    <3> HIDE DEF upTo
    <3> QED BY <1>2, <1>4, <2>2, <2>5
  <2>8. /\ Append(g, e) \in Seq(LoopNode) /\ Len(Append(g, e)) = l + k + 1
        /\ (\A i \in 1..l + k : Append(g, e)[i] = g[i]) /\ Append(g, e)[l + k + 1] = e
    BY <2>6
  <2>9. ASSUME NEW i \in 1..l + (k + 1) PROVE Append(g, e)[i] = f[i]
    <3>1. CASE i \in 1..l
      <4>1. i \in DOMAIN h /\ i \in 1..l + k
        BY <2>5, <3>1
      <4> QED BY <2>6, <2>7, <2>8, <4>1
    <3>2. CASE i = l + (k + 1)
      <4>1. f[i] = e /\ i = l + k + 1
        BY <2>3, <2>7, <3>2
      <4> QED BY <2>8, <4>1
    <3>3. CASE i - l \in 1..k
      <4>1. PICK j \in 1..k : j = i - l
        BY <3>3
      <4>2. i = l + j /\ i \in 1..l + k /\ j \in 1..k + 1
        BY <4>1
      <4> QED BY <2>6, <2>7, <2>8, <4>2
    <3>4. i \in 1..l \/ i = l + (k + 1) \/ i - l \in 1..k
      OBVIOUS
    <3> QED BY <3>1, <3>2, <3>3, <3>4
  <2>10. Len(Append(g, e)) = Len(f) /\ Len(f) = l + (k + 1)
    BY <2>7, <2>8
  <2>11. Append(g, e) = f
    BY <2>8, <2>9, <2>10, SeqEqual
  <2> QED BY <2>2, <2>4, <2>11
<1>5. ASSUME Bad # {} PROVE FALSE
  <2>1. PICK m \in Bad : \A j \in Bad : m <= j
    <3>1. Bad \in SUBSET Nat
      OBVIOUS
    <3> HIDE DEF Bad
    <3> QED BY <1>5, <3>1, Least
  <2>2. m # 0 /\ m \in Nat /\ m <= n /\ ~AllAnswered(upTo(m))
    <3>1. m \in Nat /\ m <= n /\ ~AllAnswered(upTo(m))
      BY <2>1
    <3> HIDE DEF upTo
    <3> QED BY <1>3, <3>1
  <2>3. m - 1 \in Nat /\ m - 1 < m /\ m - 1 <= n /\ (m - 1) + 1 <= n /\ (m - 1) + 1 = m
    BY <2>2
  <2>4. m - 1 \notin Bad
    <3> HIDE DEF Bad
    <3> QED BY <2>1, <2>2, <2>3
  <2>5. AllAnswered(upTo(m - 1))
    BY <2>3, <2>4
  <2>6. AllAnswered(upTo((m - 1) + 1))
    <3> HIDE DEF upTo
    <3> QED BY <1>4, <2>3, <2>5
  <2> QED BY <2>2, <2>3, <2>6
<1>6. AllAnswered(upTo(n))
  <2>1. n \notin Bad
    <3> HIDE DEF Bad
    <3> QED BY <1>5
  <2> QED BY <2>1
<1>7. [i \in 1..n |-> r[i]] = r
  OBVIOUS
<1> QED BY <1>6, <1>7

(* ------------------------- every request can be answered ------------------------- *)

Written == IF wrote > 0 THEN pos ELSE pos - 1
Between == {"top", "cutting", "building", "streaming", "recording", "settling"}

BatchInv ==
  /\ loopAt \in {"recording", "calls"} \cup InCall => IsInjective(batch)
  /\ loopAt = "recording" => \A i \in DOMAIN batch : batch[i] \notin UsedIn(history)
PlaceInv ==
  /\ loopAt = "recording" => pos = 1
  /\ loopAt = "calls" => wrote = 0
  /\ loopAt \in {"asking", "interacting", "executing", "askingTrusted", "acting"} => wrote > 0
OpenInv == loopAt \in {"calls"} \cup InCall => OpenAt(history, batch, Written, pos - 1)
AnswersInv == loopAt \in Between => AllAnswered(history)
RequestInv == BatchInv /\ PlaceInv /\ OpenInv /\ AnswersInv

\* The steps that write nothing in a call, and those that end the turn.
LEMMA SilentOpen ==
  ASSUME RequestInv, history' = history, batch' = batch, pos' = pos, wrote' = wrote,
         \/ loopAt' = "closing"
         \/ /\ loopAt' \in {"cleared", "trusted", "dispatching", "dispatchingTrusted", "thrown"}
            /\ loopAt \in {"calls"} \cup InCall
  PROVE  RequestInv'
<1>1. CASE loopAt' = "closing"
  <2>1. loopAt' \notin {"recording", "calls"} \cup InCall /\ loopAt' \notin Between
    BY <1>1 DEF InCall, Between
  <2> QED BY <1>1, <2>1 DEF RequestInv, BatchInv, PlaceInv, OpenInv, AnswersInv
<1>2. CASE /\ loopAt' \in {"cleared", "trusted", "dispatching", "dispatchingTrusted", "thrown"}
           /\ loopAt \in {"calls"} \cup InCall
  <2>1. loopAt' \notin {"recording", "calls"} /\ loopAt' \notin Between /\ loopAt' \in InCall
    BY <1>2 DEF InCall, Between
  <2>2. IsInjective(batch) /\ OpenAt(history, batch, Written, pos - 1)
    BY <1>2 DEF RequestInv, BatchInv, OpenInv
  <2>3. Written' = Written
    BY DEF Written
  <2>4. OpenAt(history', batch', Written', pos' - 1)
    BY <2>2, <2>3
  <2>5. PlaceInv'
    BY <1>2 DEF PlaceInv
  <2> QED BY <2>1, <2>2, <2>4, <2>5 DEF RequestInv, BatchInv, OpenInv, AnswersInv
<1> QED BY <1>1, <1>2

\* While a call is carried out it is written, or can be.
LEMMA WithCallOpen ==
  ASSUME LoopTypes, RequestInv, loopAt \in {"calls"} \cup InCall, pos \in DOMAIN batch
  PROVE  /\ IsInjective(batch) /\ OpenAt(WithCall, batch, pos, pos - 1)
         /\ OpenAt(Append(history, CallEntry), batch, pos, pos - 1)
<1>1. /\ history \in Seq(LoopNode) /\ batch \in Seq(Nat) /\ pos \in Nat \ {0}
      /\ IsInjective(batch) /\ OpenAt(history, batch, Written, pos - 1)
  BY DEF LoopTypes, RequestInv, BatchInv, OpenInv
<1>2. PICK n \in Nat : n = pos - 1
  BY <1>1
<1>3. n + 1 = pos /\ n + 1 <= Len(batch) /\ Written \in {n, n + 1}
  BY <1>1, <1>2 DEF Written
<1>4. PICK k \in {n, n + 1} : k = Written
  BY <1>3
<1>5. OpenAt(history, batch, k, n)
  BY <1>1, <1>2, <1>4
<1>6. OpenAt(Append(history, Entry("call", batch[n + 1])), batch, n + 1, n)
  BY <1>1, <1>3, <1>5, OpenCall
<1>7. OpenAt(Append(history, CallEntry), batch, pos, pos - 1)
  BY <1>2, <1>3, <1>6 DEF CallEntry
<1>8. wrote > 0 => OpenAt(history, batch, pos, pos - 1)
  BY <1>1 DEF Written
<1> QED BY <1>1, <1>7, <1>8 DEF WithCall

LEMMA WritingOpen ==
  ASSUME LoopTypes, RequestInv, loopAt \in {"calls"} \cup InCall, pos \in DOMAIN batch,
         history' \in {WithCall, Append(history, CallEntry)}, batch' = batch, pos' = pos,
         wrote' \in {1, 2}, loopAt' \in InCall
  PROVE  RequestInv'
<1>1. IsInjective(batch) /\ OpenAt(history', batch, pos, pos - 1)
  BY WithCallOpen
<1>2. Written' = pos
  BY DEF Written
<1>3. OpenAt(history', batch', Written', pos' - 1)
  BY <1>1, <1>2
<1>4. loopAt' \notin {"recording", "calls"} /\ loopAt' \notin Between
  BY DEF InCall, Between
<1>5. PlaceInv'
  BY <1>4 DEF PlaceInv
<1> QED BY <1>1, <1>3, <1>4, <1>5 DEF RequestInv, BatchInv, OpenInv, AnswersInv

LEMMA OverOpen ==
  ASSUME LoopTypes, RequestInv, loopAt \in {"calls"} \cup InCall, pos \in DOMAIN batch,
         NEW kind \in {"ok", "failed", "refused"},
         history' = Append(WithCall, Entry(kind, batch[pos])), CallOver, loopAt' \in {"calls", "closing"}
  PROVE  RequestInv'
<1>1. IsInjective(batch) /\ OpenAt(WithCall, batch, pos, pos - 1)
  BY WithCallOpen
<1>2. PICK g \in Seq(LoopNode) : g = WithCall
  BY CallWritten
<1>3. batch \in Seq(Nat) /\ pos \in Nat \ {0} /\ batch' = batch /\ pos' = pos + 1 /\ wrote' = 0
  BY DEF LoopTypes, CallOver
<1>4. PICK n \in Nat : n = pos - 1
  BY <1>3
<1>5. n + 1 = pos /\ n + 1 <= Len(batch)
  BY <1>3, <1>4
<1>6. OpenAt(Append(g, Entry(kind, batch[n + 1])), batch, n + 1, n + 1)
  <2>1. OpenAt(g, batch, n + 1, n)
    BY <1>1, <1>2, <1>4, <1>5
  <2> QED BY <1>3, <1>5, <2>1, OpenResult
<1>7. OpenAt(history', batch, pos, pos)
  BY <1>2, <1>5, <1>6
<1>8. Written' = pos /\ pos' - 1 = pos
  BY <1>3 DEF Written
<1>9. OpenAt(history', batch', Written', pos' - 1)
  BY <1>3, <1>7, <1>8
<1>10. loopAt' # "recording" /\ loopAt' \notin Between /\ loopAt' \notin InCall
  BY DEF InCall, Between
<1>11. PlaceInv'
  BY <1>3, <1>10 DEF PlaceInv
<1> QED BY <1>1, <1>3, <1>9, <1>10, <1>11 DEF RequestInv, BatchInv, OpenInv, AnswersInv

\* The calls are over, and nothing is left without its result.
LEMMA OpenAnswered ==
  ASSUME LoopTypes, RequestInv, loopAt = "calls" PROVE AllAnswered(history) /\ IsInjective(batch)
<1>1. /\ history \in Seq(LoopNode) /\ batch \in Seq(Nat) /\ pos \in Nat \ {0} /\ pos <= Len(batch) + 1
      /\ IsInjective(batch) /\ OpenAt(history, batch, Written, pos - 1) /\ wrote = 0
  BY DEF LoopTypes, RequestInv, BatchInv, OpenInv, PlaceInv
<1>2. PICK n \in 0..Len(batch) : n = pos - 1
  BY <1>1
<1>3. Written = n
  BY <1>1, <1>2 DEF Written
<1> QED BY <1>1, <1>2, <1>3, OpenCloses

\* Where nothing is open.
LEMMA BetweenAnswered ==
  ASSUME AllAnswered(history'), loopAt' \in {"top", "cutting", "building", "streaming", "settling"}
  PROVE  RequestInv'
<1>1. loopAt' \notin {"recording", "calls"} \cup InCall
  BY DEF InCall
<1>2. PlaceInv'
  BY DEF PlaceInv
<1> QED BY <1>1, <1>2 DEF RequestInv, BatchInv, OpenInv, AnswersInv

LEMMA CallsAnswered == ASSUME LoopTypes, RequestInv, CallSteps PROVE RequestInv'
<1>0. loopAt \in InCall => pos \in DOMAIN batch
  BY DEF LoopTypes
<1>1. CASE ForceFinalization
  <2>1. history' = Append(history, Entry("notice", 0)) /\ loopAt' = "top" /\ loopAt = "calls"
    BY <1>1 DEF ForceFinalization
  <2>2. PICK e \in LoopNode : e = Entry("notice", 0)
    BY DEF Entry, LoopNode, EntryKind
  <2>3. e.kind = "notice"
    BY <2>2 DEF Entry
  <2>4. AllAnswered(history) /\ history \in Seq(LoopNode)
    BY <2>1, OpenAnswered DEF LoopTypes
  <2>5. AllAnswered(Append(history, e))
    BY <2>3, <2>4, StaysAnswered
  <2> QED BY <2>1, <2>2, <2>5, BetweenAnswered
<1>2. CASE NextRound
  <2>1. history' = history /\ loopAt' = "top" /\ loopAt = "calls"
    BY <1>2 DEF NextRound
  <2>2. AllAnswered(history')
    BY <2>1, OpenAnswered
  <2> QED BY <2>1, <2>2, BetweenAnswered
<1>3. CASE \E told \in BOOLEAN : RejectCall(told)
  <2>1. PICK told \in BOOLEAN : RejectCall(told)
    BY <1>3
  <2>2. pos \in DOMAIN batch /\ loopAt = "calls"
    BY <2>1, AtCallIn DEF RejectCall, AtCall
  <2>3. PICK kind \in {"failed", "refused"} : kind = IF told THEN "failed" ELSE "refused"
    OBVIOUS
  <2>4. history' = Append(WithCall, Entry(kind, batch[pos])) /\ CallOver
    BY <2>1, <2>3 DEF RejectCall, FailCall
  <2>5. loopAt' = "calls"
    BY <2>1 DEF RejectCall, GoesOn
  <2> QED BY <2>2, <2>4, <2>5, OverOpen
<1>4. CASE AllowCall
  <2>1. loopAt = "calls"
    BY <1>4 DEF AllowCall, AtCall
  <2>2. /\ history' = history /\ batch' = batch /\ pos' = pos /\ wrote' = wrote
        /\ loopAt' \in {"cleared", "trusted", "dispatching", "dispatchingTrusted", "thrown"}
    BY <1>4 DEF AllowCall
  <2> QED BY <2>1, <2>2, SilentOpen
<1>5. CASE AskApproval
  <2>1. pos \in DOMAIN batch /\ loopAt = "calls"
    BY <1>5, AtCallIn DEF AskApproval, AtCall
  <2>2. /\ history' \in {WithCall, Append(history, CallEntry)} /\ batch' = batch /\ pos' = pos
        /\ wrote' \in {1, 2} /\ loopAt' \in InCall
    BY <1>5 DEF AskApproval, InCall
  <2> QED BY <2>1, <2>2, WritingOpen
<1>6. CASE Approve
  <2>1. loopAt \in InCall
    BY <1>6 DEF Approve, InCall
  <2>2. /\ history' = history /\ batch' = batch /\ pos' = pos /\ wrote' = wrote
        /\ loopAt' \in {"cleared", "trusted", "dispatching", "dispatchingTrusted", "thrown"}
    BY <1>6 DEF Approve
  <2> QED BY <2>1, <2>2, SilentOpen
<1>7. CASE Decline
  <2>1. pos \in DOMAIN batch /\ loopAt \in InCall
    BY <1>0, <1>7 DEF Decline, InCall
  <2>2. history' = Append(WithCall, Entry("refused", batch[pos])) /\ CallOver
    BY <1>7 DEF Decline, FailCall
  <2>3. loopAt' \in {"calls", "closing"}
    BY <1>7 DEF Decline, GoesOn, Close
  <2> QED BY <2>1, <2>2, <2>3, OverOpen
<1>8. CASE Dispatch
  <2>1. loopAt \in InCall
    BY <1>8 DEF Dispatch, InCall
  <2>2. /\ history' = history /\ batch' = batch /\ pos' = pos /\ wrote' = wrote
        /\ loopAt' \in {"cleared", "trusted", "dispatching", "dispatchingTrusted", "thrown"}
    BY <1>8 DEF Dispatch
  <2> QED BY <2>1, <2>2, SilentOpen
<1>9. CASE FailInterrupted
  <2>1. pos \in DOMAIN batch /\ loopAt \in InCall
    BY <1>0, <1>9 DEF FailInterrupted, InCall
  <2>2. history' = Append(WithCall, Entry("refused", batch[pos])) /\ CallOver
    BY <1>9 DEF FailInterrupted, FailCall
  <2>3. loopAt' \in {"calls", "closing"}
    BY <1>9 DEF FailInterrupted, Close
  <2> QED BY <2>1, <2>2, <2>3, OverOpen
<1>10. CASE RefuseQuestion
  <2>1. pos \in DOMAIN batch /\ loopAt \in InCall
    BY <1>0, <1>10 DEF RefuseQuestion, InCall
  <2>2. history' = Append(WithCall, Entry("failed", batch[pos])) /\ CallOver
    BY <1>10 DEF RefuseQuestion, FailCall
  <2>3. loopAt' \in {"calls", "closing"}
    BY <1>10 DEF RefuseQuestion, GoesOn
  <2> QED BY <2>1, <2>2, <2>3, OverOpen
<1>11. CASE AskQuestion
  <2>1. pos \in DOMAIN batch /\ loopAt \in InCall
    BY <1>0, <1>11 DEF AskQuestion, InCall
  <2>2. /\ history' \in {WithCall, Append(history, CallEntry)} /\ batch' = batch /\ pos' = pos
        /\ wrote' \in {1, 2} /\ loopAt' \in InCall
    BY <1>11 DEF AskQuestion, InCall
  <2> QED BY <2>1, <2>2, WritingOpen
<1>12. CASE AnswerQuestion \/ ToolReturns
  <2>1. pos \in DOMAIN batch /\ loopAt \in InCall /\ loopAt \in {"interacting", "executing", "acting"}
    BY <1>0, <1>12 DEF AnswerQuestion, ToolReturns, InCall
  <2>2. Succeed
    BY <1>12 DEF AnswerQuestion, ToolReturns
  <2>3. WithCall = history
    BY <2>1 DEF WithCall, RequestInv, PlaceInv
  <2>4. history' = Append(WithCall, Entry("ok", batch[pos])) /\ CallOver
    BY <2>2, <2>3 DEF Succeed
  <2>5. loopAt' = "calls"
    BY <2>2 DEF Succeed, GoesOn
  <2> QED BY <2>1, <2>4, <2>5, OverOpen
<1>13. CASE LeaveQuestion
  <2>1. pos \in DOMAIN batch /\ loopAt \in InCall
    BY <1>0, <1>13 DEF LeaveQuestion, InCall
  <2>2. history' = Append(WithCall, Entry("refused", batch[pos])) /\ CallOver
    BY <1>13 DEF LeaveQuestion, FailCall
  <2>3. loopAt' \in {"calls", "closing"}
    BY <1>13 DEF LeaveQuestion, Close
  <2> QED BY <2>1, <2>2, <2>3, OverOpen
<1>14. CASE QuestionFails
  <2>1. /\ history' = history /\ batch' = batch /\ pos' = pos /\ wrote' = wrote /\ loopAt' = "closing"
    BY <1>14 DEF QuestionFails, Close
  <2> QED BY <2>1, SilentOpen
<1>15. CASE RefuseDispatch
  <2>1. pos \in DOMAIN batch /\ loopAt \in InCall
    BY <1>0, <1>15 DEF RefuseDispatch, InCall
  <2>2. history' = Append(WithCall, Entry("failed", batch[pos])) /\ CallOver
    BY <1>15 DEF RefuseDispatch, FailCall
  <2>3. loopAt' \in {"calls", "closing"}
    BY <1>15 DEF RefuseDispatch, GoesOn
  <2> QED BY <2>1, <2>2, <2>3, OverOpen
<1>16. CASE Execute
  <2>1. pos \in DOMAIN batch /\ loopAt \in InCall
    BY <1>0, <1>16 DEF Execute, InCall
  <2>2. /\ history' \in {WithCall, Append(history, CallEntry)} /\ batch' = batch /\ pos' = pos
        /\ wrote' \in {1, 2} /\ loopAt' \in InCall
    BY <1>16 DEF Execute, InCall
  <2> QED BY <2>1, <2>2, WritingOpen
<1>17. CASE ToolThrows
  <2>1. loopAt \in InCall
    BY <1>17 DEF ToolThrows, InCall
  <2>2. /\ history' = history /\ batch' = batch /\ pos' = pos /\ wrote' = wrote
        /\ loopAt' \in {"cleared", "trusted", "dispatching", "dispatchingTrusted", "thrown"}
    BY <1>17 DEF ToolThrows
  <2> QED BY <2>1, <2>2, SilentOpen
<1>18. CASE TellFailure
  <2>1. pos \in DOMAIN batch /\ loopAt \in InCall
    BY <1>0, <1>18 DEF TellFailure, InCall
  <2>2. PICK told \in BOOLEAN : FailCall(told)
    BY <1>18 DEF TellFailure
  <2>3. PICK kind \in {"failed", "refused"} : kind = IF told THEN "failed" ELSE "refused"
    OBVIOUS
  <2>4. history' = Append(WithCall, Entry(kind, batch[pos])) /\ CallOver
    BY <2>2, <2>3 DEF FailCall
  <2>5. loopAt' = "calls"
    BY <1>18 DEF TellFailure, GoesOn
  <2> QED BY <2>1, <2>4, <2>5, OverOpen
<1>19. CASE Escalate
  <2>1. pos \in DOMAIN batch /\ loopAt \in InCall
    BY <1>0, <1>19 DEF Escalate, InCall
  <2>2. batch' = batch /\ pos' = pos
    BY <1>19 DEF Escalate
  <2>3. CASE loopAt' = "trusted" /\ history' = history /\ wrote' = wrote
    BY <2>1, <2>2, <2>3, SilentOpen
  <2>4. CASE loopAt' = "askingTrusted" /\ history' = Append(history, CallEntry) /\ wrote' = 2
    <3>1. loopAt' \in InCall
      BY <2>4 DEF InCall
    <3> QED BY <2>1, <2>2, <2>4, <3>1, WritingOpen
  <2> QED BY <1>19, <2>3, <2>4 DEF Escalate
<1>20. CASE ExecuteTrusted
  <2>1. pos \in DOMAIN batch /\ loopAt \in InCall
    BY <1>0, <1>20 DEF ExecuteTrusted, InCall
  <2>2. batch' = batch /\ pos' = pos /\ wrote' \in {1, 2} /\ loopAt' \in InCall
    BY <1>20 DEF ExecuteTrusted, InCall
  <2>3. history' \in {WithCall, Append(history, CallEntry)}
    BY <1>20 DEF ExecuteTrusted, WithCall
  <2> QED BY <2>1, <2>2, <2>3, WritingOpen
<1> QED
  BY <1>1, <1>2, <1>3, <1>4, <1>5, <1>6, <1>7, <1>8, <1>9, <1>10, <1>11, <1>12, <1>13, <1>14,
     <1>15, <1>16, <1>17, <1>18, <1>19, <1>20 DEF CallSteps

\* Where nothing of it is looked at any more.
LEMMA EndAnswered == ASSUME loopAt' \in {"closing", "done"} PROVE RequestInv'
<1>1. loopAt' \notin {"recording", "calls"} \cup InCall /\ loopAt' \notin Between
  BY DEF InCall, Between
<1> QED BY <1>1 DEF RequestInv, BatchInv, PlaceInv, OpenInv, AnswersInv

LEMMA SameAnswered ==
  ASSUME RequestInv, loopAt' = loopAt, history' = history, batch' = batch, pos' = pos, wrote' = wrote
  PROVE  RequestInv'
  BY DEF RequestInv, BatchInv, PlaceInv, OpenInv, AnswersInv, Written

LEMMA GivenAnswered ==
  ASSUME LoopTypes, AllAnswered(history), NEW S \in SUBSET DOMAIN steers, GiveSteers(S)
  PROVE  AllAnswered(history')
<1>1. /\ steers \in Seq(SteerState) /\ history \in Seq(LoopNode) /\ Len(steers) \in Nat
      /\ DOMAIN steers = 1..Len(steers) /\ "steer" \in EntryKind
  BY DEF LoopTypes, EntryKind
<1>2. S \in SUBSET Nat /\ IsFiniteSet(S)
  <2>1. PICK k \in Nat : k = Len(steers)
    BY <1>1
  <2>2. IsFiniteSet(1..k)
    BY FS_Interval
  <2>3. S \subseteq 1..k
    BY <1>1, <2>1
  <2> QED BY <2>2, <2>3, FS_Subset
<1>3. PICK n \in Nat : n = Cardinality(S)
  BY <1>2, InOrderIs
<1>4. PICK s \in [1..n -> S] : s = InOrder(S)
  BY <1>2, <1>3, InOrderIs
<1>5. PICK r : r = [i \in 1..n |-> Entry("steer", s[i])]
  OBVIOUS
<1>6. r \in [1..n -> LoopNode] /\ \A i \in 1..n : r[i].kind = "steer"
  BY <1>1, <1>2, <1>4, <1>5 DEF Entry, LoopNode
<1>7. history' = history \o r
  BY <1>3, <1>4, <1>5 DEF GiveSteers
<1> QED BY <1>1, <1>6, <1>7, UsersSay

LEMMA AnswerAnswered ==
  ASSUME LoopTypes, RequestInv, NEW ids \in Seq(Nat), ModelAnswers(ids) PROVE RequestInv'
<1>1. history \in Seq(LoopNode)
  BY DEF LoopTypes
<1>2. UsedIds \in SUBSET Nat /\ IsFiniteSet(UsedIds)
  BY <1>1, UsedFinitely
<1>3. UniqueIds(ids, UsedIds) \in Unlike(UsedIds)
  BY <1>2, IdsUnique
<1>4. history' = history /\ batch' = UniqueIds(ids, UsedIds) /\ loopAt' = "recording" /\ loopAt = "streaming"
      /\ pos' = 1
  BY DEF ModelAnswers
<1>5. UsedIds = UsedIn(history)
  BY DEF UsedIds, UsedIn
<1>6. IsInjective(batch') /\ \A i \in DOMAIN batch' : batch'[i] \notin UsedIn(history')
  BY <1>3, <1>4, <1>5 DEF Unlike
<1>7. BatchInv'
  BY <1>6 DEF BatchInv
<1>8. PlaceInv' /\ OpenInv'
  BY <1>4 DEF PlaceInv, OpenInv, InCall
<1>9. AnswersInv'
  BY <1>4 DEF RequestInv, AnswersInv, Between
<1> QED BY <1>7, <1>8, <1>9 DEF RequestInv

LEMMA RecordAnswered == ASSUME LoopTypes, RequestInv, RecordAnswer PROVE RequestInv'
<1>1. /\ history \in Seq(LoopNode) /\ batch \in Seq(Nat) /\ loopAt = "recording" /\ batch' = batch /\ pos' = pos
      /\ history' = Append(history, Entry("assistant", 0)) /\ wrote' = 0
  BY DEF LoopTypes, RecordAnswer
<1>2. AllAnswered(history) /\ IsInjective(batch) /\ \A i \in DOMAIN batch : batch[i] \notin UsedIn(history)
  BY <1>1 DEF RequestInv, AnswersInv, BatchInv, Between
<1>3. PICK e \in LoopNode : e = Entry("assistant", 0)
  BY DEF Entry, LoopNode, EntryKind
<1>4. AllAnswered(history')
  <2>1. e.kind = "assistant"
    BY <1>3 DEF Entry
  <2>2. AllAnswered(Append(history, e))
    BY <1>1, <1>2, <2>1, StaysAnswered
  <2> QED BY <1>1, <1>3, <2>2
<1>9. pos = 1
  BY <1>1 DEF RequestInv, PlaceInv
<1>5. CASE loopAt' = "closing"
  BY <1>5, EndAnswered
<1>6. CASE loopAt' = "settling"
  BY <1>4, <1>6, BetweenAnswered
<1>7. CASE loopAt' = "calls" /\ pos = 1
  <2>1. OpenAt(history', batch, 0, 0)
    BY <1>1, <1>2, OpenBegins
  <2>2. Written' = 0 /\ pos' - 1 = 0
    BY <1>1, <1>7 DEF Written
  <2>3. OpenAt(history', batch', Written', pos' - 1)
    BY <1>1, <2>1, <2>2
  <2>4. loopAt' \notin Between /\ loopAt' # "recording" /\ loopAt' \notin InCall
    BY <1>7 DEF Between, InCall
  <2>5. PlaceInv' /\ BatchInv' /\ OpenInv' /\ AnswersInv'
    BY <1>1, <1>2, <1>7, <2>3, <2>4 DEF PlaceInv, BatchInv, OpenInv, AnswersInv
  <2> QED BY <2>5 DEF RequestInv
<1> QED BY <1>5, <1>6, <1>7, <1>9 DEF RecordAnswer, Close

LEMMA RequestsAnswered == ASSUME LoopTypes, RequestInv, RequestSteps PROVE RequestInv'
<1>0. loopAt \in Between => AllAnswered(history)
  BY DEF RequestInv, AnswersInv
<1>1. CASE TakeCutoff
  <2>1. history' = history /\ loopAt' = "cutting" /\ loopAt \in Between
    BY <1>1 DEF TakeCutoff, Between
  <2>2. AllAnswered(history')
    BY <1>0, <2>1
  <2> QED BY <2>1, <2>2, BetweenAnswered
<1>2. CASE Materialize
  <2>1. CASE loopAt' = "closing"
    BY <2>1, EndAnswered
  <2>2. CASE GiveSteers(cutoff \cap In("stored")) /\ loopAt' = "building"
    <3>1. PICK S \in SUBSET DOMAIN steers : S = cutoff \cap In("stored")
      BY DEF In
    <3>2. AllAnswered(history)
      BY <1>0, <1>2 DEF Materialize, Between
    <3>3. AllAnswered(history')
      BY <2>2, <3>1, <3>2, GivenAnswered
    <3> QED BY <2>2, <3>3, BetweenAnswered
  <2> QED BY <1>2, <2>1, <2>2 DEF Materialize, Close
<1>3. CASE AskModel
  <2>1. history' = history /\ loopAt' = "streaming" /\ loopAt \in Between
    BY <1>3 DEF AskModel, Between
  <2>2. AllAnswered(history')
    BY <1>0, <2>1
  <2> QED BY <2>1, <2>2, BetweenAnswered
<1>4. CASE RequestFails
  BY <1>4, EndAnswered DEF RequestFails, Close
<1>5. CASE RecordAnswer
  BY <1>5, RecordAnswered
<1>6. CASE Settle
  <2>1. history' = history /\ loopAt \in Between /\ loopAt' \in {"top", "closing"}
    BY <1>6 DEF Settle, Between, Close
  <2>2. AllAnswered(history')
    BY <1>0, <2>1
  <2> QED BY <2>1, <2>2, BetweenAnswered, EndAnswered
<1>7. ASSUME NEW k \in 0..MaxCalls, NEW ids \in [1..k -> 1..k], ModelAnswers(ids) PROVE RequestInv'
  <2>1. ids \in Seq(Nat)
    <3>1. k \in Nat /\ ids \in [1..k -> Nat]
      BY LoopAssumption
    <3> QED BY <3>1
  <2> QED BY <1>7, <2>1, AnswerAnswered
<1> QED BY <1>1, <1>2, <1>3, <1>4, <1>5, <1>6, <1>7 DEF RequestSteps

\* Every request can be answered by the provider: no two calls share an id, and the message
\* after an answer holds exactly the results of its calls, however the calls were refused,
\* interrupted, asked about or tried again (src/src/agent/loop.ts, src/src/db/sessionContext.ts).
THEOREM RequestsAreWellFormed == LoopSpec => []RequestsWellFormed
<1> DEFINE Inv == LoopTypes /\ RequestInv
<1>1. LoopInit => Inv
  <2> SUFFICES ASSUME LoopInit PROVE Inv
    OBVIOUS
  <2>1. /\ steers = <<>> /\ cutoff = {} /\ loopAt = "top" /\ history = <<>> /\ batch = <<>> /\ pos = 1
    BY DEF LoopInit
  <2>2. DOMAIN steers = {} /\ DOMAIN history = {} /\ Len(batch) = 0 /\ loopAt \notin InCall
    BY <2>1 DEF InCall
  <2>3. LoopTypes
    BY <2>1, <2>2 DEF LoopTypes
  <2>4. AllAnswered(history)
    <3>1. Wire(Messages(history)) = <<>>
      BY <2>1, NothingSaid
    <3>2. PICK w : w = Wire(Messages(history))
      OBVIOUS
    <3>3. DOMAIN w = {}
      BY <3>1, <3>2, NothingIn
    <3>4. Asks(w) = {}
      BY <3>3 DEF Asks
    <3>5. Sound(w) /\ AskedIn(w, UsedIn(history))
      BY <3>3, <3>4 DEF Sound, AskedIn
    <3> QED BY <3>2, <3>5 DEF AllAnswered
  <2>5. RequestInv
    BY <2>1, <2>2, <2>4 DEF RequestInv, BatchInv, PlaceInv, OpenInv, AnswersInv
  <2> QED BY <2>3, <2>5
<1>2. SteerInv /\ Inv /\ [LoopNext]_loopVars => RequestInv'
  <2> SUFFICES ASSUME LoopTypes, RequestInv, [LoopNext]_loopVars PROVE RequestInv'
    OBVIOUS
  <2>1. CASE UserSteps
    <3>1. loopAt' = loopAt /\ history' = history /\ batch' = batch /\ pos' = pos /\ wrote' = wrote
      BY <2>1 DEF UserSteps, Steer, Interrupt, Admitted
    <3> QED BY <3>1, SameAnswered
  <2>2. CASE RequestSteps
    BY <2>2, RequestsAnswered
  <2>3. CASE CallSteps
    BY <2>3, CallsAnswered
  <2>4. CASE EndSteps
    BY <2>4, EndAnswered DEF EndSteps, StopAborted, Close, FinishTurn
  <2>5. CASE UNCHANGED loopVars
    BY <2>5, SameAnswered
  <2> QED BY <2>1, <2>2, <2>3, <2>4, <2>5 DEF LoopNext
<1>3. Inv => RequestsWellFormed
  <2> SUFFICES ASSUME LoopTypes, RequestInv, loopAt = "streaming" PROVE RequestsWellFormed
    BY DEF RequestsWellFormed
  <2>1. AllAnswered(history)
    BY DEF RequestInv, AnswersInv, Between
  <2>2. PICK w : w = WireMessages
    OBVIOUS
  <2>3. Sound(w)
    BY <2>1, <2>2 DEF AllAnswered, WireMessages
  <2> QED BY <2>2, <2>3 DEF RequestsWellFormed, Sound, Asks
<1>4. LoopSpec => []SteerInv
  BY SteerAlways
<1>6. LoopSpec => []Inv
  <2>1. SteerInv /\ SteerInv' /\ Inv /\ [LoopNext]_loopVars => Inv'
    <3>1. SteerInv' => LoopTypes'
      BY DEF SteerInv
    <3> QED BY <1>2, <3>1
  <2> HIDE DEF Inv
  <2> QED BY <1>1, <1>4, <2>1, PTL DEF LoopSpec
<1> HIDE DEF Inv
<1> QED BY <1>3, <1>6, PTL
=============================================================================
