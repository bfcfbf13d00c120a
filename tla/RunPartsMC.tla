----------------------------- MODULE RunPartsMC ----------------------------
(* The parts around a run, checked in one run: the loop of its turn, the  *)
(* tools that work on tabs, attachments, plugins, the login at an MCP     *)
(* server, the port to the offscreen document and the start of the        *)
(* worker. The initial state chooses which of them the behaviour is       *)
(* about, and the others stand still where they begin.                    *)
EXTENDS AgentLoop, PluginStore, OAuthLogin, WorkerStartup, TabTools, Attachments, WorkerPort

CONSTANTS RunParts,                       \* the parts a run is about
          pa, pb, na, nb,                 \* plugins and names of skills
          issuer1, issuer2, here1, here2, \* authorization servers and where they answer
          plan1, plan2, plan3,
          home, inbox, elsewhere          \* pages

VARIABLE runPart

runPartsVars == <<runPart, loopVars, pluginVars, loginVars, startupVars, toolVars, attachmentVars,
                  portVars>>

(* A plugin that renames its skill, and one that has the new name too.     *)
SoundArchive(p, v, n) ==
  [plugin |-> p, version |-> v, skills |-> {n}, files |-> {n}, unsafe |-> {}]
SampleArchives ==
  {SoundArchive(pa, 1, na), SoundArchive(pa, 2, nb), SoundArchive(pb, 1, nb),
   [SoundArchive(pb, 1, na) EXCEPT !.files = {na, nb}, !.unsafe = {nb}]}
(* One issuer that moves its endpoints, and another one.                   *)
SampleIssuers == [p \in LoginPlan |-> IF p = plan3 THEN issuer2 ELSE issuer1]
SampleEndpoints == [p \in LoginPlan |-> IF p = plan1 THEN here1 ELSE here2]
(* Two pages of one site and one of another.                               *)
SampleSites == [p \in Page |-> IF p = elsewhere THEN elsewhere ELSE home]

RunPartsInit ==
  /\ runPart \in RunParts
  /\ LoopInit /\ PluginInit /\ LoginInit /\ StartupInit /\ ToolInit /\ AttachmentInit /\ PortInit
  /\ runPart = "startup" \/ profile = Fresh
  /\ runPart = "login" \/ (published = plan1 /\ permitted = {Resource} /\ auth = NoAuth)
  /\ permitted \in {{Resource}, {Resource} \cup Origins}
  /\ runPart = "tools" \/ window = [t \in ToolTab |-> IF t = shown THEN window[t] ELSE Closed]
  /\ runPart = "tools" \/ (shown = NoCall.tab /\ window[shown].url = home)

LoopMoves == runPart = "loop" /\ LoopNext
  /\ UNCHANGED <<runPart, pluginVars, loginVars, startupVars, toolVars, attachmentVars, portVars>>
PluginsMove == runPart = "plugins" /\ PluginNext
  /\ UNCHANGED <<runPart, loopVars, loginVars, startupVars, toolVars, attachmentVars, portVars>>
LoginMoves == runPart = "login" /\ LoginNext
  /\ UNCHANGED <<runPart, loopVars, pluginVars, startupVars, toolVars, attachmentVars, portVars>>
StartupMoves == runPart = "startup" /\ StartupNext
  /\ UNCHANGED <<runPart, loopVars, pluginVars, loginVars, toolVars, attachmentVars, portVars>>
ToolsMove == runPart = "tools" /\ ToolNext
  /\ UNCHANGED <<runPart, loopVars, pluginVars, loginVars, startupVars, attachmentVars, portVars>>
AttachmentsMove == runPart = "attachments" /\ AttachmentNext
  /\ UNCHANGED <<runPart, loopVars, pluginVars, loginVars, startupVars, toolVars, portVars>>
PortMoves == runPart = "port" /\ PortNext
  /\ UNCHANGED <<runPart, loopVars, pluginVars, loginVars, startupVars, toolVars, attachmentVars>>

RunPartsNext ==
  \/ LoopMoves \/ PluginsMove \/ LoginMoves \/ StartupMoves \/ ToolsMove \/ AttachmentsMove
  \/ PortMoves

RunPartsSpec == RunPartsInit /\ [][RunPartsNext]_runPartsVars

(* Every part keeps to its types. *)
RunPartsTypeOK ==
  /\ LoopTypeOK /\ PluginTypeOK /\ LoginTypeOK /\ StartupTypeOK /\ ToolTypeOK /\ AttachmentTypeOK
  /\ PortTypeOK
============================================================================
