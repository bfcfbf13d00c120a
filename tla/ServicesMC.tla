----------------------------- MODULE ServicesMC ----------------------------
(* The parts that serve a run and its pages, checked in one run: the      *)
(* initial state chooses which of them the behaviour is about, and the    *)
(* others stand still where they begin.                                   *)
EXTENDS McpServers, McpSession, Gatekeeper, ConversationTree, BackupRestore,
        SettingsSync, Composer, ModelStream, RunEnvironment

CONSTANT Parts   \* the parts a run is about

VARIABLE part

servicesVars == <<part, serverVars, sessionVars, gateVars, treeVars, backupVars, vaultVars,
                  settingsVars, composerVars, modelVars, environmentVars>>

(* What the settings page may add: a rule that denies, and one that asks with more weight. *)
SampleRules ==
  {[tools |-> GateTool, toolScore |-> IF verdict = "deny" THEN 0 ELSE 2,
    origins |-> GateOrigin \cup {NoOrigin}, originScore |-> 0, verdict |-> verdict,
    source |-> "user_setting"] : verdict \in {"deny", "ask"}}

ServicesInit ==
  /\ part \in Parts
  /\ ServersInit /\ SessionInit /\ GateInit /\ TreeInit /\ BackupInit /\ VaultInit
  /\ SettingsInit /\ ComposerInit /\ ModelInit /\ EnvironmentInit
  /\ part = "vault" \/ bound
  /\ part = "settings" \/ list = EmptyList
  /\ part = "composer" \/ known = {}
  /\ part = "model" \/ dialect.wire = "anthropic"
  /\ part = "environment" \/ conn = CHOOSE c \in Connections : c.state = "on" /\ Len(c.keys) = 1

ServersMove == part = "servers" /\ ServersNext
  /\ UNCHANGED <<part, sessionVars, gateVars, treeVars, backupVars, vaultVars, settingsVars,
                 composerVars, modelVars, environmentVars>>
SessionMoves == part = "session" /\ SessionNext
  /\ UNCHANGED <<part, serverVars, gateVars, treeVars, backupVars, vaultVars, settingsVars,
                 composerVars, modelVars, environmentVars>>
GateMoves == part = "gate" /\ GateNext
  /\ UNCHANGED <<part, serverVars, sessionVars, treeVars, backupVars, vaultVars, settingsVars,
                 composerVars, modelVars, environmentVars>>
TreeMoves == part = "tree" /\ TreeNext
  /\ UNCHANGED <<part, serverVars, sessionVars, gateVars, backupVars, vaultVars, settingsVars,
                 composerVars, modelVars, environmentVars>>
BackupMoves == part = "backup" /\ BackupNext
  /\ UNCHANGED <<part, serverVars, sessionVars, gateVars, treeVars, vaultVars, settingsVars,
                 composerVars, modelVars, environmentVars>>
VaultMoves == part = "vault" /\ VaultNext
  /\ UNCHANGED <<part, serverVars, sessionVars, gateVars, treeVars, backupVars, settingsVars,
                 composerVars, modelVars, environmentVars>>
SettingsMove == part = "settings" /\ SettingsNext
  /\ UNCHANGED <<part, serverVars, sessionVars, gateVars, treeVars, backupVars, vaultVars,
                 composerVars, modelVars, environmentVars>>
ComposerMoves == part = "composer" /\ ComposerNext
  /\ UNCHANGED <<part, serverVars, sessionVars, gateVars, treeVars, backupVars, vaultVars,
                 settingsVars, modelVars, environmentVars>>
ModelMoves == part = "model" /\ ModelNext
  /\ UNCHANGED <<part, serverVars, sessionVars, gateVars, treeVars, backupVars, vaultVars,
                 settingsVars, composerVars, environmentVars>>
EnvironmentMoves == part = "environment" /\ EnvironmentNext
  /\ UNCHANGED <<part, serverVars, sessionVars, gateVars, treeVars, backupVars, vaultVars,
                 settingsVars, composerVars, modelVars>>

ServicesNext ==
  \/ ServersMove \/ SessionMoves \/ GateMoves \/ TreeMoves \/ BackupMoves \/ VaultMoves
  \/ SettingsMove \/ ComposerMoves \/ ModelMoves \/ EnvironmentMoves

ServicesSpec == ServicesInit /\ [][ServicesNext]_servicesVars

(* Every part keeps to its types. *)
ServicesTypeOK ==
  /\ ServersTypeOK /\ SessionTypeOK /\ GateTypeOK /\ TreeTypeOK /\ BackupTypeOK /\ VaultTypeOK
  /\ SettingsTypeOK /\ ComposerTypeOK /\ ModelTypeOK /\ EnvironmentTypeOK
============================================================================
