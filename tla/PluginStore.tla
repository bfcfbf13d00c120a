------------------------------ MODULE PluginStore ------------------------------
(* Plugins and skills in the database, as settings pages change them                       *)
(* (src/plugins/manager.ts, src/plugins/assets.ts, src/skills/manager.ts, the pages of     *)
(* src/ui/settings).                                                                       *)
(*                                                                                         *)
(* A plugin is installed in two steps: a page analyses an archive into a plan the user     *)
(* reads, and commits the plan. Between them the source, the database and the other page   *)
(* may change. Installing, enabling and removing a plugin are transactions; saving a skill *)
(* the user wrote or copied is a read and a later write.                                   *)
EXTENDS Naturals, FiniteSets

CONSTANTS
  Plugin,    \* ids of plugins
  Archive,   \* archives: the plugin, a version, the skills its manifest declares, the
             \* skills whose files it holds, those of them that are executable or links
  SkillName,
  PluginPage, \* open settings pages
  User,      \* the owner of a skill that is no plugin's
  NoArchive, \* no archive
  MaxSaves   \* bound: skills saved and copied by hand

ASSUME PluginAssumption ==
  /\ \A a \in Archive : a.plugin \in Plugin /\ a.skills \cup a.files \cup a.unsafe \subseteq SkillName
  /\ User \notin Plugin /\ NoArchive \notin Archive /\ MaxSaves \in Nat

VARIABLES
  installed,   \* db.plugins: the archive of each plugin
  enabledIn,   \* the plugins that are switched on
  assetsOf,    \* db.pluginAssets: the archive whose files are stored for each plugin
  skills,      \* db.skills
  plan,        \* the plan each page shows
  fetching,    \* the archive a commit has downloaded
  saving,      \* the skill a page is saving, with what it read
  saves,
  unseen       \* something was installed that its page had not shown

pluginVars == <<installed, enabledIn, assetsOf, skills, plan, fetching, saving, saves,
                 unseen>>

NoPlan == [archive |-> NoArchive, before |-> NoArchive, wasOn |-> FALSE]
NoSaving == [name |-> NoArchive, of |-> NoArchive, on |-> FALSE]
SkillRecord(name, owner, from, on) ==
  [name |-> name, owner |-> owner, from |-> from, enabled |-> on]

Named(name) == {s \in skills : s.name = name}

(* A record that is deleted takes its random id with it: a page about to overwrite it adds *)
(* a record instead.                                                                       *)
Forgotten(p) == [g \in PluginPage |-> IF saving[g].of = p THEN [saving[g] EXCEPT !.of = NoArchive]
                                      ELSE saving[g]]

PluginInit ==
  /\ installed = [p \in Plugin |-> NoArchive] /\ enabledIn = {}
  /\ assetsOf = [p \in Plugin |-> NoArchive] /\ skills = {}
  /\ plan = [g \in PluginPage |-> NoPlan] /\ fetching = [g \in PluginPage |-> NoArchive]
  /\ saving = [g \in PluginPage |-> NoSaving]
  /\ saves = 0 /\ unseen = FALSE

(* prepareArchive: nothing that could run is in it, and it holds the files its manifest    *)
(* declares and no other.                                                                  *)
ValidEntries(a) == a.unsafe = {}
Prepared(a) == ValidEntries(a) /\ a.files = a.skills

(* validateConflicts: a skill of that name belongs to the plugin that is replaced, or to   *)
(* nobody.                                                                                 *)
Conflicts(a) ==
  \E n \in a.skills : \E s \in Named(n) : installed[a.plugin] = NoArchive \/ s.owner # a.plugin

(* ------------------------------ plugins ------------------------------ *)

(* analyzeZip, analyzeUrl: what is shown is one archive against the database as it is now. *)
Analyze(g, a) ==
  /\ plan[g] = NoPlan /\ Prepared(a) /\ ~Conflicts(a)
  /\ plan' = [plan EXCEPT ![g] =
       [archive |-> a, before |-> installed[a.plugin],
        wasOn |-> a.plugin \in enabledIn]]
  /\ UNCHANGED <<installed, enabledIn, assetsOf, skills, fetching, saving, saves, unseen>>

(* Five minutes pass, after which commit refuses the plan, or the user closes the dialog.  *)
LeavePlan(g) ==
  /\ plan[g] # NoPlan /\ fetching[g] = NoArchive
  /\ plan' = [plan EXCEPT ![g] = NoPlan]
  /\ UNCHANGED <<installed, enabledIn, assetsOf, skills, fetching, saving, saves, unseen>>

(* What a download gives by now: any archive, or none when the repository is not found or   *)
(* the file is too large.                                                                  *)
Downloads == Archive \cup {NoArchive}

SamePlugin(g, a) == a.plugin = plan[g].archive.plugin

(* commit, up to the transaction: a repository's archive is downloaded again, and one that *)
(* is not what the plan showed ends it there; a local file is what it was.                 *)
SameDigest(g, a) == a = plan[g].archive

Confirm(g, a) ==
  /\ plan[g] # NoPlan /\ fetching[g] = NoArchive
  /\ a # NoArchive /\ SameDigest(g, a) /\ Prepared(a)
  /\ fetching' = [fetching EXCEPT ![g] = a]
  /\ UNCHANGED <<installed, enabledIn, assetsOf, skills, plan, saving, saves, unseen>>

(* assertPlanDatabaseState: the plugin is still as the plan showed it. Two archives of one *)
(* version are told apart by nothing the plan compares.                                    *)
Version(a) == IF a = NoArchive THEN 0 ELSE a.version
AsPlanned(g) ==
  LET p == plan[g].archive.plugin IN
  /\ Version(installed[p]) = Version(plan[g].before)
  /\ plan[g].before # NoArchive => (p \in enabledIn) = plan[g].wasOn

Everyone(p) == skills
NotOf(p) == {s \in skills : s.owner # p}

Commit(g) ==
  LET a == fetching[g]
      fresh == {SkillRecord(n, a.plugin, a, FALSE) : n \in a.skills}
  IN /\ a # NoArchive /\ AsPlanned(g) /\ ~Conflicts(a)
     /\ installed' = [installed EXCEPT ![a.plugin] = a] /\ enabledIn' = enabledIn \ {a.plugin}
     /\ assetsOf' = [assetsOf EXCEPT ![a.plugin] = a] /\ skills' = NotOf(a.plugin) \cup fresh
     /\ plan' = [plan EXCEPT ![g] = NoPlan] /\ fetching' = [fetching EXCEPT ![g] = NoArchive]
     /\ saving' = Forgotten(a.plugin)
     /\ unseen' = (unseen \/ a # plan[g].archive)
     /\ UNCHANGED <<saves>>

CommitFails(g) ==
  /\ fetching[g] # NoArchive
  /\ ~AsPlanned(g) \/ Conflicts(fetching[g])
  /\ fetching' = [fetching EXCEPT ![g] = NoArchive]
  /\ UNCHANGED <<installed, enabledIn, assetsOf, skills, plan, saving, saves,
                 unseen>>

(* setEnabled, for the plugin and its skills together.                                     *)
SetEnabled(p, on) ==
  /\ installed[p] # NoArchive
  /\ enabledIn' = IF on THEN enabledIn \cup {p} ELSE enabledIn \ {p}
  /\ skills' = {[s EXCEPT !.enabled = IF s.owner = p THEN on ELSE @] : s \in skills}
  /\ UNCHANGED <<installed, assetsOf, plan, fetching, saving, saves, unseen>>

Uninstall(p) ==
  /\ installed[p] # NoArchive
  /\ installed' = [installed EXCEPT ![p] = NoArchive] /\ enabledIn' = enabledIn \ {p}
  /\ assetsOf' = [assetsOf EXCEPT ![p] = NoArchive] /\ skills' = NotOf(p)
  /\ saving' = Forgotten(p)
  /\ UNCHANGED <<plan, fetching, saves, unseen>>

(* ------------------------------ skills of the user ------------------------------ *)

(* importFromText reads the skill of that name. Unless it is the one being edited, the     *)
(* user chooses to replace it; a replaced skill keeps its id and whether it is on.         *)
Saving(g, name, of, on) ==
  saving' = [saving EXCEPT ![g] = [name |-> name, of |-> of, on |-> on]]

ReadSkill(g, name) ==
  /\ saving[g] = NoSaving /\ saves < MaxSaves /\ saves' = saves + 1
  /\ \/ Named(name) = {} /\ Saving(g, name, NoArchive, TRUE)
     \/ \E s \in Named(name) : Saving(g, name, s.owner, s.enabled)
  /\ UNCHANGED <<installed, enabledIn, assetsOf, skills, plan, fetching, unseen>>

(* copySkillToUser: the text of an installed plugin's skill, under a name that is free.    *)
CopySkill(g, p, name) ==
  /\ saving[g] = NoSaving /\ saves < MaxSaves /\ saves' = saves + 1
  /\ assetsOf[p] # NoArchive /\ assetsOf[p].skills # {} /\ Named(name) = {}
  /\ Saving(g, name, NoArchive, TRUE)
  /\ UNCHANGED <<installed, enabledIn, assetsOf, skills, plan, fetching, unseen>>

(* The skill is the user's from here on.                                                   *)
SaveSkill(g) ==
  /\ saving[g] # NoSaving
  /\ skills' = {s \in Named(saving[g].name) : s.owner # saving[g].of}
                 \cup (skills \ Named(saving[g].name))
                 \cup {SkillRecord(saving[g].name, User, NoArchive, saving[g].on)}
  /\ saving' = [saving EXCEPT ![g] = NoSaving]
  /\ UNCHANGED <<installed, enabledIn, assetsOf, plan, fetching, saves, unseen>>

(* The user switches or removes a skill of their own; a plugin's are out of reach.         *)
ChangeSkill(s) ==
  /\ s.owner = User
  /\ \/ skills' = skills \ {s}
     \/ skills' = (skills \ {s}) \cup {[s EXCEPT !.enabled = ~@]}
  /\ UNCHANGED <<installed, enabledIn, assetsOf, plan, fetching, saving, saves,
                 unseen>>

PluginNext ==
  \/ \E g \in PluginPage :
       \/ \E a \in Archive : Analyze(g, a)
       \/ \E a \in Downloads : Confirm(g, a)
       \/ LeavePlan(g) \/ Commit(g) \/ CommitFails(g)
       \/ \E n \in SkillName : ReadSkill(g, n) \/ \E p \in Plugin : CopySkill(g, p, n)
       \/ SaveSkill(g)
  \/ \E p \in Plugin : Uninstall(p) \/ \E on \in BOOLEAN : SetEnabled(p, on)
  \/ \E s \in skills : ChangeSkill(s)

PluginSpec == PluginInit /\ [][PluginNext]_pluginVars

(* ------------------------------ what holds ------------------------------ *)

PluginTypeOK ==
  /\ installed \in [Plugin -> Archive \cup {NoArchive}]
  /\ assetsOf \in [Plugin -> Archive \cup {NoArchive}] /\ enabledIn \subseteq Plugin
  /\ skills \subseteq [name : SkillName, owner : Plugin \cup {User}, from : Archive \cup {NoArchive},
                       enabled : BOOLEAN]
  /\ fetching \in [PluginPage -> Archive \cup {NoArchive}]
  /\ unseen \in BOOLEAN

(* docs/en/development/skills-plugins.md: a plugin is one read-only unit. Whatever two     *)
(* pages commit, enable, remove and save over each other, what is installed is an archive  *)
(* a page has shown, its files and skills are that archive's and nobody else's, and its  *)
(* skills are on exactly when it is.                                                       *)
PluginsWhole ==
  /\ ~unseen /\ \A p \in Plugin : assetsOf[p] = installed[p]
  /\ \A s \in skills : s.owner # User =>
       /\ s.from = installed[s.owner] /\ s.name \in s.from.skills
       /\ s.enabled = (s.owner \in enabledIn)
================================================================================
