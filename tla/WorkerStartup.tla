----------------------------- MODULE WorkerStartup ------------------------------
(* One life of the background worker after another, up to the moment it takes commands     *)
(* (entrypoints/background.ts, engine/host.ts).                                            *)
(*                                                                                         *)
(* A browser event wakes the worker, which starts everything at once: a profile of an      *)
(* earlier storage generation is emptied; then an interrupted import is reconciled, the    *)
(* offscreen document sweeps attachments, MCP servers are connected and the session state  *)
(* is loaded; the default rules are seeded beside all of that. Recovery of the runs waits  *)
(* for every one of them, the host for recovery and for a stream epoch, and no longer      *)
(* than its deadline. The worker may die between any two steps.                            *)
EXTENDS Naturals

CONSTANT MaxLives   \* bound: lives of the worker

ASSUME LivesAssumption == MaxLives \in Nat

VARIABLES
  profile,      \* extension storage and tables, see Profile
  importLeft,   \* what an import left when the worker died under it
  storedEpoch,  \* panelot_engine_stream_epoch in session storage, 0 without
  task,         \* how far each task of this life is
  ruleSeen,     \* the rules the seeding has read: of the earlier generation, or not
  epoch,        \* the stream epoch of this life
  host,         \* of this life: "dead", "starting", "ready" or "refusing"
  epochs,       \* every epoch used since the session storage was last emptied of it
  recoversOver, \* what recovery began over: the profile, and what was left of an import
  lives

startupVars == <<profile, importLeft, storedEpoch, task, ruleSeen, epoch, host,
                 epochs, recoversOver, lives>>

Task == {"prepare", "reconcile", "sweep", "mcp", "state", "seed", "epoch", "recover"}
Profile == [marked : BOOLEAN, oldSettings : BOOLEAN, oldTables : BOOLEAN, oldRules : BOOLEAN,
            denied : BOOLEAN, seeded : BOOLEAN]
Fresh == [marked |-> FALSE, oldSettings |-> FALSE, oldTables |-> FALSE, oldRules |-> FALSE,
          denied |-> FALSE, seeded |-> FALSE]
Earlier == [Fresh EXCEPT !.oldSettings = TRUE, !.oldTables = TRUE, !.oldRules = TRUE]
NotYet == [profile |-> Fresh, left |-> "none"]
Asleep == [t \in Task |-> "idle"]

StartupInit ==
  /\ profile \in {Fresh, Earlier} /\ importLeft = "none" /\ storedEpoch = 0
  /\ task = Asleep /\ ruleSeen = FALSE /\ epoch = 0 /\ host = "dead"
  /\ epochs = {} /\ recoversOver = NotYet /\ lives = 0

(* main(): the first connection, message or tab event starts the worker.                   *)
Wake ==
  /\ host = "dead" /\ lives < MaxLives /\ lives' = lives + 1
  /\ host' = "starting" /\ epoch' = 0 /\ recoversOver' = NotYet
  /\ task' = [Asleep EXCEPT !["prepare"] = "check", !["seed"] = "flag"]
  /\ UNCHANGED <<profile, importLeft, storedEpoch, ruleSeen, epochs>>

(* The browser stops the worker; with it an import that was under way.                     *)
Die ==
  /\ host # "dead" /\ host' = "dead" /\ task' = Asleep
  /\ importLeft' \in {importLeft} \cup IF host = "ready" THEN {"undo", "finish"} ELSE {}
  /\ UNCHANGED <<profile, storedEpoch, ruleSeen, epoch, epochs, recoversOver, lives>>

TaskStep == {"idle", "done", "failed", "check", "local", "session", "tables", "mark", "flag", "read",
             "write", "flagged"}
Step(t, from, to) == host # "dead" /\ task[t] = from /\ task' = [task EXCEPT ![t] = to]
Done(t) == task[t] = "done"
Rest == UNCHANGED <<importLeft, storedEpoch, ruleSeen, epoch, host, epochs,
                    recoversOver, lives>>

(* prepareStorageGeneration, then the tables; the marker is written last.                  *)
CheckGeneration ==
  /\ \/ ~profile.marked /\ Step("prepare", "check", "local")
     \/ profile.marked /\ Step("prepare", "check", "done")
  /\ UNCHANGED profile /\ Rest
MutMarksFirst == [Fresh EXCEPT !.oldTables = profile.oldTables, !.marked = TRUE]
Emptied == [Fresh EXCEPT !.oldTables = profile.oldTables]
ClearLocal == Step("prepare", "local", "session") /\ profile' = Emptied /\ Rest
ClearSession ==
  /\ Step("prepare", "session", "tables") /\ storedEpoch' = 0 /\ epochs' = {}
  /\ UNCHANGED <<profile, importLeft, ruleSeen, epoch, host, recoversOver, lives>>
ClearTables ==
  /\ Step("prepare", "tables", "mark") /\ profile' = [profile EXCEPT !.oldTables = FALSE]
  /\ importLeft' = "none"
  /\ UNCHANGED <<storedEpoch, ruleSeen, epoch, host, epochs, recoversOver, lives>>
MarkGeneration ==
  Step("prepare", "mark", "done") /\ profile' = [profile EXCEPT !.marked = TRUE] /\ Rest

(* reconcileStartup (DataImport): finishing an import also forgets the stream epoch.       *)
Reconcile ==
  /\ Done("prepare") /\ Step("reconcile", "idle", "done") /\ importLeft' = "none"
  /\ storedEpoch' = IF importLeft = "finish" THEN 0 ELSE storedEpoch
  /\ epochs' = IF importLeft = "finish" THEN {} ELSE epochs
  /\ UNCHANGED <<profile, ruleSeen, epoch, host, recoversOver, lives>>

(* cleanupOffscreenAttachments, ensureConnected("startup"), the ready() of the gateway and *)
(* of the gatekeeper.                                                                      *)
Prepares(t) ==
  Done("prepare") /\ t \in {"sweep", "mcp", "state"} /\ Step(t, "idle", "done")
  /\ UNCHANGED profile /\ Rest

(* seedDefaultRules: the flag, then the rules under their lock, then the flag again.       *)
ReadFlag ==
  /\ \/ profile.seeded /\ Step("seed", "flag", "done")
     \/ ~profile.seeded /\ Step("seed", "flag", "read")
  /\ UNCHANGED profile /\ Rest
ReadRules ==
  /\ Step("seed", "read", "write") /\ ruleSeen' = profile.oldRules
  /\ UNCHANGED <<profile, importLeft, storedEpoch, epoch, host, epochs, recoversOver,
                 lives>>
WriteRules ==
  Step("seed", "write", "flagged") /\ Rest
  /\ profile' = [profile EXCEPT !.denied = TRUE, !.oldRules = ruleSeen]
WriteFlag == Step("seed", "flagged", "done") /\ profile' = [profile EXCEPT !.seeded = TRUE] /\ Rest

(* allocateEngineStreamEpoch reads, then writes.                                           *)
ReadEpoch ==
  /\ Done("reconcile") /\ Step("epoch", "idle", "write") /\ epoch' = storedEpoch + 1
  /\ UNCHANGED <<profile, importLeft, storedEpoch, ruleSeen, host, epochs,
                 recoversOver, lives>>
WriteEpoch ==
  /\ Step("epoch", "write", "done") /\ storedEpoch' = epoch
  /\ UNCHANGED <<profile, importLeft, ruleSeen, epoch, host, epochs, recoversOver,
                 lives>>

(* A step that waits for storage or for the offscreen document fails.                      *)
Fails(t) ==
  /\ host # "dead" /\ task[t] \notin {"done", "failed"} /\ (task[t] = "idle" => Done("prepare"))
  /\ t # "state" /\ task' = [task EXCEPT ![t] = "failed"]
  /\ UNCHANGED profile /\ Rest

(* recoveryReady: everything recovery waits for.                                           *)
Settled == \A t \in Task \ {"epoch", "recover"} : Done(t)

Recover ==
  /\ Settled /\ Step("recover", "idle", "done")
  /\ recoversOver' = [profile |-> profile, left |-> importLeft]
  /\ UNCHANGED <<profile, importLeft, storedEpoch, ruleSeen, epoch, host, epochs,
                 lives>>

(* The host takes commands, or answers every one of them that the extension must be        *)
(* reloaded: when a task failed, and when the deadline has passed.                         *)
Serve ==
  /\ host = "starting" /\ Done("recover") /\ Done("epoch") /\ host' = "ready"
  /\ epochs' = epochs \cup {epoch}
  /\ UNCHANGED <<profile, importLeft, storedEpoch, task, ruleSeen, epoch,
                 recoversOver, lives>>
Refuse ==
  /\ host = "starting" /\ host' = "refusing"
  /\ UNCHANGED <<profile, importLeft, storedEpoch, task, ruleSeen, epoch, epochs,
                 recoversOver, lives>>

(* GatekeeperService.removeRule from the settings page.                                    *)
DeleteDefault ==
  /\ profile.denied /\ profile' = [profile EXCEPT !.denied = FALSE]
  /\ UNCHANGED <<importLeft, storedEpoch, task, ruleSeen, epoch, host, epochs, recoversOver, lives>>

StartupNext ==
  \/ Wake \/ Die \/ CheckGeneration \/ ClearLocal \/ ClearSession \/ ClearTables \/ MarkGeneration
  \/ Reconcile \/ ReadFlag \/ ReadRules \/ WriteRules \/ WriteFlag \/ ReadEpoch \/ WriteEpoch
  \/ Recover \/ Serve \/ Refuse \/ DeleteDefault
  \/ \E t \in Task : Prepares(t) \/ Fails(t)

StartupSpec == StartupInit /\ [][StartupNext]_startupVars

(* ------------------------------ what holds ------------------------------ *)

StartupTypeOK ==
  /\ profile \in Profile /\ importLeft \in {"none", "undo", "finish"} /\ storedEpoch \in Nat
  /\ ruleSeen \in BOOLEAN /\ host \in {"dead", "starting", "ready", "refusing"}
  /\ epoch \in Nat /\ epochs \subseteq Nat /\ task \in [Task -> TaskStep]

(* docs/development/index.md: data of 0.1.0 is not migrated. Wherever a worker died while  *)
(* it emptied such a profile, runs are never recovered, and commands never taken, over     *)
(* conversations or settings of the earlier generation, nor over an import that stopped    *)
(* halfway; and two lives that served the same pages never share a stream epoch, by which  *)
(* the pages tell late events from new ones.                                               *)
StartsClean ==
  /\ Done("recover") => /\ recoversOver.profile.marked /\ recoversOver.left = "none"
                        /\ ~recoversOver.profile.oldTables /\ ~recoversOver.profile.oldSettings
  /\ host = "starting" /\ Done("epoch") => \A e \in epochs : e < epoch
================================================================================
