----------------------------- MODULE DataImport -----------------------------
(***************************************************************************)
(* Replacing everything the extension stores by a backup                   *)
(* (data/maintenanceCoordinator.ts). The settings are in extension storage *)
(* and the conversations in IndexedDB, which have no common transaction:   *)
(* the import writes the old settings to a journal, replaces the settings, *)
(* then the conversations together with a marker; the next start of the    *)
(* background worker finishes an import whose marker it finds and undoes   *)
(* one that left only a journal.                                           *)
(*                                                                         *)
(* A step is what runs between two awaits. The engine appears as what the  *)
(* import waits for: a turn at work, and an input queued behind it.        *)
(***************************************************************************)
EXTENDS Naturals, FiniteSets

CONSTANTS
  Operation,    \* imports users ask for
  NoOp,
  Original,     \* where the settings and conversations come from at first
  Key,          \* the settings an import replaces
  Absent,
  Page,         \* settings pages that commit imports
  MaxCrashes,   \* bound: restarts of the background worker
  Faults        \* what else happens, among Disturbances

(* storage: a write throws without effect; question: a turn waits for an   *)
(* answer only the user can give; queue: an input is queued behind a turn; *)
(* early: an import is committed before startup has reconciled.            *)
Disturbances == {"storage", "question", "queue", "early"}

Origin == Operation \cup {Original}

ASSUME OperationAssumption == NoOp \notin Origin /\ Original \notin Operation
ASSUME AbsentAssumption == Absent \notin Origin
ASSUME CrashAssumption == MaxCrashes \in Nat
ASSUME FaultAssumption == Faults \subseteq Disturbances

VARIABLES
  provides,   \* the settings each backup holds (never changes)
  \* durable
  settings,   \* extension storage: the origin of each setting
  data,       \* IndexedDB: the origin of the conversations
  marker,     \* IndexedDB: the import that replaced them
  journal,    \* extension storage: the import under way and the old settings
  completed,  \* extension storage: the last import finished
  leftover,   \* session storage: entries about replaced conversations
  queued,     \* IndexedDB: a run is queued
  \* the worker's memory
  phase,      \* "down", "starting", "up", or "broken": startup has thrown
  boot,       \* where the reconciliation stands, and the journal it read
  blocked,    \* commands are refused
  work,       \* the engine's turn; "ended": its actor task is still to run
  commit,     \* where the commit of each page stands
  crashes     \* bound only

stored == <<settings, data, marker, journal, completed, leftover, queued>>
worker == <<phase, boot, blocked, work, commit>>
vars == <<provides, stored, worker, crashes>>

Settings == [Key -> Origin \cup {Absent}]
Journal == [op : Operation \cup {NoOp}, image : Settings]
NoJournal == [op |-> NoOp, image |-> [k \in Key |-> Absent]]

CommitPc == {"idle", "vetted", "wait", "blockers", "image", "log", "readback", "set",
             "remove", "applied", "db", "committed", "caught", "undoSet", "undoRemove",
             "undoDrop"}
BootPc == {"journal", "marker", "undoSet", "undoRemove", "undoDrop", "session", "hydrate",
           "complete", "dropJournal", "dropMarker", "done"}
CommitRecord == [pc : CommitPc, op : Operation \cup {NoOp}, discard : BOOLEAN, journal : Journal]
BootRecord == [pc : BootPc, op : Operation \cup {NoOp}, journal : Journal]
NoCommit == [pc |-> "idle", op |-> NoOp, discard |-> FALSE, journal |-> NoJournal]
NewBoot == [pc |-> "journal", op |-> NoOp, journal |-> NoJournal]

TypeOK ==
  /\ provides \in [Origin -> SUBSET Key]
  /\ settings \in Settings
  /\ data \in Origin
  /\ marker \in Operation \cup {NoOp}
  /\ journal \in Journal
  /\ completed \in Operation \cup {NoOp}
  /\ leftover \in BOOLEAN
  /\ queued \in BOOLEAN
  /\ phase \in {"down", "starting", "up", "broken"}
  /\ boot \in BootRecord
  /\ blocked \in BOOLEAN
  /\ work \in {"idle", "running", "asking", "ended"}
  /\ commit \in [Page -> CommitRecord]
  /\ crashes \in Nat

(* The settings a backup holds; the ones it does not hold are removed.     *)
SettingsOf(o) == [k \in Key |-> IF k \in provides[o] THEN o ELSE Absent]

Init ==
  /\ provides \in [Origin -> SUBSET Key]
  /\ settings = SettingsOf(Original)
  /\ data = Original
  /\ marker = NoOp
  /\ journal = NoJournal
  /\ completed = NoOp
  /\ leftover = FALSE
  /\ queued = FALSE
  /\ phase = "up"
  /\ boot = [NewBoot EXCEPT !.pc = "done"]
  /\ blocked = FALSE
  /\ work = "idle"
  /\ commit = [p \in Page |-> NoCommit]
  /\ crashes = 0

-----------------------------------------------------------------------------
(* The engine.                                                             *)

(* isAdmissionBlocked: the host refuses commands during maintenance.       *)
Admits == phase = "up" /\ ~blocked

Working == work \in {"running", "asking"}

StartTurn ==
  /\ Admits /\ work = "idle"
  /\ work' = "running"
  /\ UNCHANGED <<provides, stored, phase, boot, blocked, commit, crashes>>

Enqueue ==
  /\ "queue" \in Faults /\ Admits /\ Working /\ ~queued
  /\ queued' = TRUE
  /\ UNCHANGED <<provides, settings, data, marker, journal, completed, leftover, worker, crashes>>

AskUser ==
  /\ "question" \in Faults /\ work = "running"
  /\ work' = "asking"
  /\ UNCHANGED <<provides, stored, phase, boot, blocked, commit, crashes>>

(* An answer or an interrupt: a command either way. *)
AnswerUser ==
  /\ Admits /\ work = "asking"
  /\ work' = "running"
  /\ UNCHANGED <<provides, stored, phase, boot, blocked, commit, crashes>>

EndTurn ==
  /\ work = "running"
  /\ work' = "ended"
  /\ UNCHANGED <<provides, stored, phase, boot, blocked, commit, crashes>>

(* The actor's task after a turn starts the queued input. No command, it   *)
(* asks nobody whether commands are refused.                               *)
Drain ==
  /\ work = "ended"
  /\ work' = IF queued THEN "running" ELSE "idle"
  /\ queued' = FALSE
  /\ UNCHANGED <<provides, settings, data, marker, journal, completed, leftover, phase, boot,
                 blocked, commit, crashes>>

-----------------------------------------------------------------------------
(* commit(): the steps of one page's request.                              *)

At(p, pc) == commit[p].pc = pc /\ phase # "down"
To(p, pc) == commit' = [commit EXCEPT ![p].pc = pc]
Return(p) == commit' = [commit EXCEPT ![p] = NoCommit]

(* A finished operation is answered and not done again. *)
MutForgetsCompleted(o) == journal = NoJournal
MutIgnoresJournal(o) == completed # o
MayCommit(o) == journal = NoJournal /\ completed # o

Request(p, o, discard) ==
  /\ At(p, "idle") /\ MayCommit(o)
  /\ phase = "up" \/ "early" \in Faults
  /\ commit' = [commit EXCEPT ![p] = [NoCommit EXCEPT !.pc = "vetted", !.op = o,
                                                      !.discard = discard]]
  /\ UNCHANGED <<provides, stored, phase, boot, blocked, work, crashes>>

Block(p) ==
  /\ At(p, "vetted") /\ To(p, "wait")
  /\ blocked' = TRUE
  /\ UNCHANGED <<provides, stored, phase, boot, work, crashes>>

(* waitForAdmissionIdle *)
Drained(p) ==
  /\ At(p, "wait") /\ To(p, "blockers")
  /\ ~Working
  /\ UNCHANGED <<provides, stored, phase, boot, blocked, work, crashes>>

HardBlocked(p) == Working \/ (queued /\ ~commit[p].discard)

CheckBlockers(p) ==
  /\ At(p, "blockers")
  /\ \/ HardBlocked(p) /\ Return(p) /\ blocked' = FALSE
     \/ ~HardBlocked(p) /\ To(p, "image") /\ UNCHANGED blocked
  /\ UNCHANGED <<provides, stored, phase, boot, work, crashes>>

(* createJournal reads the settings, then writes them to the journal.      *)
TakeImage(p) ==
  /\ At(p, "image")
  /\ commit' = [commit EXCEPT ![p].pc = "log",
                              ![p].journal = [op |-> commit[p].op, image |-> settings]]
  /\ UNCHANGED <<provides, stored, phase, boot, blocked, work, crashes>>

WritesJournal(p, pc, next) ==
  /\ At(p, pc) /\ To(p, next)
  /\ journal' = commit[p].journal
  /\ UNCHANGED <<provides, settings, data, marker, completed, leftover, queued, phase, boot,
                 blocked, work, crashes>>

(* It is gone when a startup has reconciled in between (IMPORT_JOURNAL_WRITE). *)
ReadBack(p) ==
  /\ At(p, "readback")
  /\ commit' = [commit EXCEPT ![p].pc = IF journal = NoJournal THEN "caught" ELSE "set",
                              ![p].journal = journal]
  /\ UNCHANGED <<provides, stored, phase, boot, blocked, work, crashes>>

(* applySettings: one write of the settings there are, one removal of the  *)
(* others.                                                                 *)
SetSettings(p) ==
  /\ At(p, "set") /\ To(p, "remove")
  /\ settings' = [k \in Key |-> IF k \in provides[commit[p].op] THEN commit[p].op ELSE settings[k]]
  /\ UNCHANGED <<provides, data, marker, journal, completed, leftover, queued, phase, boot,
                 blocked, work, crashes>>

RemoveSettings(p) ==
  /\ At(p, "remove") /\ To(p, "applied")
  /\ settings' = [k \in Key |-> IF k \in provides[commit[p].op] THEN settings[k] ELSE Absent]
  /\ UNCHANGED <<provides, data, marker, journal, completed, leftover, queued, phase, boot,
                 blocked, work, crashes>>

(* commitDb: one transaction clears the tables, fills them and leaves the  *)
(* marker.                                                                 *)
MutCommitsWithoutMarker(p) ==
  /\ At(p, "db") /\ To(p, "committed")
  /\ data' = commit[p].op
  /\ queued' = FALSE
  /\ leftover' = TRUE
  /\ UNCHANGED <<provides, settings, marker, journal, completed, phase, boot, blocked, work, crashes>>

CommitDb(p) ==
  /\ At(p, "db") /\ To(p, "committed")
  /\ data' = commit[p].op
  /\ marker' = commit[p].op
  /\ queued' = FALSE
  /\ leftover' = TRUE
  /\ UNCHANGED <<provides, settings, journal, completed, phase, boot, blocked, work, crashes>>

(* The last journal write; the page is told to reload, and admission stays *)
(* blocked until then.                                                     *)
Committed(p) ==
  /\ At(p, "committed") /\ Return(p)
  /\ journal' = commit[p].journal
  /\ UNCHANGED <<provides, settings, data, marker, completed, leftover, queued, phase, boot,
                 blocked, work, crashes>>

(* A write throws. The commit knows its journal once it was read back.     *)
CommitFails(p) ==
  /\ "storage" \in Faults /\ phase # "down"
  /\ commit[p].pc \in {"image", "log", "set", "remove", "applied", "db", "committed"}
  /\ commit' = [commit EXCEPT ![p].pc = "caught",
                              ![p].journal = IF commit[p].pc \in {"image", "log"} THEN NoJournal
                                             ELSE @]
  /\ UNCHANGED <<provides, stored, phase, boot, blocked, work, crashes>>

(* An import whose marker is there is committed and stays blocked; another *)
(* is undone from the journal it knows.                                    *)
Caught(p) ==
  /\ At(p, "caught")
  /\ \/ marker = commit[p].op /\ Return(p) /\ blocked' = TRUE
     \/ /\ marker # commit[p].op /\ commit[p].journal # NoJournal
        /\ To(p, "undoSet") /\ UNCHANGED blocked
     \/ /\ marker # commit[p].op /\ commit[p].journal = NoJournal
        /\ Return(p) /\ blocked' = FALSE
  /\ UNCHANGED <<provides, stored, phase, boot, work, crashes>>

(* restore: one write of the settings the image holds, one removal of the  *)
(* others.                                                                 *)
WriteBack(image) == [k \in Key |-> IF image[k] # Absent THEN image[k] ELSE settings[k]]
MutRemovesNothing(image) == settings
RemoveNew(image) == [k \in Key |-> IF image[k] = Absent THEN Absent ELSE settings[k]]

UndoCommit(p) ==
  /\ \/ /\ At(p, "undoSet") /\ To(p, "undoRemove")
        /\ settings' = WriteBack(commit[p].journal.image) /\ UNCHANGED <<journal, blocked>>
     \/ /\ At(p, "undoRemove") /\ To(p, "undoDrop")
        /\ settings' = RemoveNew(commit[p].journal.image) /\ UNCHANGED <<journal, blocked>>
     \/ /\ At(p, "undoDrop") /\ Return(p)
        /\ journal' = NoJournal /\ blocked' = FALSE /\ UNCHANGED settings
  /\ UNCHANGED <<provides, data, marker, completed, leftover, queued, phase, boot, work, crashes>>

(* Restoring throws: the commit ends, blocked, with its journal.           *)
UndoFails(p) ==
  /\ "storage" \in Faults /\ phase # "down"
  /\ commit[p].pc \in {"undoSet", "undoRemove", "undoDrop"}
  /\ Return(p)
  /\ UNCHANGED <<provides, stored, phase, boot, blocked, work, crashes>>

-----------------------------------------------------------------------------
(* A restart of the worker, by the browser or by the reload the import     *)
(* asks for.                                                               *)

Crash ==
  /\ phase # "down" /\ crashes < MaxCrashes
  /\ crashes' = crashes + 1
  /\ phase' = "down" /\ boot' = NewBoot /\ blocked' = FALSE /\ work' = "idle"
  /\ commit' = [p \in Page |-> NoCommit]
  /\ UNCHANGED <<provides, stored>>

Start ==
  /\ phase = "down"
  /\ phase' = "starting"
  /\ UNCHANGED <<provides, stored, boot, blocked, work, commit, crashes>>

(* reconcileStartup *)
Booting(pc) == phase = "starting" /\ boot.pc = pc
BootTo(pc) == boot' = [boot EXCEPT !.pc = pc]

(* Recovery follows: a queued run is started.                              *)
Booted ==
  /\ boot' = [NewBoot EXCEPT !.pc = "done"]
  /\ phase' = "up"
  /\ work' = IF queued THEN "ended" ELSE "idle"

ReadJournal ==
  /\ Booting("journal")
  /\ boot' = [boot EXCEPT !.pc = "marker", !.journal = journal]
  /\ UNCHANGED <<provides, stored, phase, blocked, work, commit, crashes>>

(* A marker decides: without one the import is undone.                     *)
ReadMarker ==
  /\ Booting("marker")
  /\ \/ /\ marker = NoOp /\ boot.journal = NoJournal
        /\ Booted /\ UNCHANGED blocked
     \/ /\ marker # NoOp /\ boot.journal.op \in {NoOp, marker}
        /\ boot' = [boot EXCEPT !.pc = "session", !.op = marker]
        /\ blocked' = TRUE /\ UNCHANGED <<phase, work>>
     \/ /\ marker # NoOp /\ boot.journal.op \notin {NoOp, marker}
        /\ phase' = "broken" /\ blocked' = TRUE /\ UNCHANGED <<boot, work>>
     \/ /\ marker = NoOp /\ boot.journal # NoJournal
        /\ BootTo("undoSet")
        /\ blocked' = TRUE /\ UNCHANGED <<phase, work>>
  /\ UNCHANGED <<provides, stored, commit, crashes>>

UndoAtBoot ==
  /\ \/ /\ Booting("undoSet") /\ BootTo("undoRemove")
        /\ settings' = WriteBack(boot.journal.image)
        /\ UNCHANGED <<journal, phase, blocked, work>>
     \/ /\ Booting("undoRemove") /\ BootTo("undoDrop")
        /\ settings' = RemoveNew(boot.journal.image)
        /\ UNCHANGED <<journal, phase, blocked, work>>
     \/ /\ Booting("undoDrop") /\ Booted
        /\ journal' = NoJournal /\ blocked' = FALSE /\ UNCHANGED settings
  /\ UNCHANGED <<provides, data, marker, completed, leftover, queued, commit, crashes>>

(* finish *)
ClearSession ==
  /\ Booting("session") /\ BootTo("hydrate")
  /\ leftover' = FALSE
  /\ UNCHANGED <<provides, settings, data, marker, journal, completed, queued, phase, blocked,
                 work, commit, crashes>>

Hydrate ==
  /\ Booting("hydrate") /\ BootTo("complete")
  /\ journal' = IF boot.journal = NoJournal THEN journal ELSE boot.journal
  /\ UNCHANGED <<provides, settings, data, marker, completed, leftover, queued, phase, blocked,
                 work, commit, crashes>>

Complete ==
  /\ Booting("complete") /\ BootTo("dropJournal")
  /\ completed' = boot.op
  /\ UNCHANGED <<provides, settings, data, marker, journal, leftover, queued, phase, blocked,
                 work, commit, crashes>>

DropJournal ==
  /\ Booting("dropJournal") /\ BootTo("dropMarker")
  /\ journal' = NoJournal
  /\ UNCHANGED <<provides, settings, data, marker, completed, leftover, queued, phase, blocked,
                 work, commit, crashes>>

DropMarker ==
  /\ Booting("dropMarker") /\ Booted
  /\ marker' = NoOp /\ blocked' = FALSE
  /\ UNCHANGED <<provides, settings, data, journal, completed, leftover, queued, commit, crashes>>

BootFails ==
  /\ "storage" \in Faults /\ phase = "starting"
  /\ phase' = "broken"
  /\ UNCHANGED <<provides, stored, boot, blocked, work, commit, crashes>>

-----------------------------------------------------------------------------
Engine == StartTurn \/ Enqueue \/ AskUser \/ AnswerUser \/ EndTurn \/ Drain

CommitStep(p) ==
  \/ Block(p) \/ Drained(p) \/ CheckBlockers(p) \/ TakeImage(p)
  \/ WritesJournal(p, "log", "readback") \/ ReadBack(p)
  \/ SetSettings(p) \/ RemoveSettings(p) \/ WritesJournal(p, "applied", "db")
  \/ CommitDb(p) \/ Committed(p)
  \/ CommitFails(p) \/ Caught(p) \/ UndoCommit(p) \/ UndoFails(p)

BootStep ==
  \/ Start \/ ReadJournal \/ ReadMarker \/ UndoAtBoot
  \/ ClearSession \/ Hydrate \/ Complete \/ DropJournal \/ DropMarker \/ BootFails

Next ==
  \/ Engine
  \/ \E p \in Page : \/ \E o \in Operation, discard \in BOOLEAN : Request(p, o, discard)
                     \/ CommitStep(p)
  \/ BootStep \/ Crash

Spec == Init /\ [][Next]_vars

-----------------------------------------------------------------------------
(* What reconcileStartup would leave of the settings if the worker stopped *)
(* now: those stored once the marker is there, the journal's before.       *)
Settled ==
  IF marker = NoOp /\ journal # NoJournal THEN journal.image ELSE settings

(* Settings and conversations are replaced together, in one step, whatever *)
(* fails or stops: the import implements AtomicImport.                     *)
Atomic == INSTANCE AtomicImport
            WITH installed <- [settings |-> Settled, data |-> data]
ImplementsAtomicImport == Atomic!Spec

(* Commands are admitted only over settings and conversations of the same  *)
(* origin, with no import under way and nothing left in the session about  *)
(* replaced conversations.                                                 *)
AdmitsWhole ==
  Admits => settings = SettingsOf(data) /\ ~leftover /\ journal = NoJournal /\ marker = NoOp

(* Reconciliation never finds a marker of another import than the          *)
(* journal's: startup fails only when storage does.                        *)
MarkerMatches ==
  marker # NoOp /\ journal # NoJournal => journal.op = marker

(* An operation asked for again after its answer was lost is not applied   *)
(* to the conversations it already replaced.                               *)
NeverReapplied ==
  [][marker' # marker /\ marker' # NoOp => data # marker']_vars
=============================================================================
