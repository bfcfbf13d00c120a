-------------------------- MODULE DataImportProofs --------------------------
(***************************************************************************)
(* DataImport for every set of imports, settings, pages and faults: its    *)
(* types, and, when one page imports at a time and none before startup has *)
(* reconciled, that settings and conversations are replaced together.      *)
(* BackupRestore for every file and every forest of conversations: what an *)
(* import brings back can be gone on with.                                 *)
(***************************************************************************)
EXTENDS DataImport, BackupRestore, DataLemmas, TLAPS

USE DEF backupVars, vaultVars

(* One page commits imports, and none before startup has reconciled.       *)
Serial == (\A p, q \in Page : p = q) /\ "early" \notin Faults

-----------------------------------------------------------------------------
(* The inductive invariant.                                                *)

Logged == journal # NoJournal

(* What the stores hold, whatever the worker is doing: a marker names the  *)
(* origin of settings and conversations, a journal without a marker holds  *)
(* the settings that belong to the conversations.                          *)
StoreInv ==
  /\ Logged => journal.op \in Operation
  /\ marker = NoOp => /\ ~leftover
                      /\ ~Logged => settings = SettingsOf(data)
                      /\ Logged => journal.image = SettingsOf(data)
  /\ marker # NoOp => /\ data = marker
                      /\ settings = SettingsOf(data)
                      /\ Logged => journal.op = marker
  /\ data # Original => marker = data \/ completed = data

(* How far the settings of an import are written.                          *)
Written(o) == \A k \in Key : k \in provides[o] => settings[k] = o
GivenBack(image) == \A k \in Key : image[k] # Absent => settings[k] = image[k]

Uncommitted(p) == marker = NoOp /\ commit[p].journal = journal /\ journal.op = commit[p].op

CommitInv(p) ==
  /\ commit[p].pc # "idle" =>
       phase = "up" /\ commit[p].op \in Operation /\ completed # commit[p].op
  /\ commit[p].pc \notin {"idle", "vetted"} => blocked
  /\ commit[p].pc \in {"vetted", "wait", "blockers", "image", "log"} => ~Logged /\ marker = NoOp
  /\ commit[p].pc = "log" => commit[p].journal = [op |-> commit[p].op, image |-> settings]
  /\ commit[p].pc \in {"readback", "set", "remove", "applied", "db", "undoSet", "undoRemove",
                       "undoDrop"} => Uncommitted(p)
  /\ commit[p].pc = "remove" => Written(commit[p].op)
  /\ commit[p].pc \in {"applied", "db"} => settings = SettingsOf(commit[p].op)
  /\ commit[p].pc = "committed" =>
       commit[p].journal = journal /\ journal.op = commit[p].op /\ marker = commit[p].op
  /\ commit[p].pc = "caught" =>
       \/ commit[p].journal = NoJournal /\ ~Logged /\ marker = NoOp
       \/ commit[p].journal = journal /\ journal.op = commit[p].op /\ marker \in {NoOp, commit[p].op}
  /\ commit[p].pc = "undoRemove" => GivenBack(journal.image)
  /\ commit[p].pc = "undoDrop" => settings = journal.image

(* A worker that has started admits commands only without a journal, and   *)
(* has no marker without a journal.                                        *)
UpInv == phase = "up" => (~Logged => marker = NoOp) /\ (~blocked => ~Logged)

BootInv ==
  /\ phase = "down" => boot = NewBoot
  /\ phase = "starting" =>
       /\ boot.pc = "marker" => boot.journal = journal
       /\ boot.pc \in {"undoSet", "undoRemove", "undoDrop"} =>
            boot.journal = journal /\ Logged /\ marker = NoOp
       /\ boot.pc = "undoRemove" => GivenBack(journal.image)
       /\ boot.pc = "undoDrop" => settings = journal.image
       /\ boot.pc \in {"session", "hydrate", "complete", "dropJournal", "dropMarker"} =>
            boot.op = marker /\ marker # NoOp
       /\ boot.pc \in {"session", "hydrate"} => boot.journal = journal
       /\ boot.pc \in {"hydrate", "complete", "dropJournal", "dropMarker"} => ~leftover
       /\ boot.pc \in {"dropJournal", "dropMarker"} => completed = boot.op
       /\ boot.pc = "dropMarker" => ~Logged
       /\ boot.pc # "done"

Inv == StoreInv /\ (\A p \in Page : CommitInv(p)) /\ UpInv /\ BootInv

-----------------------------------------------------------------------------
(* Types. A step of an import writes the settings of its operation, so it  *)
(* keeps the types only if a commit at work has one.                       *)

Requested == \A p \in Page : commit[p].pc # "idle" => commit[p].op \in Operation
TypeInv == TypeOK /\ Requested

(* What the updates the steps share return. *)
LEMMA SettingsType ==
  ASSUME provides \in [Origin -> SUBSET Key], NEW o \in Origin
  PROVE  SettingsOf(o) \in Settings
  BY DEF SettingsOf, Settings

LEMMA NoJournalType == NoJournal \in Journal
  BY DEF NoJournal, Journal, Settings

LEMMA NoCommitType == NoCommit \in CommitRecord
  BY NoJournalType DEF NoCommit, CommitRecord, CommitPc

LEMMA NewBootType == NewBoot \in BootRecord /\ [NewBoot EXCEPT !.pc = "done"] \in BootRecord
  BY NoJournalType DEF NewBoot, BootRecord, BootPc

(* A commit at work goes on with its operation. *)
LEMMA KeepsOperation ==
  ASSUME TypeInv, NEW p \in Page, commit[p].pc # "idle", NEW pc \in CommitPc, NEW j \in Journal,
         commit' = [commit EXCEPT ![p].pc = pc, ![p].journal = j]
  PROVE  commit' \in [Page -> CommitRecord] /\ Requested'
  BY DEF TypeInv, TypeOK, Requested, CommitRecord

LEMMA ToType ==
  ASSUME TypeInv, NEW p \in Page, commit[p].pc # "idle", NEW pc \in CommitPc, To(p, pc)
  PROVE  commit' \in [Page -> CommitRecord] /\ Requested'
  BY DEF TypeInv, TypeOK, Requested, To, CommitRecord

LEMMA ReturnType ==
  ASSUME TypeInv, NEW p \in Page, Return(p)
  PROVE  commit' \in [Page -> CommitRecord] /\ Requested'
  BY NoCommitType DEF TypeInv, TypeOK, Requested, Return, NoCommit

LEMMA BootToType ==
  ASSUME TypeOK, NEW pc \in BootPc, BootTo(pc)
  PROVE  boot' \in BootRecord
  BY DEF TypeOK, BootTo, BootRecord

LEMMA BootedType ==
  ASSUME Booted
  PROVE  boot' \in BootRecord /\ phase' = "up"
         /\ work' \in {"idle", "running", "asking", "ended"}
  BY NewBootType DEF Booted

LEMMA UndoType ==
  ASSUME TypeOK, NEW j \in Journal
  PROVE  WriteBack(j.image) \in Settings /\ RemoveNew(j.image) \in Settings
  BY DEF TypeOK, Journal, Settings, WriteBack, RemoveNew

(* A worker that starts has types. *)
LEMMA InitType == Init => TypeInv
<1> SUFFICES ASSUME Init PROVE TypeInv
  OBVIOUS
<1>1. settings \in Settings
  BY SettingsType DEF Init, Origin
<1>2. commit \in [Page -> CommitRecord] /\ Requested
  BY NoCommitType DEF Init, Requested, NoCommit
<1> QED
  BY <1>1, <1>2, NoJournalType, NewBootType DEF Init, TypeInv, TypeOK, Origin

(* The steps of the engine, of a request and of a commit keep them. *)
LEMMA EngineType == TypeInv /\ Engine => TypeInv'
  BY DEF TypeInv, TypeOK, Requested, Engine, StartTurn, Enqueue, AskUser, AnswerUser, EndTurn,
         Drain, stored, worker

LEMMA RequestType ==
  ASSUME TypeInv, NEW p \in Page, NEW o \in Operation, NEW discard \in BOOLEAN,
         Request(p, o, discard)
  PROVE  TypeInv'
<1>1. [NoCommit EXCEPT !.pc = "vetted", !.op = o, !.discard = discard] \in CommitRecord
  BY NoCommitType DEF CommitRecord, CommitPc
<1>2. commit' \in [Page -> CommitRecord] /\ Requested'
  BY <1>1 DEF Request, TypeInv, TypeOK, Requested, CommitRecord
<1> QED
  BY <1>2 DEF Request, TypeInv, TypeOK, stored

LEMMA CommitStepType ==
  ASSUME TypeInv, NEW p \in Page, CommitStep(p)
  PROVE  TypeInv'
<1>0. /\ commit[p] \in CommitRecord /\ commit[p].journal \in Journal
      /\ commit[p].pc # "idle" /\ commit[p].op \in Operation
  <2>1. commit[p].pc # "idle"
    BY DEF CommitStep, At, Block, Drained, CheckBlockers, TakeImage, WritesJournal, ReadBack,
           SetSettings, RemoveSettings, CommitDb, Committed, CommitFails, Caught, UndoCommit,
           UndoFails
  <2> QED
    BY <2>1 DEF TypeInv, TypeOK, Requested, CommitRecord
<1> USE DEF TypeOK, stored, CommitPc
<1>1. CASE Block(p) \/ Drained(p)
  <2>1. commit' \in [Page -> CommitRecord] /\ Requested'
    BY <1>0, <1>1, ToType DEF Block, Drained
  <2> QED
    BY <1>1, <2>1 DEF Block, Drained, TypeInv
<1>2. CASE CheckBlockers(p)
  <2>1. commit' \in [Page -> CommitRecord] /\ Requested'
    BY <1>0, <1>2, ToType, ReturnType DEF CheckBlockers
  <2> QED
    BY <1>2, <2>1 DEF CheckBlockers, TypeInv
<1>3. CASE TakeImage(p)
  <2>1. [op |-> commit[p].op, image |-> settings] \in Journal
    BY <1>0 DEF Journal, TypeInv
  <2>2. commit' \in [Page -> CommitRecord] /\ Requested'
    BY <1>0, <1>3, <2>1, KeepsOperation DEF TakeImage
  <2> QED
    BY <1>3, <2>2 DEF TakeImage, TypeInv
<1>4. CASE WritesJournal(p, "log", "readback") \/ WritesJournal(p, "applied", "db")
  <2>1. commit' \in [Page -> CommitRecord] /\ Requested'
    BY <1>0, <1>4, ToType DEF WritesJournal
  <2> QED
    BY <1>0, <1>4, <2>1 DEF WritesJournal, TypeInv
<1>5. CASE ReadBack(p)
  <2>1. commit' \in [Page -> CommitRecord] /\ Requested'
    <3> PICK pc \in CommitPc : commit' = [commit EXCEPT ![p].pc = pc, ![p].journal = journal]
      BY <1>5 DEF ReadBack
    <3> QED BY <1>0, KeepsOperation DEF TypeInv
  <2> QED
    BY <1>5, <2>1 DEF ReadBack, TypeInv
<1>6. CASE SetSettings(p) \/ RemoveSettings(p)
  <2>1. commit' \in [Page -> CommitRecord] /\ Requested'
    BY <1>0, <1>6, ToType DEF SetSettings, RemoveSettings
  <2>2. settings' \in Settings
    BY <1>0, <1>6 DEF SetSettings, RemoveSettings, Settings, Origin, TypeInv
  <2> QED
    BY <1>6, <2>1, <2>2 DEF SetSettings, RemoveSettings, TypeInv
<1>7. CASE CommitDb(p)
  <2>1. commit' \in [Page -> CommitRecord] /\ Requested'
    BY <1>0, <1>7, ToType DEF CommitDb
  <2> QED
    BY <1>0, <1>7, <2>1 DEF CommitDb, TypeInv, Origin
<1>8. CASE Committed(p)
  <2>1. commit' \in [Page -> CommitRecord] /\ Requested'
    BY <1>8, ReturnType DEF Committed
  <2> QED
    BY <1>0, <1>8, <2>1 DEF Committed, TypeInv
<1>9. CASE CommitFails(p)
  <2>1. PICK j \in Journal : commit' = [commit EXCEPT ![p].pc = "caught", ![p].journal = j]
    BY <1>0, <1>9, NoJournalType DEF CommitFails, TypeInv
  <2>2. commit' \in [Page -> CommitRecord] /\ Requested'
    BY <1>0, <2>1, KeepsOperation
  <2> QED
    BY <1>9, <2>2 DEF CommitFails, TypeInv
<1>10. CASE Caught(p)
  <2>1. commit' \in [Page -> CommitRecord] /\ Requested'
    BY <1>0, <1>10, ToType, ReturnType DEF Caught
  <2> QED
    BY <1>10, <2>1 DEF Caught, TypeInv
<1>11. CASE UndoCommit(p)
  <2>1. commit' \in [Page -> CommitRecord] /\ Requested'
    BY <1>0, <1>11, ToType, ReturnType DEF UndoCommit
  <2>2. settings' \in Settings /\ journal' \in Journal /\ blocked' \in BOOLEAN
    BY <1>0, <1>11, UndoType, NoJournalType DEF UndoCommit, TypeInv
  <2> QED
    BY <1>11, <2>1, <2>2 DEF UndoCommit, TypeInv
<1>12. CASE UndoFails(p)
  <2>1. commit' \in [Page -> CommitRecord] /\ Requested'
    BY <1>12, ReturnType DEF UndoFails
  <2> QED
    BY <1>12, <2>1 DEF UndoFails, TypeInv
<1> QED
  BY <1>1, <1>2, <1>3, <1>4, <1>5, <1>6, <1>7, <1>8, <1>9, <1>10, <1>11, <1>12 DEF CommitStep

(* So do the steps of a start of the worker, and its end. *)
LEMMA BootStepType ==
  ASSUME TypeInv, BootStep
  PROVE  TypeInv'
<1>0. /\ boot.journal \in Journal /\ boot.op \in Operation \cup {NoOp}
      /\ commit' = commit /\ provides' = provides /\ data' = data /\ queued' = queued
      /\ crashes' = crashes /\ Requested'
  BY DEF TypeInv, TypeOK, Requested, BootRecord, BootStep, Start, ReadJournal, ReadMarker, UndoAtBoot,
         ClearSession, Hydrate, Complete, DropJournal, DropMarker, BootFails, stored
<1> USE DEF TypeInv, TypeOK, stored, BootPc
<1>1. CASE Start \/ BootFails
  BY <1>0, <1>1 DEF Start, BootFails
<1>2. CASE ReadJournal
  <2>1. boot' \in BootRecord
    BY <1>2 DEF ReadJournal, BootRecord
  <2> QED
    BY <1>0, <1>2, <2>1 DEF ReadJournal
<1>3. CASE ReadMarker
  <2>1. boot' \in BootRecord /\ phase' \in {"down", "starting", "up", "broken"}
        /\ blocked' \in BOOLEAN /\ work' \in {"idle", "running", "asking", "ended"}
    BY <1>3, BootedType, BootToType DEF ReadMarker, BootRecord
  <2> QED
    BY <1>0, <1>3, <2>1 DEF ReadMarker
<1>4. CASE UndoAtBoot
  <2>1. boot' \in BootRecord /\ phase' \in {"down", "starting", "up", "broken"}
        /\ blocked' \in BOOLEAN /\ work' \in {"idle", "running", "asking", "ended"}
    BY <1>4, BootedType, BootToType DEF UndoAtBoot
  <2>2. settings' \in Settings /\ journal' \in Journal
    BY <1>0, <1>4, UndoType, NoJournalType DEF UndoAtBoot
  <2> QED
    BY <1>0, <1>4, <2>1, <2>2 DEF UndoAtBoot
<1>5. CASE ClearSession \/ Hydrate \/ Complete \/ DropJournal
  <2>1. boot' \in BootRecord
    BY <1>5, BootToType DEF ClearSession, Hydrate, Complete, DropJournal
  <2> QED
    BY <1>0, <1>5, <2>1, NoJournalType DEF ClearSession, Hydrate, Complete, DropJournal
<1>6. CASE DropMarker
  BY <1>0, <1>6, BootedType DEF DropMarker
<1> QED
  BY <1>1, <1>2, <1>3, <1>4, <1>5, <1>6 DEF BootStep

LEMMA CrashType ==
  ASSUME TypeInv, Crash
  PROVE  TypeInv'
<1>1. commit' \in [Page -> CommitRecord] /\ Requested'
  BY NoCommitType DEF Crash, Requested, NoCommit
<1>2. boot' \in BootRecord /\ crashes' \in Nat
  BY NewBootType DEF Crash, TypeInv, TypeOK
<1> QED
  BY <1>1, <1>2 DEF Crash, TypeInv, TypeOK, stored

(* The import and what it waits for are type correct: TypeOK, whatever the *)
(* imports, settings, pages and faults.                                    *)
THEOREM ImportTypes == Spec => []TypeOK
<1>1. TypeInv /\ UNCHANGED vars => TypeInv'
  BY DEF TypeInv, TypeOK, Requested, vars, stored, worker
<1>2. TypeInv /\ [Next]_vars => TypeInv'
  BY <1>1, EngineType, RequestType, CommitStepType, BootStepType, CrashType DEF Next
<1>3. TypeInv => TypeOK
  BY DEF TypeInv
<1> QED
  BY InitType, <1>2, <1>3, PTL DEF Spec

-----------------------------------------------------------------------------
(* The invariant, one step at a time.                                      *)

(* A journal is there when it names an operation. *)
LEMMA LoggedHasOperation ==
  ASSUME StoreInv
  PROVE  Logged <=> journal.op \in Operation
  BY OperationAssumption DEF StoreInv, Logged, NoJournal, Origin

LEMMA InvInit == Init => Inv
  BY DEF Init, Inv, StoreInv, CommitInv, UpInv, BootInv, Logged, NoCommit, NewBoot

(* The engine touches neither stores nor settings. *)
LEMMA EngineInv == Inv /\ Engine => Inv'
<1> SUFFICES ASSUME Inv, Engine PROVE Inv'
  OBVIOUS
<1>1. /\ UNCHANGED <<provides, settings, data, marker, journal, completed, leftover, phase, boot,
                     blocked, commit>>
  BY DEF Engine, StartTurn, Enqueue, AskUser, AnswerUser, EndTurn, Drain, stored, worker
<1> QED
  BY <1>1 DEF Inv, StoreInv, CommitInv, UpInv, BootInv, Logged, Uncommitted, Written, GivenBack,
              SettingsOf

LEMMA RequestInv ==
  ASSUME Serial, TypeInv, Inv, NEW p \in Page, NEW o \in Operation, NEW discard \in BOOLEAN,
         Request(p, o, discard)
  PROVE  Inv'
<1>1. /\ UNCHANGED <<provides, settings, data, marker, journal, completed, leftover, phase, boot,
                     blocked>>
      /\ phase = "up" /\ ~Logged /\ marker = NoOp /\ completed # o
  BY DEF Request, MayCommit, Serial, Inv, UpInv, Logged, stored
<1>2. commit'[p].pc = "vetted" /\ commit'[p].op = o
  BY NoCommitType DEF Request, TypeInv, TypeOK, CommitRecord
<1>3. StoreInv' /\ UpInv' /\ BootInv'
  BY <1>1 DEF Inv, StoreInv, UpInv, BootInv, Logged, GivenBack, SettingsOf
<1>4. CommitInv(p)'
  BY <1>1, <1>2 DEF CommitInv, Logged
<1> QED
  BY <1>3, <1>4 DEF Inv, Serial

(* What every step of a commit leaves alone. *)
LEMMA CommitFrame ==
  ASSUME Serial, TypeInv, Inv, NEW p \in Page, CommitStep(p)
  PROVE  /\ UNCHANGED <<provides, completed, phase, boot>>
         /\ phase = "up" /\ commit[p].op \in Operation /\ completed # commit[p].op
         /\ commit[p].pc # "idle" /\ commit[p] \in CommitRecord
         /\ commit[p].journal \in Journal /\ commit[p].journal.image \in Settings
         /\ journal.image \in Settings
         /\ UpInv' /\ CommitInv(p)' => BootInv' /\ \A q \in Page : CommitInv(q)'
<1>1. UNCHANGED <<provides, completed, phase, boot>> /\ commit[p].pc # "idle"
  BY DEF CommitStep, At, Block, Drained, CheckBlockers, TakeImage, WritesJournal, ReadBack,
         SetSettings, RemoveSettings, CommitDb, Committed, CommitFails, Caught, UndoCommit,
         UndoFails, stored
<1>2. phase = "up" /\ commit[p].op \in Operation /\ completed # commit[p].op
  BY <1>1 DEF Inv, CommitInv
<1>3. BootInv'
  BY <1>1, <1>2 DEF BootInv
<1>4. commit[p] \in CommitRecord /\ commit[p].journal \in Journal /\ journal \in Journal
  BY DEF TypeInv, TypeOK, CommitRecord
<1> QED
  BY <1>1, <1>2, <1>3, <1>4 DEF Serial, Journal

(* Steps before the journal is written: nothing is stored. *)
LEMMA WaitingInv ==
  ASSUME Serial, TypeInv, Inv, NEW p \in Page, CommitStep(p),
         Block(p) \/ Drained(p) \/ CheckBlockers(p) \/ TakeImage(p)
  PROVE  Inv'
<1>1. UNCHANGED stored /\ ~Logged /\ marker = NoOp
  BY DEF Inv, CommitInv, At, Block, Drained, CheckBlockers, TakeImage
<1>2. StoreInv' /\ UpInv'
  BY <1>1, CommitFrame DEF Inv, StoreInv, UpInv, Logged, SettingsOf, stored
<1>3. CASE Block(p)
  <2>1. commit'[p] = [commit[p] EXCEPT !.pc = "wait"] /\ blocked'
    BY <1>3 DEF Block, To, TypeInv, TypeOK
  <2> QED
    BY <1>1, <1>2, <2>1, CommitFrame DEF Inv, CommitInv, CommitRecord, Logged, stored
<1>4. CASE Drained(p)
  <2>1. commit'[p] = [commit[p] EXCEPT !.pc = "blockers"] /\ blocked'
    BY <1>4 DEF Drained, To, At, TypeInv, TypeOK, Inv, CommitInv
  <2> QED
    BY <1>1, <1>2, <2>1, CommitFrame DEF Inv, CommitInv, CommitRecord, Logged, stored
<1>5. CASE CheckBlockers(p)
  <2>1. CASE Return(p)
    <3>1. commit'[p].pc = "idle"
      BY <2>1 DEF Return, NoCommit, TypeInv, TypeOK
    <3> QED
      BY <1>2, <3>1, CommitFrame DEF Inv, CommitInv
  <2>2. CASE ~Return(p)
    <3>1. commit'[p] = [commit[p] EXCEPT !.pc = "image"] /\ blocked' = blocked
      BY <1>5, <2>2 DEF CheckBlockers, To, TypeInv, TypeOK
    <3>2. blocked
      BY <1>5 DEF CheckBlockers, At, Inv, CommitInv
    <3> QED
      BY <1>1, <1>2, <3>1, <3>2, CommitFrame DEF Inv, CommitInv, CommitRecord, Logged, stored
  <2> QED
    BY <2>1, <2>2
<1>6. CASE TakeImage(p)
  <2>1. /\ commit'[p].pc = "log" /\ commit'[p].op = commit[p].op
        /\ commit'[p].journal = [op |-> commit[p].op, image |-> settings]
    BY <1>6, CommitFrame DEF TakeImage, TypeInv, TypeOK, CommitRecord
  <2>2. blocked'
    BY <1>6 DEF TakeImage, At, Inv, CommitInv
  <2> QED
    BY <1>1, <1>2, <2>1, <2>2, CommitFrame DEF Inv, CommitInv, Logged, stored
<1> QED
  BY <1>3, <1>4, <1>5, <1>6

(* The journal is written, read back, and written again. *)
LEMMA LoggingInv ==
  ASSUME Serial, TypeInv, Inv, NEW p \in Page, CommitStep(p),
         WritesJournal(p, "log", "readback") \/ ReadBack(p) \/ WritesJournal(p, "applied", "db")
  PROVE  Inv'
<1>0. blocked /\ blocked' /\ UNCHANGED <<settings, data, marker, leftover>> /\ marker = NoOp
  <2>1. UNCHANGED <<blocked, settings, data, marker, leftover>>
    BY DEF WritesJournal, ReadBack, stored
  <2>2. commit[p].pc \in {"log", "readback", "applied"}
    BY DEF WritesJournal, ReadBack, At
  <2>3. blocked
    BY <2>2 DEF Inv, CommitInv
  <2>4. marker = NoOp
    BY <2>2 DEF Inv, CommitInv, Uncommitted
  <2> QED
    BY <2>1, <2>3, <2>4
<1>1. CASE WritesJournal(p, "log", "readback")
  <2>1. commit'[p] = [commit[p] EXCEPT !.pc = "readback"] /\ journal' = commit[p].journal
    BY <1>1 DEF WritesJournal, To, TypeInv, TypeOK
  <2>2. ~Logged /\ commit[p].journal = [op |-> commit[p].op, image |-> settings]
    BY <1>1 DEF WritesJournal, At, Inv, CommitInv
  <2>3. Logged' /\ journal'.op = commit[p].op /\ journal'.image = SettingsOf(data)
    BY <1>0, <2>1, <2>2, CommitFrame, OperationAssumption
       DEF Logged, NoJournal, Origin, Inv, StoreInv
  <2>4. StoreInv' /\ UpInv'
    BY <1>0, <2>3, CommitFrame DEF Inv, StoreInv, UpInv, SettingsOf
  <2>5. CommitInv(p)'
    BY <1>0, <2>1, <2>3, CommitFrame DEF CommitInv, CommitRecord, Uncommitted
  <2> QED
    BY <2>4, <2>5, CommitFrame DEF Inv
<1>2. CASE ReadBack(p)
  <2>0. journal.op = commit[p].op /\ journal # NoJournal /\ journal' = journal
    <3>1. journal.op = commit[p].op /\ journal' = journal
      BY <1>2 DEF ReadBack, At, Inv, CommitInv, Uncommitted, stored
    <3>2. NoJournal.op = NoOp
      BY DEF NoJournal
    <3> QED BY <3>1, <3>2, CommitFrame, OperationAssumption DEF Origin
  <2>1. /\ commit'[p].pc = "set" /\ commit'[p].op = commit[p].op /\ commit'[p].journal = journal
        /\ journal' = journal /\ journal.op = commit[p].op
    BY <1>2, <2>0, CommitFrame DEF ReadBack, TypeInv, TypeOK, CommitRecord
  <2>2. StoreInv' /\ UpInv'
    BY <1>0, <2>1, CommitFrame DEF Inv, StoreInv, UpInv, SettingsOf, Logged
  <2>3. CommitInv(p)'
    BY <1>0, <2>1, CommitFrame DEF CommitInv, Uncommitted
  <2> QED
    BY <2>2, <2>3, CommitFrame DEF Inv
<1>3. CASE WritesJournal(p, "applied", "db")
  <2>1. /\ commit'[p] = [commit[p] EXCEPT !.pc = "db"] /\ journal' = journal
        /\ Uncommitted(p) /\ settings = SettingsOf(commit[p].op)
    BY <1>3 DEF WritesJournal, To, At, TypeInv, TypeOK, Inv, CommitInv, Uncommitted
  <2>2. StoreInv' /\ UpInv'
    BY <1>0, <2>1, CommitFrame DEF Inv, StoreInv, UpInv, SettingsOf, Logged
  <2>3. CommitInv(p)'
    BY <1>0, <2>1, CommitFrame DEF CommitInv, CommitRecord, Uncommitted, SettingsOf
  <2> QED
    BY <2>2, <2>3, CommitFrame DEF Inv
<1> QED
  BY <1>1, <1>2, <1>3

(* The settings are written in two steps, then the conversations. *)
LEMMA WritingInv ==
  ASSUME Serial, TypeInv, Inv, NEW p \in Page, CommitStep(p),
         SetSettings(p) \/ RemoveSettings(p) \/ CommitDb(p)
  PROVE  Inv'
<1>0. /\ blocked /\ blocked' = blocked /\ journal' = journal
      /\ Uncommitted(p) /\ Logged /\ journal.image = SettingsOf(data)
  <2>1. commit[p].pc \in {"set", "remove", "db"}
    BY DEF SetSettings, RemoveSettings, CommitDb, At
  <2>2. blocked /\ Uncommitted(p)
    BY <2>1 DEF Inv, CommitInv
  <2>3. Logged
    BY <2>2, CommitFrame, LoggedHasOperation DEF Uncommitted, Inv
  <2>4. UNCHANGED <<blocked, journal>>
    BY DEF SetSettings, RemoveSettings, CommitDb
  <2> QED
    BY <2>2, <2>3, <2>4 DEF Inv, StoreInv, Uncommitted
<1>1. UpInv'
  BY <1>0 DEF UpInv, Logged
<1>2. CASE SetSettings(p) \/ RemoveSettings(p)
  <2>1. UNCHANGED <<data, marker, leftover>>
    BY <1>2 DEF SetSettings, RemoveSettings
  <2>2. StoreInv'
    BY <1>0, <2>1, CommitFrame DEF Inv, StoreInv, Logged, SettingsOf, Uncommitted
  <2>3. CASE SetSettings(p)
    <3>1. commit'[p] = [commit[p] EXCEPT !.pc = "remove"]
      BY <2>3 DEF SetSettings, To, TypeInv, TypeOK
    <3>2. Written(commit[p].op)'
      BY <2>3, <3>1, CommitFrame DEF SetSettings, Written, CommitRecord
    <3> QED
      BY <1>0, <1>1, <2>1, <2>2, <3>1, <3>2, CommitFrame
         DEF Inv, CommitInv, CommitRecord, Uncommitted, Written
  <2>4. CASE RemoveSettings(p)
    <3>1. commit'[p] = [commit[p] EXCEPT !.pc = "applied"]
      BY <2>4 DEF RemoveSettings, To, TypeInv, TypeOK
    <3>2. Written(commit[p].op)
      BY <2>4 DEF RemoveSettings, At, Inv, CommitInv
    <3>3. settings' = SettingsOf(commit[p].op)
      BY <2>4, <3>2 DEF RemoveSettings, SettingsOf, Written
    <3> QED
      BY <1>0, <1>1, <2>1, <2>2, <3>1, <3>3, CommitFrame
         DEF Inv, CommitInv, CommitRecord, Uncommitted, SettingsOf
  <2> QED
    BY <1>2, <2>3, <2>4
<1>3. CASE CommitDb(p)
  <2>1. /\ data' = commit[p].op /\ marker' = commit[p].op /\ settings' = settings
        /\ commit'[p] = [commit[p] EXCEPT !.pc = "committed"]
    BY <1>3 DEF CommitDb, To, TypeInv, TypeOK
  <2>2. settings = SettingsOf(commit[p].op) /\ marker' # NoOp
    BY <1>3, <2>1, CommitFrame, OperationAssumption DEF CommitDb, At, Inv, CommitInv, Origin
  <2>3. StoreInv'
    BY <1>0, <2>1, <2>2, CommitFrame DEF StoreInv, Logged, SettingsOf, Uncommitted
  <2>4. CommitInv(p)'
    BY <1>0, <2>1, CommitFrame DEF CommitInv, CommitRecord, Uncommitted
  <2> QED
    BY <1>1, <2>3, <2>4, CommitFrame DEF Inv
<1> QED
  BY <1>2, <1>3

(* A commit returns, or fails and is judged by its marker. *)
LEMMA EndingInv ==
  ASSUME Serial, TypeInv, Inv, NEW p \in Page, CommitStep(p),
         Committed(p) \/ CommitFails(p) \/ Caught(p) \/ UndoFails(p)
  PROVE  Inv'
<1>0. UNCHANGED <<settings, data, marker, leftover>>
  BY DEF Committed, CommitFails, Caught, UndoFails, stored
<1>1. CASE Committed(p) \/ UndoFails(p)
  <2>1. commit[p].pc \in {"committed", "undoSet", "undoRemove", "undoDrop"}
    BY <1>1 DEF Committed, UndoFails, At
  <2>2. blocked /\ commit[p].journal = journal /\ journal.op = commit[p].op
    BY <2>1 DEF Inv, CommitInv, Uncommitted
  <2>3. UNCHANGED <<journal, blocked>> /\ Logged /\ commit'[p] = NoCommit
    BY <1>1, <2>2, CommitFrame, LoggedHasOperation
       DEF Committed, UndoFails, Return, TypeInv, TypeOK, Inv, stored
  <2>4. StoreInv'
    BY <1>0, <2>3, CommitFrame DEF Inv, StoreInv, Logged, SettingsOf
  <2>5. Logged' /\ blocked'
    BY <2>2, <2>3 DEF Logged
  <2>6. UpInv'
    BY <2>5 DEF UpInv
  <2>7. CommitInv(p)'
    BY <2>3 DEF CommitInv, NoCommit
  <2> QED
    BY <2>4, <2>6, <2>7, CommitFrame DEF Inv
<1>2. CASE CommitFails(p)
  <2>1. /\ UNCHANGED <<journal, blocked>>
        /\ commit'[p].pc = "caught" /\ commit'[p].op = commit[p].op
        /\ commit'[p].journal = IF commit[p].pc \in {"image", "log"} THEN NoJournal
                                ELSE commit[p].journal
    BY <1>2, CommitFrame DEF CommitFails, TypeInv, TypeOK, CommitRecord, stored
  <2>2. commit[p].pc \in {"image", "log", "set", "remove", "applied", "db", "committed"}
    BY <1>2 DEF CommitFails
  <2>3. blocked
    BY <2>2 DEF Inv, CommitInv
  <2>4. CASE commit[p].pc \in {"image", "log"}
    <3>1. ~Logged /\ marker = NoOp
      BY <2>4 DEF Inv, CommitInv
    <3> QED
      BY <1>0, <2>1, <2>3, <2>4, <3>1, CommitFrame
         DEF Inv, StoreInv, UpInv, CommitInv, Logged, SettingsOf
  <2>5. CASE commit[p].pc \notin {"image", "log"}
    <3>1. /\ commit[p].journal = journal /\ journal.op = commit[p].op
          /\ marker \in {NoOp, commit[p].op}
      BY <2>2, <2>5 DEF Inv, CommitInv, Uncommitted
    <3> QED
      BY <1>0, <2>1, <2>3, <2>5, <3>1, CommitFrame
         DEF Inv, StoreInv, UpInv, CommitInv, Logged, SettingsOf
  <2> QED
    BY <2>4, <2>5
<1>3. CASE Caught(p)
  <2>1. journal' = journal /\ StoreInv'
    BY <1>0, <1>3, CommitFrame DEF Caught, stored, Inv, StoreInv, Logged, SettingsOf
  <2>2. \/ commit[p].journal = NoJournal /\ ~Logged /\ marker = NoOp
        \/ commit[p].journal = journal /\ journal.op = commit[p].op /\ Logged
           /\ marker \in {NoOp, commit[p].op}
    BY <1>3, CommitFrame, LoggedHasOperation DEF Caught, At, Inv, CommitInv
  <2>3. CASE marker = commit[p].op /\ Return(p) /\ blocked' = TRUE
    <3>1. commit'[p] = NoCommit
      BY <2>3 DEF Return, TypeInv, TypeOK
    <3>2. Logged
      BY <2>2, <2>3, CommitFrame, OperationAssumption DEF Origin
    <3> QED
      BY <2>1, <2>3, <3>1, <3>2, CommitFrame DEF Inv, UpInv, CommitInv, NoCommit, Logged
  <2>4. CASE /\ marker # commit[p].op /\ commit[p].journal # NoJournal
             /\ To(p, "undoSet") /\ blocked' = blocked
    <3>1. commit'[p] = [commit[p] EXCEPT !.pc = "undoSet"]
      BY <2>4 DEF To, TypeInv, TypeOK
    <3>2. Uncommitted(p) /\ Logged
      BY <2>2, <2>4 DEF Uncommitted
    <3>3. blocked
      BY <1>3 DEF Caught, At, Inv, CommitInv
    <3>4. UpInv' /\ CommitInv(p)'
      BY <1>0, <2>1, <2>4, <3>1, <3>2, <3>3, CommitFrame
         DEF UpInv, CommitInv, CommitRecord, Uncommitted, Logged
    <3> QED
      BY <2>1, <3>4, CommitFrame DEF Inv
  <2>5. CASE /\ marker # commit[p].op /\ commit[p].journal = NoJournal
             /\ Return(p) /\ blocked' = FALSE
    <3>1. commit'[p] = NoCommit
      BY <2>5 DEF Return, TypeInv, TypeOK
    <3>2. ~Logged' /\ marker' = NoOp
      BY <1>0, <2>1, <2>2, <2>5 DEF Logged
    <3>3. UpInv'
      BY <3>2 DEF UpInv
    <3>4. CommitInv(p)'
      BY <3>1 DEF CommitInv, NoCommit
    <3> QED
      BY <2>1, <3>3, <3>4, CommitFrame DEF Inv
  <2> QED
    BY <1>3, <2>3, <2>4, <2>5 DEF Caught
<1> QED
  BY <1>1, <1>2, <1>3

(* What the two steps of undoing make of the settings. *)
LEMMA Restored ==
  ASSUME settings \in Settings, NEW image \in Settings
  PROVE  /\ settings' = WriteBack(image) => GivenBack(image)'
         /\ GivenBack(image) => RemoveNew(image) = image
  BY DEF Settings, WriteBack, RemoveNew, GivenBack

(* A failed commit gives the settings back and drops its journal. *)
LEMMA UndoInv ==
  ASSUME Serial, TypeInv, Inv, NEW p \in Page, CommitStep(p), UndoCommit(p)
  PROVE  Inv'
<1>0. /\ UNCHANGED <<data, marker, leftover>> /\ Uncommitted(p) /\ blocked
      /\ Logged /\ journal.image = SettingsOf(data) /\ settings \in Settings
  <2>1. commit[p].pc \in {"undoSet", "undoRemove", "undoDrop"}
        /\ UNCHANGED <<data, marker, leftover>>
    BY DEF UndoCommit, At
  <2>2. Uncommitted(p) /\ blocked
    BY <2>1 DEF Inv, CommitInv
  <2>3. Logged
    BY <2>2, CommitFrame, LoggedHasOperation DEF Uncommitted, Inv
  <2> QED
    BY <2>1, <2>2, <2>3 DEF Inv, StoreInv, Uncommitted, TypeInv, TypeOK
<1>1. CASE /\ At(p, "undoSet") /\ To(p, "undoRemove")
           /\ settings' = WriteBack(commit[p].journal.image) /\ UNCHANGED <<journal, blocked>>
  <2>1. commit'[p] = [commit[p] EXCEPT !.pc = "undoRemove"]
    BY <1>1 DEF To, TypeInv, TypeOK
  <2>2. GivenBack(journal.image)'
    BY <1>0, <1>1, CommitFrame, Restored DEF Uncommitted, GivenBack
  <2>3. StoreInv' /\ UpInv'
    BY <1>0, <1>1, CommitFrame DEF Inv, StoreInv, UpInv, Uncommitted, Logged, SettingsOf
  <2>4. CommitInv(p)'
    BY <1>0, <1>1, <2>1, <2>2, CommitFrame DEF CommitInv, CommitRecord, Uncommitted
  <2> QED
    BY <2>3, <2>4, CommitFrame DEF Inv
<1>2. CASE /\ At(p, "undoRemove") /\ To(p, "undoDrop")
           /\ settings' = RemoveNew(commit[p].journal.image) /\ UNCHANGED <<journal, blocked>>
  <2>1. commit'[p] = [commit[p] EXCEPT !.pc = "undoDrop"]
    BY <1>2 DEF To, TypeInv, TypeOK
  <2>2. GivenBack(journal.image)
    BY <1>2 DEF At, Inv, CommitInv
  <2>3. settings' = journal.image
    BY <1>0, <1>2, <2>2, CommitFrame, Restored DEF Uncommitted
  <2>4. StoreInv' /\ UpInv'
    BY <1>0, <1>2, CommitFrame DEF Inv, StoreInv, UpInv, Uncommitted, Logged, SettingsOf
  <2>5. CommitInv(p)'
    BY <1>0, <1>2, <2>1, <2>3, CommitFrame DEF CommitInv, CommitRecord, Uncommitted
  <2> QED
    BY <2>4, <2>5, CommitFrame DEF Inv
<1>3. CASE /\ At(p, "undoDrop") /\ Return(p)
           /\ journal' = NoJournal /\ blocked' = FALSE /\ UNCHANGED settings
  <2>1. commit'[p] = NoCommit
    BY <1>3 DEF Return, TypeInv, TypeOK
  <2>2. settings = SettingsOf(data)
    BY <1>0, <1>3 DEF At, Inv, CommitInv
  <2>3. ~Logged' /\ marker' = NoOp
    BY <1>0, <1>3 DEF Logged, Uncommitted
  <2>4. StoreInv'
    BY <1>0, <1>3, <2>2, <2>3, CommitFrame DEF Inv, StoreInv, SettingsOf
  <2>5. UpInv'
    BY <2>3 DEF UpInv
  <2>6. CommitInv(p)'
    BY <2>1 DEF CommitInv, NoCommit
  <2> QED
    BY <2>4, <2>5, <2>6, CommitFrame DEF Inv
<1> QED
  BY <1>1, <1>2, <1>3 DEF UndoCommit

LEMMA CommitStepInv ==
  ASSUME Serial, TypeInv, Inv, NEW p \in Page, CommitStep(p)
  PROVE  Inv'
  BY WaitingInv, LoggingInv, WritingInv, EndingInv, UndoInv DEF CommitStep

(* A start of the worker: no commit is at work. *)
LEMMA NoCommits ==
  ASSUME Inv, TypeInv, phase # "up", commit' = commit
  PROVE  \A p \in Page : CommitInv(p)'
<1> SUFFICES ASSUME NEW p \in Page PROVE CommitInv(p)'
  OBVIOUS
<1>1. commit[p].pc = "idle"
  BY DEF Inv, CommitInv
<1> QED
  BY <1>1 DEF CommitInv

(* The worker that has reconciled admits commands over whole stores. *)
LEMMA BootedInv ==
  ASSUME Booted, Inv, ~Logged', marker' = NoOp
  PROVE  UpInv' /\ BootInv'
  BY DEF Booted, UpInv, BootInv

LEMMA ReadingInv ==
  ASSUME TypeInv, Inv, Start \/ BootFails \/ ReadJournal \/ ReadMarker
  PROVE  Inv'
<1>1. UNCHANGED stored /\ commit' = commit /\ provides' = provides /\ phase # "up"
  BY DEF Start, BootFails, ReadJournal, ReadMarker, Booting
<1>2. StoreInv' /\ \A p \in Page : CommitInv(p)'
  BY <1>1, NoCommits DEF Inv, StoreInv, Logged, SettingsOf, stored
<1>3. CASE Start \/ BootFails
  BY <1>1, <1>2, <1>3 DEF Inv, UpInv, BootInv, Start, BootFails, NewBoot
<1>4. CASE ReadJournal
  <2>1. boot'.pc = "marker" /\ boot'.journal = journal /\ phase' = "starting"
    BY <1>4 DEF ReadJournal, Booting, TypeInv, TypeOK, BootRecord
  <2> QED
    BY <1>1, <1>2, <2>1 DEF Inv, UpInv, BootInv, stored
<1>5. CASE ReadMarker
  <2>0. phase = "starting" /\ boot.journal = journal /\ boot \in BootRecord
    BY <1>5 DEF ReadMarker, Booting, Inv, BootInv, TypeInv, TypeOK
  <2>1. CASE marker = NoOp /\ boot.journal = NoJournal /\ Booted
    BY <1>1, <1>2, <2>0, <2>1, BootedInv DEF Inv, Logged, stored
  <2>2. CASE /\ marker # NoOp /\ boot' = [boot EXCEPT !.pc = "session", !.op = marker]
             /\ phase' = phase
    <3>1. boot'.pc = "session" /\ boot'.op = marker /\ boot'.journal = journal
      BY <2>0, <2>2 DEF BootRecord
    <3> QED
      BY <1>1, <1>2, <2>0, <2>2, <3>1 DEF Inv, UpInv, BootInv, stored
  <2>3. CASE phase' = "broken"
    BY <1>2, <2>3 DEF Inv, UpInv, BootInv
  <2>4. CASE marker = NoOp /\ boot.journal # NoJournal /\ BootTo("undoSet") /\ phase' = phase
    <3>1. boot'.pc = "undoSet" /\ boot'.journal = journal
      BY <2>0, <2>4 DEF BootTo, BootRecord
    <3> QED
      BY <1>1, <1>2, <2>0, <2>4, <3>1 DEF Inv, UpInv, BootInv, Logged, stored
  <2> QED
    BY <1>5, <2>1, <2>2, <2>3, <2>4 DEF ReadMarker
<1> QED
  BY <1>3, <1>4, <1>5

(* Without a marker the old settings are given back. *)
LEMMA UndoAtBootInv ==
  ASSUME TypeInv, Inv, UndoAtBoot
  PROVE  Inv'
<1>0. /\ UNCHANGED <<provides, data, marker, completed, leftover, commit>>
      /\ phase = "starting" /\ boot \in BootRecord
      /\ boot.journal = journal /\ Logged /\ marker = NoOp
      /\ journal.image = SettingsOf(data) /\ journal.image \in Settings /\ settings \in Settings
  BY DEF UndoAtBoot, Booting, Inv, BootInv, StoreInv, TypeInv, TypeOK, Journal
<1>1. \A p \in Page : CommitInv(p)'
  BY <1>0, NoCommits
<1>2. CASE /\ Booting("undoSet") /\ BootTo("undoRemove")
           /\ settings' = WriteBack(boot.journal.image) /\ UNCHANGED <<journal, phase>>
  <2>1. boot'.pc = "undoRemove" /\ boot'.journal = journal
    BY <1>0, <1>2 DEF BootTo, BootRecord
  <2>2. GivenBack(journal.image)'
    BY <1>0, <1>2, Restored DEF GivenBack
  <2>3. StoreInv'
    BY <1>0, <1>2 DEF Inv, StoreInv, Logged, SettingsOf
  <2> QED
    BY <1>0, <1>1, <1>2, <2>1, <2>2, <2>3 DEF Inv, UpInv, BootInv, Logged
<1>3. CASE /\ Booting("undoRemove") /\ BootTo("undoDrop")
           /\ settings' = RemoveNew(boot.journal.image) /\ UNCHANGED <<journal, phase>>
  <2>1. boot'.pc = "undoDrop" /\ boot'.journal = journal
    BY <1>0, <1>3 DEF BootTo, BootRecord
  <2>2. settings' = journal.image
    BY <1>0, <1>3, Restored DEF Booting, Inv, BootInv
  <2>3. StoreInv'
    BY <1>0, <1>3 DEF Inv, StoreInv, Logged, SettingsOf
  <2> QED
    BY <1>0, <1>1, <1>3, <2>1, <2>2, <2>3 DEF Inv, UpInv, BootInv, Logged
<1>4. CASE Booting("undoDrop") /\ Booted /\ journal' = NoJournal /\ UNCHANGED settings
  <2>1. settings = SettingsOf(data) /\ ~Logged'
    BY <1>0, <1>4 DEF Booting, Inv, BootInv, Logged
  <2>2. StoreInv'
    BY <1>0, <1>4, <2>1 DEF Inv, StoreInv, SettingsOf
  <2> QED
    BY <1>0, <1>1, <1>4, <2>1, <2>2, BootedInv DEF Inv
<1> QED
  BY <1>2, <1>3, <1>4 DEF UndoAtBoot

(* With a marker the import is completed. *)
LEMMA FinishInv ==
  ASSUME TypeInv, Inv, ClearSession \/ Hydrate \/ Complete \/ DropJournal \/ DropMarker
  PROVE  Inv'
<1>0. /\ UNCHANGED <<provides, settings, data, commit>>
      /\ phase = "starting" /\ boot \in BootRecord
      /\ boot.op = marker /\ marker # NoOp /\ data = marker /\ settings = SettingsOf(data)
  BY DEF ClearSession, Hydrate, Complete, DropJournal, DropMarker, Booting, Inv, BootInv, StoreInv,
         TypeInv, TypeOK
<1>1. \A p \in Page : CommitInv(p)'
  BY <1>0, NoCommits
<1>2. CASE ClearSession
  <2>1. boot' = [boot EXCEPT !.pc = "hydrate"] /\ UNCHANGED <<marker, journal, completed, phase>>
    BY <1>2 DEF ClearSession, BootTo
  <2>2. boot.journal = journal /\ ~leftover'
    BY <1>2 DEF ClearSession, Booting, Inv, BootInv
  <2> QED
    BY <1>0, <1>1, <2>1, <2>2
       DEF Inv, StoreInv, UpInv, BootInv, BootRecord, Logged, SettingsOf
<1>3. CASE Hydrate
  <2>1. boot.journal = journal /\ ~leftover
    BY <1>3 DEF Hydrate, Booting, Inv, BootInv
  <2>2. /\ boot' = [boot EXCEPT !.pc = "complete"]
        /\ UNCHANGED <<marker, journal, completed, leftover, phase>>
    BY <1>3, <2>1 DEF Hydrate, BootTo
  <2> QED
    BY <1>0, <1>1, <2>1, <2>2
       DEF Inv, StoreInv, UpInv, BootInv, BootRecord, Logged, SettingsOf
<1>4. CASE Complete
  <2>1. /\ boot' = [boot EXCEPT !.pc = "dropJournal"] /\ completed' = boot.op
        /\ UNCHANGED <<marker, journal, leftover, phase>>
    BY <1>4 DEF Complete, BootTo
  <2>2. ~leftover
    BY <1>4 DEF Complete, Booting, Inv, BootInv
  <2> QED
    BY <1>0, <1>1, <2>1, <2>2
       DEF Inv, StoreInv, UpInv, BootInv, BootRecord, Logged, SettingsOf
<1>5. CASE DropJournal
  <2>1. /\ boot' = [boot EXCEPT !.pc = "dropMarker"] /\ ~Logged'
        /\ UNCHANGED <<marker, completed, leftover, phase>>
    BY <1>5 DEF DropJournal, BootTo, Logged
  <2>2. ~leftover /\ completed = boot.op
    BY <1>5 DEF DropJournal, Booting, Inv, BootInv
  <2> QED
    BY <1>0, <1>1, <2>1, <2>2 DEF Inv, StoreInv, UpInv, BootInv, BootRecord, SettingsOf
<1>6. CASE DropMarker
  <2>1. Booted /\ marker' = NoOp /\ UNCHANGED <<journal, completed, leftover>>
    BY <1>6 DEF DropMarker
  <2>2. ~leftover /\ completed = data /\ ~Logged
    BY <1>0, <1>6 DEF DropMarker, Booting, Inv, BootInv
  <2>3. StoreInv'
    BY <1>0, <2>1, <2>2 DEF StoreInv, Logged, SettingsOf
  <2> QED
    BY <1>1, <2>1, <2>2, <2>3, BootedInv DEF Inv, Logged
<1> QED
  BY <1>2, <1>3, <1>4, <1>5, <1>6

LEMMA CrashInv ==
  ASSUME Inv, Crash
  PROVE  Inv'
<1>1. /\ UNCHANGED <<provides, settings, data, marker, journal, completed, leftover>>
      /\ phase' = "down" /\ boot' = NewBoot
  BY DEF Crash, stored
<1>2. \A p \in Page : commit'[p].pc = "idle"
  BY DEF Crash, NoCommit
<1>3. \A p \in Page : CommitInv(p)'
  BY <1>2 DEF CommitInv
<1> QED
  BY <1>1, <1>3 DEF Inv, StoreInv, UpInv, BootInv, Logged, SettingsOf

LEMMA InvNext ==
  ASSUME Serial
  PROVE  TypeInv /\ Inv /\ [Next]_vars => TypeInv' /\ Inv'
<1>1. TypeInv /\ UNCHANGED vars => TypeInv'
  BY DEF TypeInv, TypeOK, Requested, vars, stored, worker
<1>2. TypeInv /\ [Next]_vars => TypeInv'
  BY <1>1, EngineType, RequestType, CommitStepType, BootStepType, CrashType DEF Next
<1>3. TypeInv /\ Inv /\ UNCHANGED vars => Inv'
  BY DEF Inv, StoreInv, CommitInv, UpInv, BootInv, Logged, Uncommitted, Written, GivenBack,
         SettingsOf, vars, stored, worker
<1>4. TypeInv /\ Inv /\ BootStep => Inv'
  BY ReadingInv, UndoAtBootInv, FinishInv DEF BootStep
<1>5. TypeInv /\ Inv /\ [Next]_vars => Inv'
  BY <1>3, <1>4, EngineInv, RequestInv, CommitStepInv, CrashInv DEF Next
<1> QED
  BY <1>2, <1>5

LEMMA Invariance ==
  ASSUME Serial
  PROVE  Spec => [](TypeInv /\ Inv)
<1>1. TypeInv /\ Inv /\ [Next]_vars => (TypeInv /\ Inv)'
  BY InvNext
<1>2. Init => TypeInv /\ Inv
  BY InitType, InvInit
<1> QED
  BY <1>1, <1>2, PTL DEF Spec

-----------------------------------------------------------------------------
(* What the invariant shows.                                               *)

(* AdmitsWhole: commands are admitted only over settings and conversations *)
(* of one backup, whatever imports were asked for, failed or were cut off  *)
(* by the end of the worker.                                               *)
THEOREM ImportAdmitsWhole ==
  ASSUME Serial
  PROVE  Spec => []AdmitsWhole
<1>1. TypeInv /\ Inv => AdmitsWhole
  BY DEF Inv, StoreInv, UpInv, Logged, AdmitsWhole, Admits
<1> QED
  BY <1>1, Invariance, PTL

(* MarkerMatches: no start of the worker finds a marker of another import  *)
(* than the journal's.                                                     *)
THEOREM ImportMarkerMatches ==
  ASSUME Serial
  PROVE  Spec => []MarkerMatches
<1>1. TypeInv /\ Inv => MarkerMatches
  BY DEF Inv, StoreInv, Logged, MarkerMatches
<1> QED
  BY <1>1, Invariance, PTL

(* Conversations and marker are replaced only when an import commits them. *)
LEMMA OnlyCommitReplaces ==
  ASSUME [Next]_vars
  PROVE  \/ data' = data /\ marker' \in {marker, NoOp}
         \/ \E p \in Page : CommitDb(p)
<1> USE DEF stored, worker
<1>1. CASE UNCHANGED vars
  BY <1>1 DEF vars
<1>2. CASE Engine
  BY <1>2 DEF Engine, StartTurn, Enqueue, AskUser, AnswerUser, EndTurn, Drain
<1>3. ASSUME NEW p \in Page, NEW o \in Operation, NEW discard \in BOOLEAN,
             Request(p, o, discard)
      PROVE  data' = data /\ marker' = marker
  BY <1>3 DEF Request
<1>4. ASSUME NEW p \in Page, CommitStep(p)
      PROVE  (data' = data /\ marker' = marker) \/ CommitDb(p)
  BY <1>4 DEF CommitStep, Block, Drained, CheckBlockers, TakeImage, WritesJournal, ReadBack,
     SetSettings, RemoveSettings, Committed, CommitFails, Caught, UndoCommit, UndoFails
<1>5. CASE BootStep \/ Crash
  BY <1>5 DEF BootStep, Crash, Start, ReadJournal, ReadMarker, UndoAtBoot, ClearSession, Hydrate,
     Complete, DropJournal, DropMarker, BootFails
<1> QED
  BY <1>1, <1>2, <1>3, <1>4, <1>5 DEF Next

(* NeverReapplied: an import is not applied to the conversations it has    *)
(* already replaced.                                                       *)
THEOREM ImportNeverReapplied ==
  ASSUME Serial
  PROVE  Spec => NeverReapplied
<1>1. ASSUME TypeInv, Inv, [Next]_vars
      PROVE  [marker' # marker /\ marker' # NoOp => data # marker']_vars
  <2> SUFFICES ASSUME marker' # marker, marker' # NoOp PROVE data # marker'
    BY DEF vars
  <2>1. PICK p \in Page : CommitDb(p)
    BY <1>1, OnlyCommitReplaces
  <2>2. marker = NoOp /\ completed # commit[p].op /\ commit[p].op \in Operation
    BY <1>1, <2>1 DEF CommitDb, At, Inv, CommitInv, Uncommitted
  <2>3. marker' = commit[p].op
    BY <2>1 DEF CommitDb
  <2> QED
    BY <1>1, <2>2, <2>3, OperationAssumption DEF Inv, StoreInv, Origin
<1> QED
  BY <1>1, Invariance, PTL DEF Spec, NeverReapplied

LEMMA NextKeepsBackups == [Next]_vars => provides' = provides
  BY DEF Next, Engine, StartTurn, Enqueue, AskUser, AnswerUser, EndTurn, Drain, Request, CommitStep,
         Block, Drained, CheckBlockers, TakeImage, WritesJournal, ReadBack, SetSettings,
         RemoveSettings, CommitDb, Committed, CommitFails, Caught, UndoCommit, UndoFails, BootStep,
         Start, ReadJournal, ReadMarker, UndoAtBoot, ClearSession, Hydrate, Complete, DropJournal,
         DropMarker, BootFails, Crash, vars

(* Settled settings are those that belong to the conversations.            *)
LEMMA SettledWhole ==
  ASSUME Inv
  PROVE  [settings |-> Settled, data |-> data] = Atomic!Whole(data)
  BY DEF Inv, StoreInv, Logged, Settled, Atomic!Whole, Atomic!SettingsOf, SettingsOf

(* ImplementsAtomicImport: seen as what a start of the worker would leave  *)
(* of them, settings and conversations are replaced together and at once,  *)
(* by one import, whatever fails or stops.                                 *)
THEOREM ImportIsAtomic ==
  ASSUME Serial
  PROVE  Spec => ImplementsAtomicImport
<1>1. Init => Atomic!Init
  BY DEF Init, Atomic!Init, Atomic!Whole, Atomic!SettingsOf, SettingsOf, Settled, Atomic!Origin,
         Origin
<1>2. ASSUME TypeInv, Inv, Inv', [Next]_vars
      PROVE  [Atomic!Next]_<<provides, [settings |-> Settled, data |-> data]>>
  <2>1. provides' = provides
    BY <1>2, NextKeepsBackups
  <2>2. [settings |-> Settled, data |-> data]' = Atomic!Whole(data)'
    BY <1>2 DEF Inv, StoreInv, Logged, Settled, Atomic!Whole, Atomic!SettingsOf, SettingsOf
  <2>3. CASE data' = data
    BY <1>2, <2>1, <2>2, <2>3, SettledWhole DEF Atomic!Whole, Atomic!SettingsOf
  <2>4. CASE data' # data
    <3>1. PICK p \in Page : CommitDb(p)
      BY <1>2, <2>4, OnlyCommitReplaces
    <3>2. data' = commit[p].op /\ commit[p].op \in Operation
      BY <1>2, <3>1 DEF CommitDb, At, TypeInv, Requested
    <3> QED
      BY <2>1, <2>2, <3>2 DEF Atomic!Next, Atomic!Import, Atomic!Whole, Atomic!SettingsOf
  <2> QED
    BY <2>3, <2>4
<1> QED
  BY <1>1, <1>2, Invariance, PTL DEF Spec, ImplementsAtomicImport, Atomic!Spec

-------------------------------------------------------------------------------
(****************************************************************************)
(* A backup and its import.  A table that was stored or offered keeps to its    *)
(* types; the stored nodes hang below nodes of their own thread written before  *)
(* them, whether they were written here or let in by an import, and a cursor is *)
(* at a node of its thread.  The way up from it then stays in the thread.       *)
(****************************************************************************)
ThreadTable(ts) == DOMAIN ts \subseteq Thread /\ ts \in [DOMAIN ts -> ThreadRow]
NodeTable(ns) == DOMAIN ns \subseteq NodeId /\ ns \in [DOMAIN ns -> NodeRow]

BackupTypes ==
  /\ ThreadTable(threads) /\ NodeTable(nodes)
  /\ exporting.read = "threads" => ThreadTable(exporting.table)
  /\ exporting.read = "nodes" => NodeTable(exporting.table)
  /\ ThreadTable(file.threads) /\ NodeTable(file.nodes)

Rooted(ns) ==
  \A n \in DOMAIN ns :
    ns[n].parent # 0 => /\ ns[n].parent \in DOMAIN ns
                        /\ ns[ns[n].parent].thread = ns[n].thread
                        /\ ns[ns[n].parent].seq < ns[n].seq

AtOwnNodes(ts, ns) == \A t \in DOMAIN ts : ts[t].leaf # 0 => ts[t].leaf \in NodesOf(ns, t)

BackupInv == BackupTypes /\ Rooted(nodes) /\ AtOwnNodes(threads, nodes)

\* The way up from a node.
UpFrom(ns, n, up) ==
  up = [k \in 0..MaxNode |->
         IF k = 0 THEN {n} \cap DOMAIN ns
         ELSE up[k - 1] \cup ({ns[m].parent : m \in up[k - 1]} \cap DOMAIN ns)]

LEMMA WayUp ==
  ASSUME NEW ns, NEW n
  PROVE  \E up : UpFrom(ns, n, up) /\ Ancestors(ns, n) = up[MaxNode]
<1>0. MaxNode \in Nat
  BY BackupAssumption
<1> DEFINE S == SUBSET DOMAIN ns
           q == [k \in 1..MaxNode |-> k]
           step(A) == A \cup ({ns[m].parent : m \in A} \cap DOMAIN ns)
           g == [p \in S \X (1..MaxNode) |-> step(p[1])]
           b == {n} \cap DOMAIN ns
<1>1. Iterable(S, 1..MaxNode, b, g, q)
  <2>1. ASSUME NEW p \in S \X (1..MaxNode) PROVE step(p[1]) \in S
    <3>1. p[1] \in S
      OBVIOUS
    <3> QED BY <3>1
  <2>2. g \in [S \X (1..MaxNode) -> S]
    <3> HIDE DEF step, S
    <3> QED BY <2>1
  <2>3. q \in Seq(1..MaxNode)
    BY <1>0
  <2>4. b \in S
    OBVIOUS
  <2> HIDE DEF S, b, g, q
  <2> QED BY <2>2, <2>3, <2>4 DEF Iterable
<1>2. Len(q) = MaxNode /\ \A k \in 1..MaxNode : q[k] = k
  BY <1>0
<1>3. PICK f \in [0..MaxNode -> S] : f[0] = b /\ \A k \in 1..MaxNode : f[k] = g[<<f[k - 1], q[k]>>]
  <2> HIDE DEF S, b, g, q
  <2> QED BY <1>1, <1>2, Iterates
<1>4. ASSUME NEW k \in 1..MaxNode PROVE f[k] = step(f[k - 1])
  <2>1. k - 1 \in 0..MaxNode /\ f[k] = g[<<f[k - 1], k>>]
    <3> HIDE DEF S, b, g, q
    <3> QED BY <1>0, <1>2, <1>3
  <2>2. f[k - 1] \in S
    BY <1>3, <2>1
  <2> HIDE DEF S, step
  <2> QED BY <2>1, <2>2
<1>5. UpFrom(ns, n, f)
  <2>1. f = [k \in 0..MaxNode |-> f[k]]
    BY <1>3
  <2>2. ASSUME NEW k \in 0..MaxNode
        PROVE  f[k] = IF k = 0 THEN b ELSE step(f[k - 1])
    <3>1. k = 0 \/ k \in 1..MaxNode
      BY <1>0
    <3> HIDE DEF S, b, step
    <3> QED BY <1>3, <1>4, <3>1
  <2> QED BY <2>1, <2>2 DEF UpFrom
<1>6. Ancestors(ns, n) = (CHOOSE up : UpFrom(ns, n, up))[MaxNode]
  BY DEF Ancestors, UpFrom
<1> QED BY <1>5, <1>6

LEMMA WayUpStays ==
  ASSUME NEW ns, Rooted(ns), NEW t, NEW n, n # 0 => n \in NodesOf(ns, t), 0 \notin DOMAIN ns
  PROVE  Ancestors(ns, n) \subseteq NodesOf(ns, t)
<1>0. MaxNode \in Nat
  BY BackupAssumption
<1>1. PICK up : UpFrom(ns, n, up) /\ Ancestors(ns, n) = up[MaxNode]
  BY WayUp
<1>2. /\ up[0] = {n} \cap DOMAIN ns
      /\ \A k \in 1..MaxNode : up[k] = up[k - 1] \cup ({ns[m].parent : m \in up[k - 1]} \cap DOMAIN ns)
  <2>1. up[0] = {n} \cap DOMAIN ns
    <3>1. 0 \in 0..MaxNode
      BY <1>0
    <3> QED BY <1>1, <3>1 DEF UpFrom
  <2>2. ASSUME NEW k \in 1..MaxNode
        PROVE  up[k] = up[k - 1] \cup ({ns[m].parent : m \in up[k - 1]} \cap DOMAIN ns)
    <3>1. k \in 0..MaxNode /\ k # 0
      BY <1>0
    <3> QED BY <1>1, <3>1 DEF UpFrom
  <2> QED BY <2>1, <2>2
<1> DEFINE Bad == {k \in Nat : k <= MaxNode /\ ~(up[k] \subseteq NodesOf(ns, t))}
<1>3. ASSUME Bad # {} PROVE FALSE
  <2>1. PICK k \in Bad : \A j \in Bad : k <= j
    <3>1. Bad \in SUBSET Nat
      OBVIOUS
    <3> HIDE DEF Bad
    <3> QED BY <1>3, <3>1, Least
  <2>2. up[0] \subseteq NodesOf(ns, t)
    BY <1>2
  <2>3. k \in 1..MaxNode /\ k - 1 \in Nat /\ k - 1 <= MaxNode /\ k - 1 \notin Bad
    <3>1. k # 0 /\ k \in Nat /\ k <= MaxNode
      BY <2>1, <2>2
    <3>2. ~(k <= k - 1)
      BY <3>1
    <3> QED BY <1>0, <2>1, <3>1, <3>2
  <2>4. up[k - 1] \subseteq NodesOf(ns, t)
    BY <2>3
  <2>5. ASSUME NEW m \in up[k - 1], ns[m].parent \in DOMAIN ns PROVE ns[m].parent \in NodesOf(ns, t)
    <3>1. m \in DOMAIN ns /\ ns[m].thread = t /\ ns[m].parent # 0
      BY <2>4, <2>5 DEF NodesOf
    <3> QED BY <2>5, <3>1 DEF Rooted, NodesOf
  <2>6. up[k] \subseteq NodesOf(ns, t)
    BY <1>2, <2>3, <2>4, <2>5
  <2> QED BY <2>1, <2>6
<1>4. up[MaxNode] \subseteq NodesOf(ns, t)
  BY <1>0, <1>3
<1> QED BY <1>1, <1>4

LEMMA BackupReaches == ASSUME BackupInv PROVE CursorsReachRoots
<1>0. BackupTypes /\ Rooted(nodes) /\ AtOwnNodes(threads, nodes)
  BY DEF BackupInv
<1> SUFFICES ASSUME NEW t \in DOMAIN threads, threads[t].leaf # 0
             PROVE  /\ threads[t].leaf \in NodesOf(nodes, t)
                    /\ \A n \in Ancestors(nodes, threads[t].leaf) :
                         nodes[n].parent # 0 =>
                           nodes[n].parent \in NodesOf(nodes, t) /\ nodes[nodes[n].parent].seq < nodes[n].seq
  BY DEF CursorsReachRoots
<1>1. threads[t].leaf \in NodesOf(nodes, t)
  BY <1>0 DEF AtOwnNodes
<1>2. 0 \notin DOMAIN nodes
  BY <1>0 DEF BackupTypes, NodeTable, NodeId
<1>3. Ancestors(nodes, threads[t].leaf) \subseteq NodesOf(nodes, t)
  BY <1>0, <1>1, <1>2, WayUpStays
<1>4. ASSUME NEW n \in Ancestors(nodes, threads[t].leaf), nodes[n].parent # 0
      PROVE  nodes[n].parent \in NodesOf(nodes, t) /\ nodes[nodes[n].parent].seq < nodes[n].seq
  <2>1. n \in DOMAIN nodes /\ nodes[n].thread = t
    BY <1>3 DEF NodesOf
  <2> QED BY <1>0, <1>4, <2>1 DEF Rooted, NodesOf
<1> QED BY <1>1, <1>4

\* A node below a node of its thread, or a new root, keeps the forest in order.
LEMMA AppendKeeps ==
  ASSUME BackupInv, NEW t \in DOMAIN threads, NEW p \in 0..MaxNode, AppendBelow(t, p),
         p # 0 => p \in NodesOf(nodes, t)
  PROVE  BackupInv'
<1>0. /\ BackupTypes /\ Rooted(nodes) /\ AtOwnNodes(threads, nodes)
      /\ ThreadTable(threads) /\ NodeTable(nodes) /\ MaxNode \in Nat
  BY BackupAssumption DEF BackupInv, BackupTypes
<1>1. PICK id : id = CHOOSE n \in NodeId \ DOMAIN nodes : TRUE
  OBVIOUS
<1>2. id \in NodeId /\ id \notin DOMAIN nodes
  BY <1>1 DEF AppendBelow
<1> DEFINE seqs == {nodes[n].seq : n \in NodesOf(nodes, t)}
<1>3. PICK s : s = IF seqs = {} THEN 1 ELSE Max(seqs) + 1
  OBVIOUS
<1>4. PICK row : row = [thread |-> t, parent |-> p, seq |-> s]
  OBVIOUS
<1>5. /\ s \in NodeId
      /\ nodes' = [n \in DOMAIN nodes \cup {id} |-> IF n = id THEN row ELSE nodes[n]]
      /\ threads' = [threads EXCEPT ![t].leaf = id]
      /\ UNCHANGED file /\ exporting' = [exporting EXCEPT !.torn = @ \/ exporting.read # "nothing"]
  BY <1>1, <1>3, <1>4 DEF AppendBelow, Step
<1>6. \A n \in NodesOf(nodes, t) : nodes[n].seq < s
  <2>1. seqs \in SUBSET (0..MaxNode)
    <3>1. \A n \in DOMAIN nodes : nodes[n].seq \in 1..MaxNode
      BY <1>0 DEF NodeTable, NodeRow
    <3> QED BY <1>0, <3>1 DEF NodesOf
  <2>2. ASSUME seqs # {} PROVE \A y \in seqs : y < s
    <3>1. PICK x \in seqs : \A y \in seqs : y <= x
      <4> HIDE DEF seqs
      <4> QED BY <1>0, <2>1, <2>2, Greatest
    <3>2. Max(seqs) \in seqs /\ \A y \in seqs : y <= Max(seqs)
      <4>1. \A y \in seqs : x >= y
        BY <2>1, <3>1
      <4> HIDE DEF seqs
      <4>2. PICK z : z = CHOOSE a \in seqs : \A y \in seqs : a >= y
        OBVIOUS
      <4>3. z \in seqs /\ \A y \in seqs : z >= y
        BY <3>1, <4>1, <4>2
      <4>4. Max(seqs) = z
        BY <4>2 DEF Max
      <4> QED BY <2>1, <4>3, <4>4
    <3> HIDE DEF seqs
    <3>3. s = Max(seqs) + 1
      BY <1>3, <2>2
    <3>4. PICK z \in 0..MaxNode : z = Max(seqs)
      BY <2>1, <3>2
    <3>5. s = z + 1 /\ \A y \in seqs : y \in 0..MaxNode /\ y <= z
      BY <2>1, <3>2, <3>3, <3>4
    <3> QED BY <3>4, <3>5
  <2> QED BY <2>2
<1>7. /\ DOMAIN nodes' = DOMAIN nodes \cup {id} /\ nodes'[id] = row
      /\ \A n \in DOMAIN nodes : nodes'[n] = nodes[n]
  BY <1>2, <1>5
<1>8. row.thread = t /\ row.parent = p /\ row.seq = s /\ row \in NodeRow
  <2>1. t \in Thread
    BY <1>0 DEF ThreadTable
  <2> QED BY <1>4, <1>5, <2>1 DEF NodeRow, NodeId
<1>9. NodeTable(nodes')
  <2>1. \A n \in DOMAIN nodes' : nodes'[n] \in NodeRow
    BY <1>0, <1>7, <1>8 DEF NodeTable
  <2>2. nodes' = [n \in DOMAIN nodes' |-> nodes'[n]]
    BY <1>5
  <2>3. DOMAIN nodes' \subseteq NodeId
    BY <1>0, <1>2, <1>7 DEF NodeTable
  <2> QED BY <2>1, <2>2, <2>3 DEF NodeTable
<1>10. /\ DOMAIN threads' = DOMAIN threads /\ threads'[t].leaf = id
       /\ \A x \in DOMAIN threads : x # t => threads'[x] = threads[x]
  BY <1>0, <1>5 DEF ThreadTable, ThreadRow
<1>11. ThreadTable(threads')
  <2>1. id \in 0..MaxNode
    BY <1>0, <1>2 DEF NodeId
  <2>2. threads' \in [DOMAIN threads -> ThreadRow]
    BY <1>0, <1>5, <2>1 DEF ThreadTable, ThreadRow
  <2> QED BY <1>0, <1>10, <2>2 DEF ThreadTable
<1>12. BackupTypes'
  BY <1>0, <1>5, <1>9, <1>11 DEF BackupTypes
<1>13. Rooted(nodes')
  <2> SUFFICES ASSUME NEW n \in DOMAIN nodes', nodes'[n].parent # 0
               PROVE  /\ nodes'[n].parent \in DOMAIN nodes'
                      /\ nodes'[nodes'[n].parent].thread = nodes'[n].thread
                      /\ nodes'[nodes'[n].parent].seq < nodes'[n].seq
    BY DEF Rooted
  <2>1. CASE n = id
    <3>1. nodes'[n].parent = p /\ p \in DOMAIN nodes /\ nodes[p].thread = t /\ nodes[p].seq < s
      BY <1>6, <1>7, <1>8, <2>1 DEF NodesOf
    <3> QED BY <1>7, <1>8, <2>1, <3>1
  <2>2. CASE n # id
    <3>1. n \in DOMAIN nodes /\ nodes'[n] = nodes[n]
      BY <1>7, <2>2
    <3>2. nodes[n].parent \in DOMAIN nodes /\ nodes[nodes[n].parent].thread = nodes[n].thread
          /\ nodes[nodes[n].parent].seq < nodes[n].seq
      BY <1>0, <3>1 DEF Rooted
    <3> QED BY <1>7, <3>1, <3>2
  <2> QED BY <2>1, <2>2
<1>14. AtOwnNodes(threads', nodes')
  <2>1. \A x, n : n \in NodesOf(nodes, x) => n \in NodesOf(nodes', x)
    BY <1>7 DEF NodesOf
  <2>2. id \in NodesOf(nodes', t)
    BY <1>7, <1>8 DEF NodesOf
  <2> QED BY <1>0, <1>10, <2>1, <2>2 DEF AtOwnNodes
<1> QED BY <1>12, <1>13, <1>14 DEF BackupInv

LEMMA BackupBegins == ASSUME BackupInit PROVE BackupInv
<1>1. DOMAIN NoTable = {} /\ NoTable \in [{} -> ThreadRow] /\ NoTable \in [{} -> NodeRow]
  BY DEF NoTable
<1>2. ThreadTable(NoTable) /\ NodeTable(NoTable)
  BY <1>1 DEF ThreadTable, NodeTable
<1>3. BackupTypes
  BY <1>2 DEF BackupInit, BackupTypes, NoFile, NotExporting
<1>4. Rooted(nodes) /\ AtOwnNodes(threads, nodes)
  BY <1>1 DEF BackupInit, Rooted, AtOwnNodes
<1> QED BY <1>3, <1>4 DEF BackupInv

LEMMA BackupStep == ASSUME BackupInv, [BackupNext]_backupVars PROVE BackupInv'
<1>0. /\ BackupTypes /\ Rooted(nodes) /\ AtOwnNodes(threads, nodes)
      /\ ThreadTable(threads) /\ NodeTable(nodes) /\ ThreadTable(file.threads) /\ NodeTable(file.nodes)
      /\ MaxNode \in Nat
  BY BackupAssumption DEF BackupInv, BackupTypes
<1>1. 0 \notin DOMAIN nodes
  BY <1>0 DEF NodeTable, NodeId
<1>2. ASSUME NEW t \in Thread, NEW source \in Thread \cup {NoThread}, CreateThread(t, source)
      PROVE  BackupInv'
  <2>1. PICK row : row = [parent |-> source, leaf |-> 0]
    OBVIOUS
  <2>2. /\ threads' = [x \in DOMAIN threads \cup {t} |-> IF x = t THEN row ELSE threads[x]]
        /\ t \notin DOMAIN threads /\ UNCHANGED <<nodes, file>>
        /\ exporting' = [exporting EXCEPT !.torn = @ \/ exporting.read # "nothing"]
    BY <1>2, <2>1 DEF CreateThread, Step
  <2>3. row \in ThreadRow /\ row.leaf = 0
    BY <1>0, <2>1 DEF ThreadRow
  <2>4. ThreadTable(threads')
    <3>1. \A x \in DOMAIN threads' : threads'[x] \in ThreadRow
      BY <1>0, <2>2, <2>3 DEF ThreadTable
    <3>2. DOMAIN threads' \subseteq Thread /\ threads' = [x \in DOMAIN threads' |-> threads'[x]]
      BY <1>0, <2>2 DEF ThreadTable
    <3> QED BY <3>1, <3>2 DEF ThreadTable
  <2>5. BackupTypes'
    BY <1>0, <2>2, <2>4 DEF BackupTypes
  <2>6. AtOwnNodes(threads', nodes')
    BY <1>0, <2>2, <2>3 DEF AtOwnNodes
  <2> QED BY <1>0, <2>2, <2>5, <2>6 DEF BackupInv
<1>3. ASSUME NEW t \in Thread, RemoveThread(t) PROVE BackupInv'
  <2>1. /\ threads' = [x \in DOMAIN threads \ {t} |-> threads[x]]
        /\ nodes' = [n \in DOMAIN nodes \ NodesOf(nodes, t) |-> nodes[n]]
        /\ UNCHANGED file
        /\ exporting' = [exporting EXCEPT !.torn = @ \/ exporting.read # "nothing"]
    BY <1>3 DEF RemoveThread, Step
  <2>2. ThreadTable(threads') /\ NodeTable(nodes')
    BY <1>0, <2>1 DEF ThreadTable, NodeTable
  <2>3. BackupTypes'
    BY <1>0, <2>1, <2>2 DEF BackupTypes
  <2>4. \A n : n \in DOMAIN nodes' <=> n \in DOMAIN nodes /\ nodes[n].thread # t
    BY <2>1 DEF NodesOf
  <2>5. \A n \in DOMAIN nodes' : nodes'[n] = nodes[n]
    BY <2>1
  <2>6. Rooted(nodes')
    BY <1>0, <2>4, <2>5 DEF Rooted
  <2>7. AtOwnNodes(threads', nodes')
    <3> SUFFICES ASSUME NEW x \in DOMAIN threads', threads'[x].leaf # 0
                 PROVE  threads'[x].leaf \in NodesOf(nodes', x)
      BY DEF AtOwnNodes
    <3>1. x \in DOMAIN threads /\ x # t /\ threads'[x] = threads[x]
      BY <2>1
    <3>2. threads[x].leaf \in DOMAIN nodes /\ nodes[threads[x].leaf].thread = x
      BY <1>0, <3>1 DEF AtOwnNodes, NodesOf
    <3> QED BY <2>4, <2>5, <3>1, <3>2 DEF NodesOf
  <2> QED BY <2>3, <2>6, <2>7 DEF BackupInv
<1>4. ASSUME NEW t \in Thread, AppendTurn(t) PROVE BackupInv'
  <2>1. t \in DOMAIN threads /\ AppendBelow(t, threads[t].leaf)
    BY <1>4 DEF AppendTurn
  <2>2. threads[t].leaf \in 0..MaxNode /\ (threads[t].leaf # 0 => threads[t].leaf \in NodesOf(nodes, t))
    BY <1>0, <2>1 DEF AtOwnNodes, ThreadTable, ThreadRow
  <2> QED BY <2>1, <2>2, AppendKeeps
<1>5. ASSUME NEW t \in Thread, EditMessage(t) PROVE BackupInv'
  <2>1. t \in DOMAIN threads
    BY <1>5 DEF EditMessage
  <2>2. PICK n \in Ancestors(nodes, threads[t].leaf) : AppendBelow(t, nodes[n].parent)
    BY <1>5 DEF EditMessage
  <2>3. n \in DOMAIN nodes /\ nodes[n].thread = t
    <3>1. threads[t].leaf # 0 => threads[t].leaf \in NodesOf(nodes, t)
      BY <1>0, <2>1 DEF AtOwnNodes
    <3>2. Ancestors(nodes, threads[t].leaf) \subseteq NodesOf(nodes, t)
      BY <1>0, <1>1, <3>1, WayUpStays
    <3> QED BY <3>2 DEF NodesOf
  <2>4. nodes[n].parent \in 0..MaxNode /\ (nodes[n].parent # 0 => nodes[n].parent \in NodesOf(nodes, t))
    <3>1. nodes[n].parent \in 0..MaxNode
      BY <1>0, <2>3 DEF NodeTable, NodeRow
    <3> QED BY <1>0, <2>3, <3>1 DEF Rooted, NodesOf
  <2> QED BY <2>1, <2>2, <2>4, AppendKeeps
<1>6. CASE ReadFirst
  <2>1. UNCHANGED <<threads, nodes, file>>
        /\ (exporting' = [read |-> "threads", table |-> threads, torn |-> FALSE]
            \/ exporting' = [read |-> "nodes", table |-> nodes, torn |-> FALSE])
    BY <1>6 DEF ReadFirst
  <2>2. BackupTypes'
    BY <1>0, <2>1 DEF BackupTypes
  <2> QED BY <1>0, <2>1, <2>2 DEF BackupInv
<1>7. CASE WriteExport
  <2>1. PICK ts : ts = IF exporting.read = "threads" THEN exporting.table ELSE threads
    OBVIOUS
  <2>2. PICK ns : ns = IF exporting.read = "nodes" THEN exporting.table ELSE nodes
    OBVIOUS
  <2>3. ThreadTable(ts) /\ NodeTable(ns)
    BY <1>0, <2>1, <2>2 DEF BackupTypes
  <2>4. /\ UNCHANGED <<threads, nodes>> /\ exporting' = NotExporting
        /\ file' = [threads |-> ts, nodes |-> ns, own |-> TRUE, torn |-> exporting.torn]
    BY <1>7, <2>1, <2>2 DEF WriteExport
  <2>5. file'.threads = ts /\ file'.nodes = ns /\ exporting'.read = "nothing"
    BY <2>4 DEF NotExporting
  <2>6. BackupTypes'
    BY <1>0, <2>3, <2>4, <2>5 DEF BackupTypes
  <2> QED BY <1>0, <2>4, <2>6 DEF BackupInv
<1>8. CASE OfferFile
  <2>1. PICK ts \in Tables([parent : Thread \cup {NoThread}, leaf : OfferedNodes \cup {0}], Thread),
             ns \in Tables([thread : Thread, parent : OfferedNodes \cup {0}, seq : OfferedNodes],
                           OfferedNodes) :
          file' = [threads |-> ts, nodes |-> ns, own |-> FALSE, torn |-> FALSE]
    BY <1>8 DEF OfferFile
  <2>2. UNCHANGED <<threads, nodes, exporting>>
    BY <1>8 DEF OfferFile
  <2>3. OfferedNodes \subseteq 1..MaxNode
    BY BackupAssumption
  <2>4. ThreadTable(ts)
    <3>1. PICK T \in SUBSET Thread : ts \in [T -> [parent : Thread \cup {NoThread}, leaf : OfferedNodes \cup {0}]]
      <4> DEFINE R == [parent : Thread \cup {NoThread}, leaf : OfferedNodes \cup {0}]
      <4>1. \E X \in {[T -> R] : T \in SUBSET Thread} : ts \in X
        <5> HIDE DEF R
        <5>1. ts \in Tables(R, Thread)
          BY <2>1 DEF R
        <5> QED BY <5>1 DEF Tables
      <4> HIDE DEF R
      <4>2. \E T \in SUBSET Thread : ts \in [T -> R]
        BY <4>1
      <4> QED BY <4>2 DEF R
    <3>2. [parent : Thread \cup {NoThread}, leaf : OfferedNodes \cup {0}] \subseteq ThreadRow
      <4>1. OfferedNodes \cup {0} \subseteq 0..MaxNode
        BY <1>0, <2>3
      <4> QED BY <4>1 DEF ThreadRow
    <3> QED BY <3>1, <3>2 DEF ThreadTable
  <2>5. NodeTable(ns)
    <3>1. PICK N \in SUBSET OfferedNodes :
            ns \in [N -> [thread : Thread, parent : OfferedNodes \cup {0}, seq : OfferedNodes]]
      <4> DEFINE R == [thread : Thread, parent : OfferedNodes \cup {0}, seq : OfferedNodes]
      <4>1. \E X \in {[N -> R] : N \in SUBSET OfferedNodes} : ns \in X
        <5> HIDE DEF R
        <5>1. ns \in Tables(R, OfferedNodes)
          BY <2>1 DEF R
        <5> QED BY <5>1 DEF Tables
      <4> HIDE DEF R
      <4>2. \E N \in SUBSET OfferedNodes : ns \in [N -> R]
        BY <4>1
      <4> QED BY <4>2 DEF R
    <3>2. [thread : Thread, parent : OfferedNodes \cup {0}, seq : OfferedNodes] \subseteq NodeRow
      <4>1. OfferedNodes \cup {0} \subseteq 0..MaxNode
        BY <1>0, <2>3
      <4> QED BY <2>3, <4>1 DEF NodeRow
    <3> QED BY <2>3, <3>1, <3>2 DEF NodeTable, NodeId
  <2>6. file'.threads = ts /\ file'.nodes = ns
    BY <2>1
  <2>7. BackupTypes'
    BY <1>0, <2>2, <2>4, <2>5, <2>6 DEF BackupTypes
  <2> QED BY <1>0, <2>2, <2>7 DEF BackupInv
<1>9. CASE ImportFile
  <2>1. file' = NoFile /\ UNCHANGED exporting
    BY <1>9 DEF ImportFile
  <2>2. ThreadTable(NoFile.threads) /\ NodeTable(NoFile.nodes)
    <3>1. DOMAIN NoTable = {} /\ NoTable \in [{} -> ThreadRow] /\ NoTable \in [{} -> NodeRow]
      BY DEF NoTable
    <3> QED BY <3>1 DEF NoFile, ThreadTable, NodeTable
  <2>3. CASE Valid(file)
    <3>1. threads' = file.threads /\ nodes' = file.nodes
      BY <1>9, <2>3 DEF ImportFile
    <3>2. BackupTypes'
      BY <1>0, <2>1, <2>2, <3>1 DEF BackupTypes
    <3>3. NodesValid(file.threads, file.nodes)
          /\ \A t \in DOMAIN file.threads : LeafValid(file.threads, file.nodes, t)
      BY <2>3 DEF Valid
    <3>4. Rooted(file.nodes)
      BY <3>3 DEF NodesValid, Rooted
    <3>5. AtOwnNodes(file.threads, file.nodes)
      BY <3>3 DEF LeafValid, AtOwnNodes
    <3> QED BY <3>1, <3>2, <3>4, <3>5 DEF BackupInv
  <2>4. CASE ~Valid(file)
    <3>1. UNCHANGED <<threads, nodes>>
      BY <1>9, <2>4 DEF ImportFile
    <3>2. BackupTypes'
      BY <1>0, <2>1, <2>2, <3>1 DEF BackupTypes
    <3> QED BY <1>0, <3>1, <3>2 DEF BackupInv
  <2> QED BY <2>3, <2>4
<1>10. CASE UNCHANGED backupVars
  BY <1>0, <1>10 DEF BackupInv, BackupTypes
<1> QED BY <1>2, <1>3, <1>4, <1>5, <1>6, <1>7, <1>8, <1>9, <1>10 DEF BackupNext

-------------------------------------------------------------------------------
(****************************************************************************)
(* What an import has restored: until the next save every credential is in the  *)
(* envelope the import made for it, sealed for what it is now bound to.         *)
(****************************************************************************)
VaultInv ==
  /\ envelope \in [Credential -> Envelope \cup {Nothing}] /\ localKey \in 0..MaxKeys
  /\ keysMade \in 0..MaxKeys
  /\ \A w \in Sealer : sealer[w].at # "idle" => sealer[w].key \in 1..MaxKeys
  /\ sealer \in [Sealer -> [at : {"idle", "storing", "sealing"}, key : 0..MaxKeys]]
  /\ importing \in [at : {"none", "materialized", "vetted"}, key : 0..MaxKeys, made : BOOLEAN]
  /\ importing.at # "none" => importing.key \in 1..MaxKeys /\ backup # Nothing
  /\ backup # Nothing => \A c \in Credential : backup.secrets[c] \in Value \cup {Nothing}
  /\ restored # Nothing =>
       /\ bound = restored.bound
       /\ \A c \in Credential : restored.secrets[c] # Nothing =>
            /\ envelope[c] # Nothing /\ envelope[c].value = restored.secrets[c]
            /\ envelope[c].purpose = PurposeOf(c, bound)

LEMMA SealIs ==
  ASSUME NEW v \in Value, NEW c \in Credential, NEW b, NEW k \in 1..MaxKeys
  PROVE  /\ Seal(v, PurposeOf(c, b), k) \in Envelope /\ Seal(v, PurposeOf(c, b), k) # Nothing
         /\ Seal(v, PurposeOf(c, b), k).value = v
         /\ Seal(v, PurposeOf(c, b), k).purpose = PurposeOf(c, b)
<1>1. PurposeOf(c, b) \in Credential \X {"bound", "server"}
  BY DEF PurposeOf
<1>2. Seal(v, PurposeOf(c, b), k) \in Envelope
  BY <1>1 DEF Seal, Envelope
<1> QED BY <1>2, VaultAssumption DEF Seal

LEMMA VaultBegins == ASSUME VaultInit PROVE VaultInv
<1>1. MaxKeys \in Nat
  BY VaultAssumption
<1> QED BY <1>1 DEF VaultInit, VaultInv, IdleSealer, NotImporting

LEMMA VaultStep == ASSUME VaultInv, [VaultNext]_vaultVars PROVE VaultInv'
<1>0. MaxKeys \in Nat
  BY VaultAssumption
<1>1. ASSUME NEW w \in Sealer, BeginSeal(w) PROVE VaultInv'
  <2>1. UNCHANGED <<bound, envelope, localKey, backup, importing, restored>>
    BY <1>1 DEF BeginSeal
  <2>2. CASE localKey # 0 /\ sealer' = [sealer EXCEPT ![w] = [at |-> "sealing", key |-> localKey]]
             /\ UNCHANGED keysMade
    <3>1. localKey \in 1..MaxKeys
      BY <1>0, <2>2 DEF VaultInv
    <3>2. sealer' \in [Sealer -> [at : {"idle", "storing", "sealing"}, key : 0..MaxKeys]]
      BY <2>2 DEF VaultInv
    <3>3. \A x \in Sealer : sealer'[x].at # "idle" => sealer'[x].key \in 1..MaxKeys
      BY <2>2, <3>1 DEF VaultInv
    <3> QED BY <2>1, <2>2, <3>2, <3>3 DEF VaultInv
  <2>3. CASE keysMade < MaxKeys /\ keysMade' = keysMade + 1
             /\ sealer' = [sealer EXCEPT ![w] = [at |-> "storing", key |-> keysMade + 1]]
    <3>1. keysMade + 1 \in 1..MaxKeys /\ keysMade' \in 0..MaxKeys /\ keysMade + 1 \in 0..MaxKeys
      BY <1>0, <2>3 DEF VaultInv
    <3>2. sealer' \in [Sealer -> [at : {"idle", "storing", "sealing"}, key : 0..MaxKeys]]
      BY <2>3, <3>1 DEF VaultInv
    <3>3. \A x \in Sealer : sealer'[x].at # "idle" => sealer'[x].key \in 1..MaxKeys
      BY <2>3, <3>1 DEF VaultInv
    <3> QED BY <2>1, <3>1, <3>2, <3>3 DEF VaultInv
  <2> QED BY <1>1, <2>2, <2>3 DEF BeginSeal
<1>2. ASSUME NEW w \in Sealer, StoreKey(w) PROVE VaultInv'
  <2>1. UNCHANGED <<bound, envelope, keysMade, backup, importing, restored>>
        /\ localKey' = sealer[w].key /\ sealer[w].at = "storing"
        /\ sealer' = [sealer EXCEPT ![w].at = "sealing"]
    BY <1>2 DEF StoreKey
  <2>2. localKey' \in 0..MaxKeys
    BY <2>1 DEF VaultInv
  <2>3. sealer' \in [Sealer -> [at : {"idle", "storing", "sealing"}, key : 0..MaxKeys]]
    BY <2>1 DEF VaultInv
  <2>4. \A x \in Sealer : sealer'[x].at # "idle" => sealer'[x].key \in 1..MaxKeys
    BY <2>1 DEF VaultInv
  <2> QED BY <2>1, <2>2, <2>3, <2>4 DEF VaultInv
<1>3. ASSUME NEW w \in Sealer, NEW c \in Credential, NEW v \in Value, SaveCredential(w, c, v)
      PROVE  VaultInv'
  <2>1. /\ sealer[w].at = "sealing" /\ sealer' = [sealer EXCEPT ![w] = IdleSealer]
        /\ envelope' = [envelope EXCEPT ![c] = Seal(v, PurposeOf(c, bound), sealer[w].key)]
        /\ restored' = Nothing /\ UNCHANGED <<bound, localKey, keysMade, backup, importing>>
    BY <1>3 DEF SaveCredential
  <2>2. Seal(v, PurposeOf(c, bound), sealer[w].key) \in Envelope
    <3>1. sealer[w].key \in 1..MaxKeys
      BY <2>1 DEF VaultInv
    <3> QED BY <3>1, SealIs
  <2>3. envelope' \in [Credential -> Envelope \cup {Nothing}]
    BY <2>1, <2>2 DEF VaultInv
  <2>4. sealer' \in [Sealer -> [at : {"idle", "storing", "sealing"}, key : 0..MaxKeys]]
    BY <1>0, <2>1 DEF VaultInv, IdleSealer
  <2>5. \A x \in Sealer : sealer'[x].at # "idle" => sealer'[x].key \in 1..MaxKeys
    BY <2>1 DEF VaultInv, IdleSealer
  <2> QED BY <2>1, <2>3, <2>4, <2>5 DEF VaultInv
<1>4. CASE ExportSecrets
  <2>1. UNCHANGED <<bound, envelope, localKey, sealer, keysMade, importing, restored>>
        /\ importing = NotImporting
    BY <1>4 DEF ExportSecrets
  <2>2. backup'.secrets = [c \in Credential |-> IF Readable(c) /\ (c = "refresh" => bound)
                                                THEN envelope[c].value ELSE Nothing]
    BY <1>4 DEF ExportSecrets
  <2>3. \A c \in Credential : backup'.secrets[c] \in Value \cup {Nothing}
    <3>1. \A c \in Credential : Readable(c) => envelope[c].value \in Value
      BY DEF VaultInv, Readable, OpensWith, Envelope
    <3> QED BY <2>2, <3>1
  <2> QED BY <2>1, <2>3 DEF VaultInv, NotImporting
<1>5. CASE CloseBrowser \/ NewProfile
  <2>1. /\ importing' = NotImporting /\ sealer' = [w \in Sealer |-> IdleSealer]
        /\ UNCHANGED <<keysMade, backup>>
    BY <1>5 DEF CloseBrowser, NewProfile
  <2>2. importing' \in [at : {"none", "materialized", "vetted"}, key : 0..MaxKeys, made : BOOLEAN]
        /\ importing'.at = "none"
    BY <1>0, <2>1 DEF NotImporting
  <2>3. sealer' \in [Sealer -> [at : {"idle", "storing", "sealing"}, key : 0..MaxKeys]]
        /\ \A x \in Sealer : sealer'[x].at = "idle"
    BY <1>0, <2>1 DEF IdleSealer
  <2>4. CASE CloseBrowser
    <3>1. UNCHANGED <<bound, envelope, localKey, restored>>
      BY <2>4 DEF CloseBrowser
    <3> QED BY <2>1, <2>2, <2>3, <3>1 DEF VaultInv
  <2>5. CASE NewProfile
    <3>1. localKey' = 0 /\ envelope' = [c \in Credential |-> Nothing] /\ restored' = Nothing
      BY <2>5 DEF NewProfile
    <3>2. envelope' \in [Credential -> Envelope \cup {Nothing}] /\ localKey' \in 0..MaxKeys
      BY <1>0, <3>1
    <3> QED BY <2>1, <2>2, <2>3, <3>1, <3>2 DEF VaultInv
  <2> QED BY <1>5, <2>4, <2>5
<1>6. CASE Materialize
  <2>1. UNCHANGED <<bound, envelope, localKey, sealer, backup, restored>> /\ backup # Nothing
    BY <1>6 DEF Materialize
  <2>2. CASE localKey # 0 /\ UNCHANGED keysMade
             /\ importing' = [at |-> "materialized", key |-> localKey, made |-> FALSE]
    <3>1. localKey \in 1..MaxKeys /\ localKey \in 0..MaxKeys
      BY <1>0, <2>2 DEF VaultInv
    <3> QED BY <2>1, <2>2, <3>1 DEF VaultInv
  <2>3. CASE keysMade < MaxKeys /\ keysMade' = keysMade + 1
             /\ importing' = [at |-> "materialized", key |-> keysMade + 1, made |-> TRUE]
    <3>1. keysMade + 1 \in 1..MaxKeys /\ keysMade' \in 0..MaxKeys /\ keysMade + 1 \in 0..MaxKeys
      BY <1>0, <2>3 DEF VaultInv
    <3> QED BY <2>1, <2>3, <3>1 DEF VaultInv
  <2> QED BY <1>6, <2>2, <2>3 DEF Materialize
<1>7. CASE Vet
  <2>1. UNCHANGED <<bound, envelope, localKey, sealer, keysMade, backup, restored>>
        /\ importing.at = "materialized"
        /\ importing' \in {[importing EXCEPT !.at = "vetted"], NotImporting}
    BY <1>7 DEF Vet
  <2>2. CASE importing' = [importing EXCEPT !.at = "vetted"]
    <3>1. /\ importing' \in [at : {"none", "materialized", "vetted"}, key : 0..MaxKeys, made : BOOLEAN]
          /\ importing'.key = importing.key
      BY <2>2 DEF VaultInv
    <3> QED BY <2>1, <3>1 DEF VaultInv
  <2>3. CASE importing' = NotImporting
    <3>1. importing' \in [at : {"none", "materialized", "vetted"}, key : 0..MaxKeys, made : BOOLEAN]
          /\ importing'.at = "none"
      BY <1>0, <2>3 DEF NotImporting
    <3> QED BY <2>1, <3>1 DEF VaultInv
  <2> QED BY <2>1, <2>2, <2>3
<1>8. CASE ApplyImport
  <2>1. /\ importing.at = "vetted" /\ importing' = NotImporting /\ bound' = backup.bound
        /\ envelope' = [c \in Credential |->
             IF backup.secrets[c] = Nothing THEN Nothing
             ELSE Seal(backup.secrets[c], PurposeOf(c, backup.bound), importing.key)]
        /\ localKey' = (IF importing.made THEN importing.key ELSE localKey)
        /\ restored' = backup /\ UNCHANGED <<sealer, keysMade, backup>>
    BY <1>8 DEF ApplyImport, ImportPurpose
  <2>2. /\ importing.key \in 1..MaxKeys
        /\ \A c \in Credential : backup.secrets[c] \in Value \cup {Nothing}
    BY <2>1 DEF VaultInv
  <2>3. ASSUME NEW c \in Credential
        PROVE  /\ envelope'[c] \in Envelope \cup {Nothing}
               /\ backup.secrets[c] # Nothing =>
                    /\ envelope'[c] # Nothing /\ envelope'[c].value = backup.secrets[c]
                    /\ envelope'[c].purpose = PurposeOf(c, backup.bound)
    <3>1. CASE backup.secrets[c] = Nothing
      BY <2>1, <3>1
    <3>2. CASE backup.secrets[c] # Nothing
      <4>1. backup.secrets[c] \in Value
        BY <2>2, <3>2
      <4>2. envelope'[c] = Seal(backup.secrets[c], PurposeOf(c, backup.bound), importing.key)
        BY <2>1, <3>2
      <4> QED BY <2>2, <4>1, <4>2, SealIs
    <3> QED BY <3>1, <3>2
  <2>4. envelope' \in [Credential -> Envelope \cup {Nothing}]
    <3>1. envelope' = [c \in Credential |-> envelope'[c]]
      BY <2>1
    <3> QED BY <2>3, <3>1
  <2>5. localKey' \in 0..MaxKeys
    BY <2>1, <2>2 DEF VaultInv
  <2>6. importing' \in [at : {"none", "materialized", "vetted"}, key : 0..MaxKeys, made : BOOLEAN]
        /\ importing'.at = "none"
    BY <1>0, <2>1 DEF NotImporting
  <2>7. \A c \in Credential : restored'.secrets[c] # Nothing =>
          /\ envelope'[c] # Nothing /\ envelope'[c].value = restored'.secrets[c]
          /\ envelope'[c].purpose = PurposeOf(c, bound')
    BY <2>1, <2>3
  <2> QED BY <2>1, <2>4, <2>5, <2>6, <2>7 DEF VaultInv, PurposeOf
<1>9. CASE UNCHANGED vaultVars
  BY <1>9 DEF VaultInv, PurposeOf
<1> QED BY <1>1, <1>2, <1>3, <1>4, <1>5, <1>6, <1>7, <1>8, <1>9 DEF VaultNext

LEMMA VaultOpens == ASSUME VaultInv PROVE ImportOpens
BY DEF VaultInv, ImportOpens, OpensWith

\* What a backup brings back can be gone on with: every cursor leads to a root through nodes
\* of its own thread, whatever file was let in and written on, and what an import has put in
\* place of the credentials opens to what was exported (src/data/importValidator.ts,
\* src/db/tree.ts, src/data/importSettings.ts).
THEOREM ImportsAreUsable == BackupSpec /\ VaultSpec => []ImportedIsUsable
<1>1. BackupInit => BackupInv
  BY BackupBegins
<1>2. BackupInv /\ [BackupNext]_backupVars => BackupInv'
  BY BackupStep
<1>3. VaultInit => VaultInv
  BY VaultBegins
<1>4. VaultInv /\ [VaultNext]_vaultVars => VaultInv'
  BY VaultStep
<1>5. BackupInv /\ VaultInv => ImportedIsUsable
  BY BackupReaches, VaultOpens DEF ImportedIsUsable
<1> QED BY <1>1, <1>2, <1>3, <1>4, <1>5, PTL DEF BackupSpec, VaultSpec
=============================================================================
