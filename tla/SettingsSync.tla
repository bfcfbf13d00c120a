---------------------------- MODULE SettingsSync ----------------------------
(* One list of settings in extension storage, as the model presets are:     *)
(* documents change it under a lock that all of them share                  *)
(* (settings/store.ts, storageUpdate), a document that merely reads an old  *)
(* list writes its new form back without the lock (presets.get), and a page *)
(* keeps a copy up to date (ui/useStorageValue.ts).                         *)
EXTENDS Naturals, Sequences

CONSTANTS Document, NoDocument,
          Entry,                 \* entries of the list
          MaxUpdates,            \* bound on the changes and old lists written back
          MaxMounts              \* bound on the times the page watches the list

ASSUME SettingsAssumption == NoDocument \notin Document /\ MaxUpdates \in Nat /\ MaxMounts \in Nat

VARIABLES
  list,        \* what storage holds: entries, and whether any is of the old form
  lock,        \* who holds the lock of this list
  editing,     \* what a document is at
  wanted,      \* the entries that the finished changes, one after another, leave
  overwritten, \* whether a list was written back over a later one
  updates,     \* how many changes and write-backs were begun
  changes,     \* notifications on their way to the page
  watching,    \* the page has a listener
  lifecycle, revision, snapshot,   \* of its store
  reads        \* its reads of storage under way

List == [entries : SUBSET Entry, legacy : BOOLEAN]
EmptyList == [entries |-> {}, legacy |-> FALSE]
AtRest == [does |-> "nothing", adds |-> FALSE, entries |-> {}, had |-> EmptyList]

storage == <<list, lock, editing, wanted, overwritten, updates>>
mirror == <<watching, lifecycle, revision, snapshot, reads>>
settingsVars == <<storage, changes, mirror>>

SettingsTypeOK ==
  /\ list \in List /\ lock \in Document \cup {NoDocument}
  /\ editing \in [Document -> [does : {"nothing", "read", "write", "writeBack"}, adds : BOOLEAN,
                               entries : SUBSET Entry, had : List]]
  /\ wanted \in SUBSET Entry /\ overwritten \in BOOLEAN /\ updates \in 0..MaxUpdates
  /\ changes \in Seq(List) /\ watching \in BOOLEAN
  /\ lifecycle \in 0..2 * MaxMounts /\ revision \in Nat /\ snapshot \in List
  /\ reads \subseteq [life : 1..2 * MaxMounts, rev : Nat, answered : BOOLEAN, value : List]

SettingsInit ==
  /\ list \in List /\ wanted = list.entries /\ overwritten = FALSE /\ updates = 0
  /\ lock = NoDocument /\ editing = [d \in Document |-> AtRest]
  /\ changes = <<>> /\ watching = FALSE /\ lifecycle = 0 /\ revision = 0
  /\ snapshot = EmptyList /\ reads = {}
-----------------------------------------------------------------------------
(* storageUpdate: read, change and write while holding the lock. *)

MutNoLock == TRUE
LockFree == lock = NoDocument

BeginUpdate(d, e, adds) ==
  /\ editing[d] = AtRest /\ LockFree /\ updates < MaxUpdates
  /\ lock' = d /\ updates' = updates + 1
  /\ editing' = [editing EXCEPT ![d] = [AtRest EXCEPT !.does = "read", !.adds = adds,
                                                      !.entries = {e}]]
  /\ UNCHANGED <<list, wanted, overwritten, changes, mirror>>

ReadForUpdate(d) ==
  /\ editing[d].does = "read"
  /\ editing' = [editing EXCEPT ![d].does = "write", ![d].had = list]
  /\ UNCHANGED <<list, lock, wanted, overwritten, updates, changes, mirror>>

Changed(entries, work) == IF work.adds THEN entries \cup work.entries ELSE entries \ work.entries

(* What was read, changed; upsert gives every entry its new form. *)
CommitUpdate(d) ==
  LET work == editing[d]
      new == [entries |-> Changed(work.had.entries, work), legacy |-> work.had.legacy /\ ~work.adds]
  IN /\ work.does = "write"
     /\ list' = new /\ changes' = Append(changes, new)
     /\ wanted' = Changed(wanted, work)
     /\ lock' = IF lock = d THEN NoDocument ELSE lock
     /\ editing' = [editing EXCEPT ![d] = AtRest]
     /\ UNCHANGED <<overwritten, updates, mirror>>

(* The change throws, as for a name already taken: nothing is written. *)
RefuseUpdate(d) ==
  /\ editing[d].does = "write"
  /\ lock' = IF lock = d THEN NoDocument ELSE lock
  /\ editing' = [editing EXCEPT ![d] = AtRest]
  /\ UNCHANGED <<list, wanted, overwritten, updates, changes, mirror>>

(* presets.get of a list of the old form. *)
GetLegacy(d) ==
  /\ editing[d] = AtRest /\ list.legacy /\ updates < MaxUpdates /\ updates' = updates + 1
  /\ editing' = [editing EXCEPT ![d] = [AtRest EXCEPT !.does = "writeBack", !.had = list]]
  /\ UNCHANGED <<list, lock, wanted, overwritten, changes, mirror>>

WriteBack(d) ==
  LET new == [editing[d].had EXCEPT !.legacy = FALSE]
  IN /\ editing[d].does = "writeBack"
     /\ list' = new /\ changes' = Append(changes, new)
     /\ overwritten' = (overwritten \/ new.entries # list.entries)
     /\ editing' = [editing EXCEPT ![d] = AtRest]
     /\ UNCHANGED <<lock, wanted, updates, mirror>>
-----------------------------------------------------------------------------
(* StorageExternalStore of the page. *)

(* The first subscriber starts it: a listener, and a read. *)
Start ==
  /\ ~watching /\ lifecycle < 2 * MaxMounts
  /\ watching' = TRUE /\ lifecycle' = lifecycle + 1
  /\ reads' = reads \cup {[life |-> lifecycle + 1, rev |-> revision, answered |-> FALSE,
                           value |-> EmptyList]}
  /\ UNCHANGED <<storage, changes, revision, snapshot>>

(* The last one leaving stops it. *)
StopWatching ==
  /\ watching /\ watching' = FALSE /\ lifecycle' = lifecycle + 1
  /\ UNCHANGED <<storage, changes, revision, snapshot, reads>>

Notify ==
  /\ changes # <<>> /\ changes' = Tail(changes)
  /\ IF watching THEN revision' = revision + 1 /\ snapshot' = Head(changes)
                 ELSE UNCHANGED <<revision, snapshot>>
  /\ UNCHANGED <<storage, watching, lifecycle, reads>>

StorageAnswers(r) ==
  /\ r \in reads /\ ~r.answered
  /\ reads' = (reads \ {r}) \cup {[r EXCEPT !.answered = TRUE, !.value = list]}
  /\ UNCHANGED <<storage, changes, watching, lifecycle, revision, snapshot>>

(* A read is used if the store was not stopped or notified meanwhile. *)
StillCurrent(r) == r.life = lifecycle /\ r.rev = revision

Hydrate(r) ==
  /\ r \in reads /\ r.answered
  /\ reads' = reads \ {r}
  /\ snapshot' = IF StillCurrent(r) THEN r.value ELSE snapshot
  /\ UNCHANGED <<storage, changes, watching, lifecycle, revision>>

SettingsNext ==
  \/ \E d \in Document : \/ \E e \in Entry, adds \in BOOLEAN : BeginUpdate(d, e, adds)
                         \/ ReadForUpdate(d) \/ CommitUpdate(d) \/ RefuseUpdate(d)
                         \/ GetLegacy(d) \/ WriteBack(d)
  \/ Start \/ StopWatching \/ Notify
  \/ \E r \in reads : StorageAnswers(r) \/ Hydrate(r)

SettingsSpec == SettingsInit /\ [][SettingsNext]_settingsVars
-----------------------------------------------------------------------------
(* Changes made under the lock are never lost to one another: storage holds *)
(* what they leave, one after another, unless a list of the old form was    *)
(* written back over a later one. And once its reads and notifications are  *)
(* done, a page that watches the list shows what storage holds.             *)
UpdatesKept ==
  /\ list.entries = wanted \/ overwritten
  /\ watching /\ changes = <<>> /\ (\A r \in reads : r.life # lifecycle) => snapshot = list
=============================================================================
