------------------------------ MODULE Attachments ------------------------------
(* Stored attachments (data/attachments.ts, data/quota.ts): uploads of the page,    *)
(* screenshots and texts of the tools, the messages that are linked to them, and    *)
(* the three that take them away: the settings page, the sweep over the budget in   *)
(* the offscreen document, and the deletion of a thread.                            *)
(*                                                                                  *)
(* A removal marks the row and the nodes that refer to it in one transaction, and   *)
(* deletes the row in the next step; the page or the document may be gone between    *)
(* the two, and the next start of the worker deletes what is left.                  *)
EXTENDS Integers, FiniteSets, Sequences

CONSTANTS
  Chat, NoChat,
  Budget,                        \* attachments that may be kept
  MaxFiles, MaxMessages, MaxSweeps  \* bounds

ASSUME AttachmentAssumption ==
  NoChat \notin Chat /\ {Budget, MaxFiles, MaxMessages, MaxSweeps} \subseteq Nat

VARIABLES
  chats,      \* stored threads
  active,     \* activeThreadIds, in their order
  rows,       \* the attachments table; files are numbered by createdAt
  stored,     \* attachments stored so far
  messages,   \* nodes that name an attachment
  waitingFor, \* pending steers that name one
  written,    \* node ids used
  uploading,  \* the thread a page has found for an upload it is about to store
  removing,   \* the attachment the settings page has marked
  sweep,      \* the sweep that runs in the offscreen document
  sweeps

attachmentVars == <<chats, active, rows, stored, messages, waitingFor, written, uploading, removing,
                    sweep, sweeps>>
tables == <<rows, messages>>
counts == <<stored, written>>

File == 1 .. MaxFiles
Files == DOMAIN rows
NoFile == 0
Idle == [spared |-> NoChat, todo |-> {}, over |-> 0, file |-> NoFile]
Row(c) == [chat |-> c, deleting |-> FALSE, refs |-> {}]
RowsWithout(fs) == [f \in Files \ fs |-> rows[f]]
Live(c) == \E i \in DOMAIN active : active[i] = c

AttachmentInit ==
  /\ chats = Chat /\ active = <<>> /\ rows = [f \in {} |-> 0] /\ stored = 0 /\ messages = {}
  /\ waitingFor = {} /\ written = 0 /\ uploading = NoChat /\ removing = NoFile /\ sweep = Idle
  /\ sweeps = 0

(* ------------------------------ storing ------------------------------ *)

Store(c) ==
  /\ stored < MaxFiles /\ stored' = stored + 1
  /\ rows' = [f \in Files \cup {stored + 1} |-> IF f \in Files THEN rows[f] ELSE Row(c)]

(* addUpload looks for the thread, then stores.                                     *)
FindThread(c) ==
  /\ uploading = NoChat /\ c \in chats /\ uploading' = c
  /\ UNCHANGED <<chats, active, tables, counts, waitingFor, removing, sweep, sweeps>>
AddUpload ==
  /\ uploading # NoChat /\ Store(uploading) /\ uploading' = NoChat
  /\ UNCHANGED <<chats, active, messages, waitingFor, written, removing, sweep, sweeps>>

Message(c, f, gone, linked) ==
  [id |-> written + 1, chat |-> c, file |-> f, evicted |-> FALSE, late |-> gone, linked |-> linked]

(* A screenshot, a page text or an artifact, named by the result of the tool only.   *)
ToolSaves(c) ==
  /\ Live(c) /\ written < MaxMessages /\ Store(c) /\ written' = written + 1
  /\ messages' = messages \cup {Message(c, stored + 1, FALSE, FALSE)}
  /\ UNCHANGED <<chats, active, waitingFor, uploading, removing, sweep, sweeps>>

(* ------------------------------ linking ------------------------------ *)

MutLastOnly(refs, n) == {n}
Linked(refs, n) == refs \cup {n}
(* linkAttachments: the row must be of the thread; being deleted does not matter.     *)
Link(c, f) ==
  /\ written < MaxMessages /\ written' = written + 1
  /\ f \in Files /\ rows[f].chat = c
  /\ rows' = [rows EXCEPT ![f].refs = Linked(@, written + 1)]

(* appendNodesAndTransition: the message and its links in one transaction.           *)
Submit(c, f) ==
  /\ c \in chats /\ Link(c, f) /\ messages' = messages \cup {Message(c, f, rows[f].deleting, TRUE)}
  /\ active' = IF Live(c) THEN active ELSE Append(active, c)
  /\ UNCHANGED <<chats, stored, waitingFor, uploading, removing, sweep, sweeps>>

(* acceptSteer links at once, materializeSteers writes the node later.               *)
SteerWith(c, f) ==
  /\ Live(c) /\ Link(c, f) /\ waitingFor' = waitingFor \cup {Message(c, f, FALSE, TRUE)}
  /\ UNCHANGED <<chats, active, stored, messages, uploading, removing, sweep, sweeps>>
WriteSteer(m) ==
  /\ m \in waitingFor /\ waitingFor' = waitingFor \ {m}
  /\ messages' = messages \cup
       {[m EXCEPT !.late = m.file \notin Files \/ rows[m.file].deleting]}
  /\ UNCHANGED <<chats, active, rows, counts, uploading, removing, sweep, sweeps>>

EndTurn(c) ==
  /\ \E i \in DOMAIN active :
       active[i] = c /\ active' = SubSeq(active, 1, i - 1) \o SubSeq(active, i + 1, Len(active))
  /\ waitingFor' = {m \in waitingFor : m.chat # c}
  /\ UNCHANGED <<chats, tables, counts, uploading, removing, sweep, sweeps>>

(* ------------------------------ removing ------------------------------ *)

(* AttachmentRepository.remove: its transaction, and the deletion after it.          *)
Marks(f) ==
  /\ rows' = [rows EXCEPT ![f].deleting = TRUE]
  /\ messages' = {IF m.id \in rows[f].refs THEN [m EXCEPT !.evicted = TRUE] ELSE m : m \in messages}

RemoveByUser(f) ==
  /\ removing = NoFile /\ f \in Files /\ Marks(f) /\ removing' = f
  /\ UNCHANGED <<chats, active, counts, waitingFor, uploading, sweep, sweeps>>
EraseByUser ==
  /\ removing # NoFile /\ rows' = RowsWithout({removing}) /\ removing' = NoFile
  /\ UNCHANGED <<chats, active, counts, messages, waitingFor, uploading, sweep, sweeps>>

(* The alarm names the first active thread; the list is read when the command arrives *)
(* in the document. Turns begin and end meanwhile.                                   *)
Alarm ==
  /\ sweep = Idle /\ sweeps < MaxSweeps /\ sweeps' = sweeps + 1
  /\ sweep' = [Idle EXCEPT !.spared = IF active = <<>> THEN NoChat ELSE Head(active), !.over = -1]
  /\ UNCHANGED <<chats, active, tables, counts, waitingFor, uploading, removing>>
Spares(spared) == {f \in Files : rows[f].chat # spared}
ReadList ==
  /\ sweep.over = -1
  /\ sweep' = IF Cardinality(Files) > Budget
              THEN [sweep EXCEPT !.todo = Spares(sweep.spared), !.over = Cardinality(Files) - Budget]
              ELSE Idle
  /\ UNCHANGED <<chats, active, tables, counts, waitingFor, uploading, removing, sweeps>>
SweepNext ==
  /\ sweep.over > 0 /\ sweep.file = NoFile
  /\ \E f \in sweep.todo :
       /\ \A g \in sweep.todo : f <= g
       /\ LET rest == [sweep EXCEPT !.todo = @ \ {f}, !.over = @ - 1]
          IN \/ f \in Files /\ Marks(f) /\ sweep' = [rest EXCEPT !.file = f]
             \/ f \notin Files /\ UNCHANGED tables /\ sweep' = rest
  /\ UNCHANGED <<chats, active, counts, waitingFor, uploading, removing, sweeps>>
SweepErase ==
  /\ sweep.file # NoFile /\ rows' = RowsWithout({sweep.file}) /\ sweep' = [sweep EXCEPT !.file = NoFile]
  /\ UNCHANGED <<chats, active, counts, messages, waitingFor, uploading, removing, sweeps>>
SweepEnds ==
  /\ sweep.file = NoFile /\ (sweep.over = 0 \/ (sweep.over > 0 /\ sweep.todo = {}))
  /\ sweep # Idle /\ sweep' = Idle
  /\ UNCHANGED <<chats, active, tables, counts, waitingFor, uploading, removing, sweeps>>

(* ThreadTree.deleteThread, once the turn of the thread is over.                     *)
DeleteThread(c) ==
  /\ c \in chats /\ ~Live(c) /\ chats' = chats \ {c}
  /\ rows' = RowsWithout({f \in Files : rows[f].chat = c})
  /\ messages' = {m \in messages : m.chat # c}
  /\ UNCHANGED <<active, counts, waitingFor, uploading, removing, sweep, sweeps>>

(* An import puts the conversations of a backup in place of all others, here the same *)
(* ones, and counts the links again (reconcileImportedAttachments).                   *)
Import ==
  /\ active = <<>> /\ messages # {}
  /\ LET here(m) == m.file \in Files /\ rows[m.file].chat = m.chat
     IN /\ messages' = {[m EXCEPT !.evicted = m.evicted \/ ~here(m),
                                  !.late = here(m) /\ rows[m.file].deleting] : m \in messages}
        /\ rows' = [f \in Files |-> [rows[f] EXCEPT !.refs = {m.id : m \in {n \in messages :
                                                              n.file = f /\ here(n)}}]]
  /\ UNCHANGED <<chats, active, counts, waitingFor, uploading, removing, sweep, sweeps>>

(* ------------------------------ dying ------------------------------ *)

PageCloses ==
  /\ uploading # NoChat \/ removing # NoFile
  /\ uploading' = NoChat /\ removing' = NoFile
  /\ UNCHANGED <<chats, active, tables, counts, waitingFor, sweep, sweeps>>
DocumentDies ==
  /\ sweep # Idle /\ sweep' = Idle
  /\ UNCHANGED <<chats, active, tables, counts, waitingFor, uploading, removing, sweeps>>
(* A start of the background worker: the turns of the earlier one are over or go on    *)
(* in the same threads; cleanupIncomplete deletes every marked row.                  *)
Cleanup ==
  /\ \E f \in Files : rows[f].deleting
  /\ rows' = RowsWithout({f \in Files : rows[f].deleting})
  /\ UNCHANGED <<chats, active, counts, messages, waitingFor, uploading, removing, sweep, sweeps>>

AttachmentNext ==
  \/ \E c \in Chat : \/ FindThread(c) \/ ToolSaves(c) \/ EndTurn(c) \/ DeleteThread(c)
                     \/ \E f \in File : Submit(c, f) \/ SteerWith(c, f)
  \/ \E f \in File : RemoveByUser(f)
  \/ \E m \in waitingFor : WriteSteer(m)
  \/ AddUpload \/ EraseByUser \/ Alarm \/ ReadList \/ SweepNext \/ SweepErase \/ SweepEnds
  \/ Import \/ PageCloses \/ DocumentDies \/ Cleanup

AttachmentSpec == AttachmentInit /\ [][AttachmentNext]_attachmentVars

(* ------------------------------ what holds ------------------------------ *)

Node == [id : 1 .. MaxMessages, chat : Chat, file : File, evicted : BOOLEAN, late : BOOLEAN,
         linked : BOOLEAN]
AttachmentTypeOK ==
  /\ chats \subseteq Chat /\ active \in Seq(Chat) /\ Len(active) <= Cardinality(Chat)
  /\ Files \subseteq File /\ stored \in 0 .. MaxFiles /\ written \in 0 .. MaxMessages
  /\ \A f \in Files : rows[f] \in [chat : Chat, deleting : BOOLEAN, refs : SUBSET (1 .. MaxMessages)]
  /\ messages \subseteq Node /\ waitingFor \subseteq Node
  /\ uploading \in Chat \cup {NoChat} /\ removing \in File \cup {NoFile}
  /\ sweep \in [spared : Chat \cup {NoChat}, todo : SUBSET File, over : -1 .. MaxFiles,
                file : File \cup {NoFile}]

(* docs/development/data-model.md, section 6: the nodes that refer to an attachment     *)
(* are marked evicted before it is deleted. Wherever the one that removes it dies, and  *)
(* however removals, an import and new messages overlap, a message that had linked an   *)
(* attachment before its removal began is marked when the row is gone or going; and the *)
(* sweep leaves alone the thread its alarm named.                                      *)
GoneIsMarked ==
  /\ \A m \in messages :
       (m.file \notin Files \/ rows[m.file].deleting) => m.evicted \/ m.late \/ ~m.linked
  /\ sweep.file \in Files /\ sweep.spared # NoChat => rows[sweep.file].chat # sweep.spared
================================================================================
