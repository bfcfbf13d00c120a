------------------------------ MODULE Composer ------------------------------
(* From typing to sending in one page: the draft kept per thread            *)
(* (ui/useThreadDraft.ts), the composer that clears it and sends later      *)
(* (ui/components/PromptInput.tsx, submit), and the session that sends only *)
(* to the thread the text was written for, making one for the first message *)
(* (ui/engineClient.ts, submit).                                            *)
EXTENDS Naturals, Sequences, SequencesExt

CONSTANTS Conversation,          \* threads; those that do not exist yet are made by messages
          NewChat,               \* the view of a conversation without a thread
          MaxTexts,              \* bound on what is typed, and on what is submitted
          MaxTurns               \* bound on how often the view changes or the composer goes away

ASSUME ComposerAssumption == NewChat \notin Conversation /\ MaxTexts \in Nat /\ MaxTurns \in Nat

VARIABLES
  view,        \* what the page shows, one of Views
  known,       \* threads that exist
  draft,       \* the text in the composer, whether read from storage or typed
  saved,       \* drafts in session storage
  generation, readings,          \* reads of storage, each of one generation
  writings,    \* writes of storage, one after another
  instance,    \* which composer is on the page; 0 while a question takes its place
  instances,
  outgoing,    \* submissions that wait for their page context and variables
  submitted,   \* how many there were
  pendingDraft,\* the message that waits for its thread
  creations,   \* thread.create commands without an answer
  sent,        \* messages given to the engine
  typedIn,     \* where each text was typed
  switches

Views == Conversation \cup {NewChat}
Text == 0..MaxTexts              \* numbered as they are typed; 0: no text
Message == [number : 1..MaxTexts, text : 1..MaxTexts, for : Views]
NoMessage == [number |-> 0, text |-> 0, for |-> NewChat]

composer == <<instance, instances, outgoing, submitted>>
drafts == <<draft, saved, generation, readings, writings>>
pageVars == <<view, known, pendingDraft, creations, sent>>
composerVars == <<composer, drafts, pageVars, typedIn, switches>>

ComposerTypeOK ==
  /\ view \in Views /\ known \subseteq Conversation
  /\ draft \in [key : Views, value : Text, dirty : BOOLEAN]
  /\ saved \in [Views -> Text] /\ generation \in Nat
  /\ readings \subseteq [key : Views, gen : Nat, answered : BOOLEAN, value : Text]
  /\ writings \in Seq([key : Views, value : Text])
  /\ instance \in Nat /\ instances \in Nat
  /\ outgoing \in Seq([m : Message, by : Nat]) /\ submitted \in 0..MaxTexts
  /\ pendingDraft \in Message \cup {NoMessage} /\ creations \in 0..MaxTexts
  /\ sent \in Seq([m : Message, to : Conversation])
  /\ typedIn \in Seq(Views) /\ switches \in 0..MaxTurns

Unread(k) == [key |-> k, value |-> 0, dirty |-> FALSE]

ComposerInit ==
  /\ view = NewChat /\ known \in SUBSET Conversation
  /\ draft = Unread(NewChat) /\ saved = [k \in Views |-> 0]
  /\ generation = 1
  /\ readings = {[key |-> NewChat, gen |-> 1, answered |-> FALSE, value |-> 0]}
  /\ writings = <<>> /\ instance = 1 /\ instances = 1 /\ outgoing = <<>> /\ submitted = 0
  /\ pendingDraft = NoMessage /\ creations = 0 /\ sent = <<>> /\ typedIn = <<>> /\ switches = 0
-----------------------------------------------------------------------------
(* The draft. *)

(* Another view: a new generation, and a read of its draft. *)
Show(k) ==
  /\ view' = k
  /\ IF k = view THEN UNCHANGED <<draft, generation, readings>>
     ELSE /\ draft' = Unread(k) /\ generation' = generation + 1
          /\ readings' = readings \cup {[key |-> k, gen |-> generation + 1, answered |-> FALSE,
                                         value |-> 0]}

(* setDraft and the effect that follows it before anything else happens. *)
SetDraft(value) ==
  /\ draft' = [key |-> view, value |-> value, dirty |-> TRUE]
  /\ writings' = Append(writings, [key |-> view, value |-> value])

StorageReads(r) ==
  /\ r \in readings /\ ~r.answered
  /\ readings' = (readings \ {r}) \cup {[r EXCEPT !.answered = TRUE, !.value = saved[r.key]]}
  /\ UNCHANGED <<draft, saved, generation, writings, composer, pageVars, typedIn, switches>>

(* A draft read is shown unless the view changed or something was typed. *)
MutAnyGeneration(r) == ~draft.dirty
Wanted(r) == r.gen = generation /\ ~draft.dirty

DraftRead(r) ==
  /\ r \in readings /\ r.answered
  /\ readings' = readings \ {r}
  /\ draft' = IF Wanted(r) THEN [draft EXCEPT !.value = r.value] ELSE draft
  /\ UNCHANGED <<saved, generation, writings, composer, pageVars, typedIn, switches>>

(* Writes are chained; one that fails is reported and the next one goes on. *)
WriteDraft(fails) ==
  /\ writings # <<>> /\ writings' = Tail(writings)
  /\ saved' = IF fails THEN saved ELSE [saved EXCEPT ![Head(writings).key] = Head(writings).value]
  /\ UNCHANGED <<draft, generation, readings, composer, pageVars, typedIn, switches>>
-----------------------------------------------------------------------------
(* The composer. *)

Type ==
  /\ instance > 0 /\ Len(typedIn) < MaxTexts
  /\ typedIn' = Append(typedIn, view)
  /\ SetDraft(Len(typedIn) + 1)
  /\ UNCHANGED <<saved, generation, readings, composer, pageVars, switches>>

(* submit(): the composer is cleared before the message is complete. *)
SubmitText ==
  /\ instance > 0 /\ draft.value > 0 /\ submitted < MaxTexts
  /\ submitted' = submitted + 1
  /\ outgoing' = Append(outgoing, [m |-> [number |-> submitted', text |-> draft.value,
                                           for |-> view], by |-> instance])
  /\ SetDraft(0)
  /\ UNCHANGED <<saved, generation, readings, instance, instances, pageVars, typedIn, switches>>

(* A card that asks for an answer replaces the composer; what it had under  *)
(* way is given up.                                                         *)
Replace ==
  /\ switches < MaxTurns /\ switches' = switches + 1
  /\ IF instance > 0 THEN instance' = 0 /\ UNCHANGED instances
                     ELSE instance' = instances + 1 /\ instances' = instances + 1
  /\ UNCHANGED <<outgoing, submitted, drafts, pageVars, typedIn>>

(* session.submit and session.enqueue: only for the thread on view. *)
Accepted(k) == view = k

NextSubmission == 1

DispatchText ==
  LET next == outgoing[NextSubmission]
      live == next.by = instance /\ Accepted(next.m.for)
  IN /\ outgoing # <<>>
     /\ outgoing' = RemoveAt(outgoing, NextSubmission)
     /\ IF ~live THEN UNCHANGED <<sent, pendingDraft, creations>>
        ELSE IF view = NewChat
        THEN pendingDraft' = next.m /\ creations' = creations + 1 /\ UNCHANGED sent
        ELSE sent' = Append(sent, [m |-> next.m, to |-> view])
             /\ UNCHANGED <<pendingDraft, creations>>
     /\ UNCHANGED <<view, known, instance, instances, submitted, drafts, typedIn, switches>>

(* A dynamic variable cannot be read: the message is not sent. *)
VariablesFail ==
  /\ outgoing # <<>> /\ outgoing' = Tail(outgoing)
  /\ UNCHANGED <<instance, instances, submitted, drafts, pageVars, typedIn, switches>>
-----------------------------------------------------------------------------
(* The session. *)

OpenConversation(k) ==
  /\ k \in known /\ k # view /\ switches < MaxTurns /\ switches' = switches + 1
  /\ Show(k)
  /\ UNCHANGED <<composer, saved, writings, known, pendingDraft, creations, sent, typedIn>>

(* startDraft: the message that waits for its thread is forgotten. *)
StartNewChat ==
  /\ switches < MaxTurns /\ switches' = switches + 1
  /\ Show(NewChat) /\ pendingDraft' = NoMessage
  /\ UNCHANGED <<composer, saved, writings, known, creations, sent, typedIn>>

(* thread.created, whatever is on view by then. *)
ThreadCreated(k) ==
  /\ creations > 0 /\ creations' = creations - 1
  /\ k \in Conversation \ known /\ known' = known \cup {k}
  /\ Show(k) /\ pendingDraft' = NoMessage
  /\ sent' = IF pendingDraft = NoMessage THEN sent
             ELSE Append(sent, [m |-> pendingDraft, to |-> k])
  /\ UNCHANGED <<composer, saved, writings, typedIn, switches>>

ComposerNext ==
  \/ \E r \in readings : StorageReads(r) \/ DraftRead(r)
  \/ \E fails \in BOOLEAN : WriteDraft(fails)
  \/ Type \/ SubmitText \/ Replace \/ DispatchText \/ VariablesFail
  \/ \E k \in Conversation : OpenConversation(k) \/ ThreadCreated(k)
  \/ StartNewChat

ComposerSpec == ComposerInit /\ [][ComposerNext]_composerVars
-----------------------------------------------------------------------------
(* What is typed stays in its place. A message goes to the thread whose     *)
(* composer it was in, or, from that of a new chat, to a thread made for    *)
(* it; each goes out at most once, and those of one composer in their order.*)
(* What the composer shows, and what is kept for a thread, was typed there. *)
SentWhereTyped ==
  /\ \A i \in DOMAIN sent : LET m == sent[i].m
                            IN m.for \in {sent[i].to, NewChat} /\ typedIn[m.text] = m.for
  /\ \A i, j \in DOMAIN sent :
       i < j => /\ sent[i].m.number # sent[j].m.number
                /\ sent[i].m.for = sent[j].m.for => sent[i].m.number < sent[j].m.number
  /\ draft.key = view /\ (draft.value > 0 => typedIn[draft.value] = view)
  /\ \A k \in Views : saved[k] > 0 => typedIn[saved[k]] = k
=============================================================================
