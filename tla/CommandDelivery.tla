------------------------- MODULE CommandDelivery -------------------------
(* A command on its way from a page to the background and its answer on   *)
(* the way back: the outbox of the page and its copy in session storage   *)
(* (engineClient.ts), the port, the bounded queue of a thread (host.ts),  *)
(* the receipt that makes a resent command harmless (commandReceipts.ts)  *)
(* and the dispatcher between them (core.ts, handleOp).                   *)
(*                                                                        *)
(* Pages share one client identity and one stored outbox, as the side     *)
(* panels of two windows do. All commands are of one thread, whose queue  *)
(* runs them one at a time.                                               *)
EXTENDS Naturals, Sequences, FiniteSets, SequencesExt

CONSTANTS
  Page, NoPage,     \* open documents of one path; nobody to answer
  Drafting,         \* pages that may open with a new chat
  Atomic,           \* commands whose change and receipt are one transaction
  Staged,           \* turn.submit on an idle thread: a run, then its environment
  TwoStep,          \* commands whose change and receipt are two writes
  Nothing,          \* no command at work
  Capacity,         \* QUEUE_CAPACITY
  MaxSent,          \* commands a page issues
  MaxMishaps        \* restarts, closed pages, subscriptions, new chats, maintenance

Command == Atomic \cup Staged \cup TwoStep

ASSUME DeliveryAssumption ==
  /\ NoPage \notin Page /\ Drafting \subseteq Page /\ Nothing \notin Command
  /\ Capacity \in Nat \ {0} /\ MaxSent \in Nat /\ MaxMishaps \in Nat

VARIABLES
  outbox,    \* EngineClient.outbox of every page, gone when it closes
  stored,    \* the outbox in chrome.storage.session, one for all pages
  sent,      \* the commands some page has issued
  link,      \* the state of every page and its port
  screen,    \* what a page shows, and the snapshot it expects
  read,      \* what a starting page read from session storage
  wire,      \* messages on the way to the background
  back,      \* events on the way to the page
  worker,    \* the background worker
  admitting, \* FALSE while data maintenance refuses commands
  queue,     \* OpQueue.ops: waiting commands and the connection they came by
  work,      \* the command in handleOp
  receipt,   \* commandReceipts
  run,       \* the run a Staged command has written
  effect,    \* how often a command's change is in the database
  told,      \* the answers posted for a command
  spent      \* how many mishaps there have been

client == <<outbox, stored, sent, read, screen>>
durable == <<receipt, run, effect>>
deliveryVars == <<outbox, stored, sent, link, screen, read, wire, back, worker, admitting, queue, work,
                  receipt, run, effect, told, spent>>

Answers == {"ack", "rejected", "interrupted"}   \* what a receipt can hold
\* `initialize', and thread.subscribe; both may ask for a snapshot, with a number
\* of their own on the port (0: for none).
Hello == [first : BOOLEAN, asks : Nat]
Reply(answer, n) == [cmd |-> Nothing, answer |-> answer, asks |-> n]
Blank == [thread |-> FALSE, asked |-> 0, expects |-> FALSE, connected |-> FALSE]
Idle == [cmd |-> Nothing, from |-> NoPage, step |-> "none", ok |-> FALSE]

DeliveryTypeOK ==
  /\ outbox \in [Page -> SUBSET Command] /\ stored \subseteq Command /\ sent \subseteq Command
  /\ link \in [Page -> {"closed", "starting", "offline", "open", "reload"}]
  /\ read \in [Page -> SUBSET Command]
  /\ screen \in [Page -> [thread : BOOLEAN, asked : Nat, expects : BOOLEAN, connected : BOOLEAN]]
  /\ wire \in [Page -> Seq(Command \cup Hello)]
  /\ back \in [Page -> Seq([cmd : Command \cup {Nothing}, asks : Nat,
                           answer : Answers \cup {"overloaded", "processing", "initialized",
                                                 "notFound"}])]
  /\ worker \in {"starting", "ready", "failed"} /\ admitting \in BOOLEAN
  /\ queue \in Seq([cmd : Command, from : Page \cup {NoPage}])
  /\ work \in [cmd : Command \cup {Nothing}, from : Page \cup {NoPage},
               step : {"none", "dispatch", "continue", "finish"}, ok : BOOLEAN]
  /\ receipt \in [Command -> {"none", "processing"} \cup Answers]
  /\ run \in [Staged -> {"none", "queued", "failed"}]
  /\ effect \in [Command -> Nat]
  /\ told \in [Command -> SUBSET (Answers \cup {"overloaded", "processing"})]
  /\ spent \in 0 .. MaxMishaps

DeliveryInit ==
  /\ outbox = [p \in Page |-> {}] /\ stored = {} /\ sent = {}
  /\ link = [p \in Page |-> "closed"] /\ read = [p \in Page |-> {}]
  /\ screen = [p \in Page |-> Blank]
  /\ wire = [p \in Page |-> <<>>] /\ back = [p \in Page |-> <<>>]
  /\ worker = "starting" /\ admitting = TRUE /\ queue = <<>> /\ work = Idle
  /\ receipt = [c \in Command |-> "none"] /\ run = [c \in Staged |-> "none"]
  /\ effect = [c \in Command |-> 0] /\ told = [c \in Command |-> {}]
  /\ spent = 0
-----------------------------------------------------------------------------
(* The page.                                                                *)

Mishap == spent < MaxMishaps /\ spent' = spent + 1

(* start(): session storage is read before the first connection. The page   *)
(* shows a thread, or a new chat.                                           *)
OpenPage(p) ==
  /\ link[p] = "closed"
  /\ link' = [link EXCEPT ![p] = "starting"]
  /\ read' = [read EXCEPT ![p] = stored]
  /\ \E thread \in BOOLEAN :
       (thread \/ p \in Drafting) /\ screen' = [screen EXCEPT ![p].thread = thread]
  /\ UNCHANGED <<outbox, stored, sent, wire, back, worker, admitting, queue, work, durable, told,
                 spent>>

(* The commands read are merged into the outbox in memory, which is not     *)
(* written back.                                                            *)
RestoreSession(p) ==
  /\ link[p] = "starting"
  /\ link' = [link EXCEPT ![p] = "offline"]
  /\ outbox' = [outbox EXCEPT ![p] = @ \cup read[p]]
  /\ read' = [read EXCEPT ![p] = {}]
  /\ UNCHANGED <<stored, sent, screen, wire, back, worker, admitting, queue, work, durable, told, spent>>

(* A new port, and `initialize' as its first message, which asks for the    *)
(* thread on view.                                                          *)
Asks(p, n) ==
  screen' = [screen EXCEPT ![p].thread = (n > 0), ![p].asked = n, ![p].expects = (n > 0)]

Connect(p) ==
  /\ link[p] = "offline"
  /\ link' = [link EXCEPT ![p] = "open"]
  /\ LET n == IF screen[p].thread THEN 1 ELSE 0
     IN Asks(p, n) /\ wire' = [wire EXCEPT ![p] = <<[first |-> TRUE, asks |-> n]>>]
  /\ back' = [back EXCEPT ![p] = <<>>]
  /\ UNCHANGED <<outbox, stored, sent, read, worker, admitting, queue, work, durable, told, spent>>

(* send(): the command is kept until it is answered; storage takes the      *)
(* whole outbox of this page.                                               *)
Send(p, c) ==
  /\ outbox' = [outbox EXCEPT ![p] = @ \cup {c}]
  /\ stored' = outbox'[p]
  /\ wire' = IF link[p] = "open" THEN [wire EXCEPT ![p] = Append(@, c)] ELSE wire

(* The user picks a branch, edits, queues, resumes, stops or answers: each  *)
(* is one command.                                                          *)
SendCommand(p, c) ==
  /\ link[p] \in {"starting", "offline", "open"}
  /\ c \notin sent /\ Cardinality(sent) < MaxSent
  /\ sent' = sent \cup {c} /\ Send(p, c)
  /\ UNCHANGED <<link, read, screen, back, worker, admitting, queue, work, durable, told, spent>>

(* Opening a thread, a finished turn or a chosen branch subscribes. *)
Subscribe(p) ==
  /\ link[p] = "open" /\ Mishap
  /\ LET n == screen[p].asked + 1
     IN Asks(p, n) /\ wire' = [wire EXCEPT ![p] = Append(@, [first |-> FALSE, asks |-> n])]
  /\ UNCHANGED <<outbox, stored, sent, read, link, back, worker, admitting, queue, work, durable,
                 told>>

(* startDraft(): the user chooses a new chat, or the thread on view is      *)
(* deleted. No snapshot is expected any more.                               *)
Drafted(p) == [screen EXCEPT ![p].thread = FALSE, ![p].expects = FALSE]
NewChat(p) ==
  /\ link[p] \in {"starting", "offline", "open"} /\ screen[p].thread /\ Mishap
  /\ screen' = Drafted(p)
  /\ UNCHANGED <<outbox, stored, sent, read, link, wire, back, worker, admitting, queue, work,
                 durable, told>>

(* An `initialized' event without a snapshot, or with the one asked for     *)
(* last and not given up since, resends all outstanding commands. Any other *)
(* is dropped before that.                                                  *)
MutForgetsOutbox(p) == <<>>
Outstanding(p) == SetToSeq(outbox[p])

Receives(p, answers) ==
  /\ link[p] = "open" /\ back[p] # <<>> /\ Head(back[p]).answer \in answers
  /\ back' = [back EXCEPT ![p] = Tail(@)]
Expected(p, n) == screen[p].expects /\ n = screen[p].asked

ReplayOutbox(p) ==
  /\ Receives(p, {"initialized"})
  /\ LET n == Head(back[p]).asks IN
     /\ n = 0 \/ Expected(p, n)
     /\ screen' = [screen EXCEPT ![p].expects = (@ /\ n = 0), ![p].connected = TRUE]
  /\ wire' = [wire EXCEPT ![p] = @ \o Outstanding(p)]
  /\ UNCHANGED <<outbox, stored, sent, read, link, worker, admitting, queue, work, durable, told,
                 spent>>

DropSnapshot(p) ==
  /\ Receives(p, {"initialized"}) /\ Head(back[p]).asks > 0 /\ ~Expected(p, Head(back[p]).asks)
  /\ UNCHANGED <<client, link, wire, worker, admitting, queue, work, durable, told, spent>>

(* thread_not_found for the snapshot asked for last makes a new chat. *)
FindNothing(p) ==
  /\ Receives(p, {"notFound"})
  /\ screen' = IF Expected(p, Head(back[p]).asks) THEN Drafted(p) ELSE screen
  /\ UNCHANGED <<outbox, stored, sent, read, link, wire, worker, admitting, queue, work, durable,
                 told, spent>>

(* Any answer takes the command out of the outbox. *)
Acknowledge(p) ==
  /\ Receives(p, Answers \cup {"overloaded", "processing"})
  /\ outbox' = [outbox EXCEPT ![p] = @ \ {Head(back[p]).cmd}]
  /\ stored' = outbox'[p]
  /\ UNCHANGED <<sent, link, read, screen, wire, worker, admitting, queue, work, durable, told,
                 spent>>

(* Commands that came by a connection that is gone are carried out, and     *)
(* nobody hears the answer.                                                 *)
Detached(q, P) == [i \in DOMAIN q |-> IF q[i].from \in P THEN [q[i] EXCEPT !.from = NoPage]
                                      ELSE q[i]]
Leave(P) == /\ queue' = Detached(queue, P)
            /\ work' = IF work.from \in P THEN [work EXCEPT !.from = NoPage] ELSE work
            /\ wire' = [p \in Page |-> IF p \in P THEN <<>> ELSE wire[p]]
            /\ back' = [p \in Page |-> IF p \in P THEN <<>> ELSE back[p]]

ClosePage(p) ==
  /\ link[p] # "closed" /\ Mishap
  /\ link' = [link EXCEPT ![p] = "closed"]
  /\ outbox' = [outbox EXCEPT ![p] = {}]
  /\ read' = [read EXCEPT ![p] = {}] /\ screen' = [screen EXCEPT ![p] = Blank]
  /\ Leave({p})
  /\ UNCHANGED <<stored, sent, worker, admitting, durable, told>>
-----------------------------------------------------------------------------
(* The background.                                                          *)

Post(p, c, answer) ==
  /\ told' = [told EXCEPT ![c] = @ \cup {answer}]
  /\ back' = IF p = NoPage THEN back
             ELSE [back EXCEPT ![p] = Append(@, [cmd |-> c, answer |-> answer, asks |-> 0])]

(* initialize and thread.subscribe are answered past the queue, with the    *)
(* snapshot asked for. A thread that is not there (any more) leaves an      *)
(* `initialize' without a snapshot and refuses a thread.subscribe.          *)
Greets(p) == /\ worker = "ready" /\ wire[p] # <<>> /\ Head(wire[p]) \in Hello
             /\ wire' = [wire EXCEPT ![p] = Tail(@)]
ReceiveHello(p) ==
  /\ Greets(p)
  /\ back' = [back EXCEPT ![p] = Append(@, Reply("initialized", Head(wire[p]).asks))]
  /\ UNCHANGED <<client, link, worker, admitting, queue, work, durable, told, spent>>

ThreadGone(p) ==
  /\ Greets(p) /\ Head(wire[p]).asks > 0 /\ Mishap
  /\ LET reply == IF Head(wire[p]).first THEN Reply("initialized", 0)
                  ELSE Reply("notFound", Head(wire[p]).asks)
     IN back' = [back EXCEPT ![p] = Append(@, reply)]
  /\ UNCHANGED <<client, link, worker, admitting, queue, work, durable, told>>

HasRoom == admitting /\ Len(queue) < Capacity

Enqueue(p) ==
  /\ worker = "ready" /\ wire[p] # <<>> /\ Head(wire[p]) \in Command /\ HasRoom
  /\ wire' = [wire EXCEPT ![p] = Tail(@)]
  /\ queue' = Append(queue, [cmd |-> Head(wire[p]), from |-> p])
  /\ UNCHANGED <<client, link, back, worker, admitting, work, durable, told, spent>>

Overloaded(p) ==
  /\ worker = "ready" /\ wire[p] # <<>> /\ Head(wire[p]) \in Command /\ ~HasRoom
  /\ wire' = [wire EXCEPT ![p] = Tail(@)]
  /\ Post(p, Head(wire[p]), "overloaded")
  /\ UNCHANGED <<client, link, worker, admitting, queue, work, durable, spent>>

(* begin(): a command without a receipt is accepted, any other is answered  *)
(* by its receipt.                                                          *)
MutAcceptsInterrupted(c) == receipt[c] \in {"none", "interrupted"}
Accepts(c) == receipt[c] = "none"

Begin ==
  /\ worker = "ready" /\ work = Idle /\ queue # <<>>
  /\ queue' = Tail(queue)
  /\ LET c == Head(queue).cmd IN
     IF Accepts(c)
     THEN /\ receipt' = [receipt EXCEPT ![c] = "processing"]
          /\ work' = [cmd |-> c, from |-> Head(queue).from, step |-> "dispatch", ok |-> FALSE]
          /\ UNCHANGED <<back, told>>
     ELSE /\ Post(Head(queue).from, c, receipt[c])
          /\ UNCHANGED <<receipt, work>>
  /\ UNCHANGED <<client, link, wire, worker, admitting, run, effect, spent>>

AtStep(step) == worker = "ready" /\ work.step = step
Proceed(step, ok) == work' = [work EXCEPT !.step = step, !.ok = ok]
Elsewhere == <<client, link, wire, back, worker, admitting, queue, told, spent>>

(* dispatchOp() refuses or throws before anything is written. *)
Refuse == /\ AtStep("dispatch") /\ Proceed("finish", FALSE) /\ UNCHANGED <<durable, Elsewhere>>

(* The change and the acknowledged receipt in one transaction; what follows *)
(* it may still throw.                                                      *)
CommitWithReceipt ==
  /\ AtStep("dispatch") /\ work.cmd \in Atomic
  /\ effect' = [effect EXCEPT ![work.cmd] = @ + 1]
  /\ receipt' = [receipt EXCEPT ![work.cmd] = "ack"]
  /\ \E ok \in BOOLEAN : Proceed("finish", ok)
  /\ UNCHANGED <<run, Elsewhere>>

WriteRun ==
  /\ AtStep("dispatch") /\ work.cmd \in Staged
  /\ run' = [run EXCEPT ![work.cmd] = "queued"]
  /\ effect' = [effect EXCEPT ![work.cmd] = @ + 1]
  /\ Proceed("continue", FALSE)
  /\ UNCHANGED <<receipt, Elsewhere>>

TurnStarted ==
  /\ AtStep("continue") /\ Proceed("finish", TRUE) /\ UNCHANGED <<durable, Elsewhere>>

(* Preparing the turn fails: the run is failed without an environment. *)
TurnFails ==
  /\ AtStep("continue") /\ Proceed("finish", FALSE)
  /\ run' = [run EXCEPT ![work.cmd] = "failed"]
  /\ effect' = [effect EXCEPT ![work.cmd] = @ - 1]
  /\ UNCHANGED <<receipt, Elsewhere>>

(* The change alone; what follows it may still throw, as resolveUncertain   *)
(* does when the run it has set going cannot be resumed.                    *)
WritePlain ==
  /\ AtStep("dispatch") /\ work.cmd \in TwoStep
  /\ effect' = [effect EXCEPT ![work.cmd] = @ + 1]
  /\ \E ok \in BOOLEAN : Proceed("finish", ok)
  /\ UNCHANGED <<receipt, run, Elsewhere>>

(* completeCommandReceiptInTransaction(): a terminal receipt stays, and is  *)
(* what the page is told.                                                   *)
MutOverwritesReceipt(c, ok) == IF ok THEN "ack" ELSE "rejected"
Terminal(c, ok) == CASE receipt[c] \in Answers -> receipt[c]
                     [] ok /\ receipt[c] \notin Answers -> "ack"
                     [] OTHER -> "rejected"

Finish ==
  /\ AtStep("finish")
  /\ LET answer == Terminal(work.cmd, work.ok) IN
     /\ receipt' = [receipt EXCEPT ![work.cmd] = answer]
     /\ Post(work.from, work.cmd, answer)
  /\ work' = Idle
  /\ UNCHANGED <<client, link, wire, worker, admitting, queue, run, effect, spent>>

(* Data maintenance closes the admission, and opens it if it fails. *)
Maintain ==
  /\ worker = "ready" /\ Mishap
  /\ admitting' = ~admitting
  /\ UNCHANGED <<client, link, wire, back, worker, queue, work, durable, told>>
-----------------------------------------------------------------------------
(* The worker stops and starts.                                             *)

Stop ==
  /\ worker # "starting" /\ Mishap
  /\ worker' = "starting" /\ admitting' = TRUE /\ queue' = <<>> /\ work' = Idle
  /\ link' = [p \in Page |-> IF link[p] = "open" THEN "offline" ELSE link[p]]
  /\ screen' = [p \in Page |-> IF link[p] = "open"
                              THEN [screen[p] EXCEPT !.asked = 0, !.connected = FALSE]
                              ELSE screen[p]]
  /\ wire' = [p \in Page |-> <<>>] /\ back' = [p \in Page |-> <<>>]
  /\ UNCHANGED <<outbox, stored, sent, read, durable, told>>

(* recoverIncomplete(): one transaction over all receipts left processing,  *)
(* before any command is looked at.                                         *)
MutTrustsRun(c) == IF c \in Staged /\ run[c] # "none" THEN "ack" ELSE "interrupted"
Recovered(c) == IF c \in Staged /\ run[c] = "queued" THEN "ack" ELSE "interrupted"

RecoverIncomplete ==
  /\ worker = "starting" /\ worker' = "ready"
  /\ receipt' = [c \in Command |-> IF receipt[c] = "processing" THEN Recovered(c) ELSE receipt[c]]
  /\ UNCHANGED <<client, link, wire, back, admitting, queue, work, run, effect, told, spent>>

(* Recovery throws or takes longer than STARTUP_RECOVERY_TIMEOUT_MS. *)
StartupFails ==
  /\ worker = "starting" /\ Mishap
  /\ worker' = "failed"
  /\ UNCHANGED <<client, link, wire, back, admitting, queue, work, durable, told>>

(* Every page that is or gets connected is told to reload the extension and *)
(* gives up.                                                                *)
FailStartup(p) ==
  /\ worker = "failed" /\ link[p] = "open"
  /\ link' = [link EXCEPT ![p] = "reload"]
  /\ screen' = [screen EXCEPT ![p].asked = 0, ![p].connected = FALSE]
  /\ Leave({p})
  /\ UNCHANGED <<outbox, stored, sent, read, worker, admitting, durable, told, spent>>

PageStep(p) ==
  \/ OpenPage(p) \/ RestoreSession(p) \/ Connect(p) \/ Subscribe(p) \/ NewChat(p)
  \/ \E c \in Command : SendCommand(p, c)
  \/ ReplayOutbox(p) \/ DropSnapshot(p) \/ FindNothing(p) \/ Acknowledge(p) \/ ClosePage(p)
HostStep(p) == \/ ReceiveHello(p) \/ ThreadGone(p) \/ Enqueue(p) \/ Overloaded(p)
               \/ FailStartup(p)
CoreStep == \/ Begin \/ Refuse \/ CommitWithReceipt \/ WriteRun \/ TurnStarted \/ TurnFails
            \/ WritePlain \/ Finish
WorkerStep == Maintain \/ Stop \/ RecoverIncomplete \/ StartupFails

DeliveryNext == \/ \E p \in Page : PageStep(p) \/ HostStep(p)
                \/ CoreStep \/ WorkerStep

(* Ports deliver, timers fire and promises settle; nobody has to open or    *)
(* close a page or send a command, and a worker need not stop.              *)
PageProgress(p) == \/ RestoreSession(p) \/ Connect(p) \/ ReplayOutbox(p) \/ DropSnapshot(p)
                   \/ FindNothing(p) \/ Acknowledge(p)
Boot == RecoverIncomplete \/ StartupFails

DeliveryFairness ==
  /\ \A p \in Page : WF_deliveryVars(PageProgress(p)) /\ WF_deliveryVars(HostStep(p))
  /\ WF_deliveryVars(CoreStep)
  /\ WF_deliveryVars(Boot)

DeliverySpec == DeliveryInit /\ [][DeliveryNext]_deliveryVars /\ DeliveryFairness
-----------------------------------------------------------------------------
(* A command is carried out at most once, however often pages send it, lose *)
(* its answer, reconnect or open again, and wherever the worker stops.      *)
AtMostOnce == \A c \in Command : effect[c] <= 1

(* What a receipt says is true: an acknowledged command has been carried    *)
(* out, and a command that is one transaction, or a message that starts a   *)
(* run, has not when it is refused or interrupted. (Of a command with two   *)
(* writes neither can be said: what follows its change may throw, and the   *)
(* worker may stop between the two.) And nobody is told to wait for the     *)
(* original of a command: the queue of the thread and the recovery of       *)
(* receipts leave no other original at work.                                *)
ReceiptsTrue ==
  \A c \in Command :
    /\ receipt[c] = "ack" => effect[c] = 1
    /\ receipt[c] \in {"rejected", "interrupted"} /\ c \notin TwoStep => effect[c] = 0
    /\ "processing" \notin told[c]

(* Pages issue finitely many commands, and in the end each of them has      *)
(* learnt the fate of its own or has been told to reload the extension. The *)
(* exception is a page that turned to a new chat before the snapshot came   *)
(* that its port was opened for: it drops that snapshot, and with it the    *)
(* resending of its outbox, and waits until it opens a thread or loses its  *)
(* port.                                                                    *)
TurnedAway(p) == ~screen[p].thread /\ ~screen[p].connected
EverySettled ==
  <>[](\A p \in Page : outbox[p] = {} \/ link[p] = "reload" \/ TurnedAway(p))

(* Receipts give every command one outcome, and the pages hear no other.    *)
Outcomes == INSTANCE CommandOutcome WITH
  Outcome <- Answers, Undecided <- "none",
  outcome <- [c \in Command |-> IF receipt[c] \in Answers THEN receipt[c] ELSE "none"],
  told <- [c \in Command |-> told[c] \cap Answers]
ImplementsOutcomes == Outcomes!Spec
==========================================================================
