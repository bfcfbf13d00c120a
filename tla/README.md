# Panelot in TLA+

Panelot is a browser extension that runs a conversational agent. A background
service worker holds the engine; side panel and chat pages are its clients. The
worker may be stopped and started again by the browser at any moment, so the
engine keeps what matters in IndexedDB and extension storage, and decides at
every start what to do with what it finds. These modules model that engine, the
port to its pages, and the services around a run.

All paths are relative to the repository; a module's comment names its files.

## The system

| part | state | operations | talks to | what is hard, and what makes it correct |
|---|---|---|---|---|
| Run records (`engine/runState.ts`, `engine/runRepository.ts`) | one durable record per run: state, pending tool, environment, step cursor, accepted steers | enqueue, prepare, transition, tool call, usage and steer transactions, `recoverOpenRuns` | every other part of the engine | every write is checked against a table and a refused write throws in the middle of a turn; a restart must leave no run active with nobody working on it |
| Engine core (`engine/core.ts`) | in memory, per thread: the active turn, the queue, the recovered approval and interaction, the execution of a recovered tool | the client commands, the tasks it queues on the thread's actor, timers, `pauseThread`, `recover` | the agent loop, the repositories, the gatekeeper, the host | commands, timers, automation and the end of a turn interleave; one run owns the thread at a time; queued inputs are served; a write is not sent twice |
| Agent loop (`agent/loop.ts`) | one turn: messages, pending tool, accepted steers | ask the model, gate, ask for approval or for an answer, dispatch tools, end | model providers, tools, the core's callbacks | an interrupt during every kind of wait; steers accepted until a cutoff; every request must be one the provider can answer |
| Approvals and interactions (`engine/approvalRepository.ts`, `engine/interactionRepository.ts`, `engine/interactionAutomation.ts`) | durable requests with a decision or an answer; waiters, timers and alarms in memory | create with the run's wait, decide or resolve, claim the continuation | the core, alarms, page watchers | a decision is claimed once, by the loop that waits for it or by a continuation after a restart |
| Command receipts (`engine/commandReceipts.ts`) | one durable receipt per client command | begin, complete, recover, prune | the core, clients that retry | a retried command has one effect although the worker stopped between the effect and the answer |
| Host and transport (`engine/host.ts`, `messaging/`) | connections, subscriptions, per-thread operation queues, stream epoch and sequence | attach, subscribe (snapshot), dispatch, broadcast, coalesce | clients over ports, the core | a client sees the snapshot and then each later event once, in order; nothing is admitted before recovery or during maintenance |
| Pages (`ui/engineClient.ts`, `ui/useThreadDraft.ts`, `ui/useStorageValue.ts`) | outbox of commands, stream cursor per thread, drafts, copies of settings | send, retry, reconnect, apply events, compose | the host, storage | reconnection, answers that come late or twice; what was typed goes where it was typed |
| Conversation tree (`db/tree.ts`, `db/sessionContext.ts`) | nodes with parents, one cursor per thread | append, fork, switch, restore, read the path | the loop, the core | the branch under the cursor is the conversation the user and the model go on with |
| Import, export, attachments (`data/`) | a journal in extension storage, a marker in IndexedDB; files with the messages that name them | prepare, apply settings, commit, finish, reconcile at startup; link, sweep, delete | settings, IndexedDB, the host's admission | two stores without a common transaction: all of an import or none of it, after a crash at any point |
| Gatekeeper (`gatekeeper/`, `permissions/`) | rules, session grants in memory and storage, a revision | check, finalize, apply a decision, change rules, take access away | the loop, settings | a verdict is used after it was computed; a grant taken away must not come back |
| Providers (`providers/`, `engine/providerResolver.ts`, `engine/runEnvironmentSnapshot.ts`) | key health, cached adapters, captured environments | resolve, fail over, stream, capture, verify | the core | a continued run uses the environment it started with or fails; an answer is whole or an error |
| MCP (`mcp/`, `entrypoints/mcp-worker`) | the client of each server, its fingerprint, sessions with generations, OAuth credentials | connect, disconnect, reconcile, claim, call, cancel, log in | the core, remote servers, the offscreen document | settings change during every await of a connection; late results of a session already replaced |
| Browser tools (`tools/`) | tab bindings, dialog patches, debugger attachment, refs of elements | navigate, act, read, attach, detach | pages | tabs closed, replaced and reloaded under a running call |
| Plugins and skills (`plugins/`, `skills/`) | installed archives, their files and skills | plan, commit, enable, remove, save a skill | several settings pages | the source and the store change between a plan and its commit |
| Worker startup (`entrypoints/background.ts`) | storage generation, stream epoch, the tasks of one start | empty an old profile, reconcile, sweep, connect, recover, serve | everything | recovery must not run over what an earlier task has yet to change |

PROJECT.json lists the files of each part and what is modelled of it.

## Modules

### The thread

`RunState` holds the run's states, the transition table and the two tables of
recovery (`RecoveredState`, `RecoveryAction`) as operators.

`RunLifecycle` is what a thread promises about its runs with everything else
left out: each is new, queued, active, parked or closed; one is active at a time;
closed is final. `ThreadEngine!ImplementsLifecycle` says that the engine
implements it, under the mapping `StatusOf`.

`ThreadEngine` is one thread: its durable records, the worker's memory of them,
and the processes that work on them. A step is what runs between two awaits at
which another process can get in: one IndexedDB transaction and the synchronous
code after it.

| variables | code |
|---|---|
| `state`, `tool`, `env`, `calls`, `arrived` | `RunRecord` (`state`, `pendingTool`, `environment`), the calls persisted for it, `createdAt` order |
| `approval`, `interaction` | the records of each call; a decision replaces `pending`, which stands for `acceptForSession` and `acceptForSite` too |
| `phase`, `todo` | whether `recover()` is done, and which open runs it has not handled |
| `turn`, `active` | the loop of each run (its `pc` is where it awaits) and the thread's entry of `activeTurns` |
| `approvalMark`, `interactionMark`, `replay`, `memQueue` | the thread's entries of `recoveredApprovalsByThread`, `recoveredInteractionsByThread`, `recoveryExecutions`, `queues` |
| `job` | where the actor's current job, and a continuation started by the automation, stand |
| `sched` | tasks waiting for the actor |
| `licence`, `userNodes`, `crashes`, `retries` | history read by properties and bounds |

| actions | code |
|---|---|
| `Submit` ... `InteractionResponse` | `dispatchOp`: one action per command, up to its first await that lets others in |
| `StartFails`, `StartPrepares`, `Launch` | `startTurn` |
| `Return` | the end of a job: `finishRecoveredApproval` and `drainQueueNow` |
| `Wait`, `Claim`, `Claimed`, `ClaimAnswer` | `continueRecoveredWait`, `continueDecidedApproval`, `continueResolvedInteraction` |
| `MarkDone`, `Replay` ... `Quarantine` | `recordRecoveredToolResult`, `replayPreparedTool` |
| `Admit` ... `Settled` | `runTurn` and the callbacks the core gives it; `Settled` is `done.finally` |
| `Crash`, `Boot`, `Recover...` | the end of the worker, `recoverOpenRuns` and `recover` |
| `PauseThread`, `PauseApproval`, `RecoveredApprovalTimeout`, `AutomationAnswer` | manual input, timers, alarms and watchers |

`ThreadEngineMC` adds the symmetry of runs and the two beginnings from which
liveness is checked. `AgentLoop` is one turn seen from inside: requests, answers,
the calls of an answer, steering messages and aborts, with what of the tree a
request holds.

### The import

`AtomicImport` says what replacing everything by a backup promises: the settings
and the conversations are those of one backup and change together.

`DataImport` is the protocol that keeps that promise over two stores without a
common transaction: `commit()` and `reconcileStartup()` of
`data/maintenanceCoordinator.ts`, one action per write or read of a store, with
the engine reduced to what an import waits for. A setting or the conversations
are represented by the backup they come from, since the question is whether
origins are mixed; `provides` says which settings each backup holds, and TLC
tries every choice.

| variables | code |
|---|---|
| `settings`, `journal`, `completed` | extension storage: the keys of `IMPORT_SETTINGS_KEYS`, `last_model`, `thread_seen`, the per-thread parameters; `DATA_IMPORT_JOURNAL_KEY` with its `preimage`; `DATA_IMPORT_LAST_COMPLETED_KEY` |
| `data`, `marker`, `queued` | IndexedDB: the tables `commitDb` clears and fills, its marker, the queued run among them |
| `leftover` | the entries of session storage that `clearImportSession` removes |
| `blocked` | `DataImportCoordinator.blocked`, which the host asks before it admits a command |
| `work` | the engine as `waitForAdmissionIdle` and `blockers` see it; `ended` is a finished turn whose actor task has not run |
| `phase`, `boot`, `commit` | where `reconcileStartup` and each page's `commit` stand, and the journal they hold in memory |

| actions | code |
|---|---|
| `Request`, `Block`, `Drained`, `CheckBlockers` | `commit` up to the blockers |
| `TakeImage`, `WritesJournal`, `ReadBack` | `createJournal`, `phase` and the journal read back |
| `SetSettings`, `RemoveSettings`, `CommitDb`, `Committed` | `applySettings`, `commitDb`, the answer |
| `CommitFails`, `Caught`, `UndoCommit`, `UndoFails` | a write that throws, the `catch` of `commit`, `restore` |
| `ReadJournal`, `ReadMarker`, `UndoAtBoot`, `ClearSession` ... `DropMarker`, `BootFails` | `reconcileStartup`, `restore`, `finish` |
| `StartTurn` ... `Drain`, `Crash`, `Start` | the engine's turns and queue; the worker |

`Settled` is the refinement mapping to `AtomicImport`: the settings a start of
the worker would leave, the journal's while there is no marker and the stored
ones after.

### The port between a page and the background

| module | its state | its actions |
|---|---|---|
| `CommandOutcome` | what a page may count on: the outcome of each command, decided once, and what it has been told | `Decide`, `Tell` |
| `CommandDelivery` | outboxes and their stored copy, ports, the thread's bounded queue, the command in `handleOp`, receipts, runs | issuing, sending, resending and hearing (`engineClient.ts`), queueing and refusing (`host.ts`), begin, effect, completion and recovery of receipts; lost ports, closed pages, maintenance, restarts |
| `ThreadStream` | the items of a thread and those announced, epoch and sequence, the snapshot being read, pending deltas, the page's view and cursor | writing, announcing, streaming, subscribing, the steps of a snapshot and its cancellation, joining deltas, applying an event or discarding it, lost ports, stopped workers |

In `ThreadStream` an event held back while a snapshot is read goes through the
same joining as any other when the snapshot is committed (`Posted`), and
`view.seam` remembers how long the text of a running turn was when the last
snapshot was applied: before it text may be missing, after it not.

Commands are of three kinds, told apart by how their effect and their receipt are
written: `Atomic` (one transaction with the receipt), `Staged` (a queued run that
is then started), `TwoStep` (effect, then receipt; what follows the effect may
throw, and the receipt is then a rejection). A page's `screen` says whether it
shows a thread, which snapshot it expects, and whether one has come on its port:
only then is its outbox sent again.
`CommandDelivery!ImplementsOutcomes` is the refinement of `CommandOutcome`.
`PageEngineMC` checks both halves in one run, one at a time.

### The browser tools

| module | its state | its actions |
|---|---|---|
| `TabTargets` | tabs, the gateway's maps in memory and in session storage, what a turn was told to work on | binding at submission and for a call carried out after a restart, following replaced and child tabs, persisting and hydrating, manual operation |
| `PageCalls` | content calls between worker, page and mail; dialogs, snapshots, refs and elements of a page | queueing, patching, sending, the second try, acting, answering; page changes, reloads, aborts, restarts |
| `DeepSession` | the debugger's attachment, its queue and idle timer, deep refs | attach, capture, prepare, check, send the commands of a click or a text one by one, detach; navigations reported late |
| `TabTools` | one call of a tool that works on whole tabs | target, approval, final check, dispatch, verification; the user navigates meanwhile |

`BrowserMC` composes the first three; `TabTools` is checked with the parts below.

### The services

| module | code |
|---|---|
| `McpServers`, `McpSession`, `OAuthLogin` | the client of a server against edits of its settings (`mcp/manager.ts`); ownership and calls of a session in the offscreen document (`mcp/workerSessions.ts`, `mcp/client.ts`); discovery, approval, login and refresh (`mcp/oauth.ts`, the permission stages of `mcp/manager.ts`), with the two writes of `mcp/store.ts` and a worker that stops between them |
| `Gatekeeper` | verdicts, rules by weight, a decision stored and applied later, grants as a chain of mutations, removal of access, the second check before dispatch, what recovery makes of a call |
| `ConversationTree`, `Backup`, `SecretVault`, `Attachments` | nodes and cursor of a thread, with its runs, those that wait included; what an export writes and an import lets in; the profile's key and what is sealed under it; stored files, the messages that name them and what removes them |
| `BackupRestore` | states `ImportedIsUsable` over `Backup` and `SecretVault`, so that what is checked and what is proved are one formula |
| `SettingsSync`, `Composer` | one list of settings under the shared lock and the page that watches it; drafts and what is sent of them |
| `ModelStream`, `RunEnvironment` | one call of a model with its keys and its stream; connections, adapters and tools of a run |
| `PluginStore` | plans and commits of plugins, and their skills, from several pages |
| `WorkerPort`, `WorkerStartup` | requests over the port to the offscreen document; the order of a start of the worker |

`ServicesMC` and `RunPartsMC` check them together: the initial state chooses a
part, the others stand still. The modules have no variable in common, so taking
them one at a time loses none of their behaviours; what the parts do to each other
(an import over a list of settings that a page is changing) is not modelled.

The proofs are in `ThreadEngineProofs`, `ThreadStreamProofs`, `DataImportProofs`
(with backups), `DeliveryProofs` (with `ModelStream`), `RunPartsProofs`,
`ServicesProofs` and `BrowserProofs`; `DataLemmas` holds what they share about
sequences, least elements and finite walks.

Operators whose names start with `Mut`, and a few named for a mistake
(`ForgetGrants`, `DropCancel`), are plausible bugs in the definition beside them.
No specification uses them: each run is repeated with one of them in place of the
definition, and must then fail.

## What the runs check

Every run allows the system to become idle for good (`CHECK_DEADLOCK FALSE`): a
thread with nothing to do is not an error, and the bounds stop the users.

| run | instance | shows |
|---|---|---|
| `thread_restart` | 2 runs, 1 call (read, retry-safe write or question), 1 restart, 1 user retry; manual input | one owner at a time, no active run is forgotten, recovered requests are released, and the thread implements `RunLifecycle` |
| `thread_calls` | 1 run, 2 calls (retry-safe write, write, question), 2 restarts, 1 user retry; automation, late answers, vanished environments, failing hooks | only approved calls execute; no write is sent again on the engine's own account |
| `thread_stops` | 2 runs, 2 calls, queue of 2, 1 restart, fairness | an interrupt ends the turn; an unanswered approval is declined; a queued run leaves the queue |
| `import_crash` | 2 imports, 2 settings, every choice of what each backup holds, 1 page, 3 restarts; any write may fail | the import implements `AtomicImport`; commands are admitted only over a whole backup; the marker is the journal's; no import is applied twice |
| `port` | 2 pages, one of which may open with a new chat, a command of each kind, queue of 1, 1 mishap; 2 threads, 1 item, 3 deltas, 1 stop or lost port; fairness | a command has one outcome, carried out at most once and truthfully reported; the view misses nothing; nobody is kept waiting |
| `browser` | 3 tabs; 2 calls on 2 elements that look alike; 3 debugger calls in 2 tabs | calls reach the tab, the element and the document they were meant for, act once, and leave the page's dialogs as they were |
| `services` | 10 parts with 2 or 3 of each actor | clients are as stored, grants are as given, branches hold, imports are usable, updates are kept, text goes where it was typed, providers are heard right, environments stay, cancelled calls never run |
| `run_parts` | 7 parts with 2 or 3 of each actor | steers are heard, requests are well formed, plugins are whole, credentials are bound, starts are clean, tab calls are as shown, removed files are marked, waiters wait where they are answered |

The bounds are those at which the cases meet. Ownership is a question between
two runs, so a third adds nothing but another name. One restart in every
reachable state covers every pair of a durable state and a lost memory; the
second restart in `thread_calls` covers a restart while the first recovery is at
work. Two calls let a late decision be about a call other than the last. `calls`
counts up to `MaxCalls`; `arrived` grows only by runs, which are finitely many.
Retries are bounded by `MaxRetries`, since a user may ask for one again and
again. Two settings tell one the backup holds from one it lacks; two imports tell
the import under way from the one before it; three restarts let the completion of
an import be cut off and the next import too. In `port` one mishap is enough for
each command to be lost, repeated or overtaken once, and two pages for one to
answer for what the other sent. In `services` three events let the grants be
taken away, the storage fail and the worker restart; three calls let one be
cancelled while another is at work and a third waits; three runs and seven nodes
let a fork lie below a fork; three flows in `run_parts` let the page's login, a
401's and a connect's overlap, and of three plans two share an issuer. Where a theorem is proved (below), it needs none
of these bounds.

Four runs show disagreements between the code and what the repository says of
it; each checks the property alone and TLC gives the shortest trace.

| run | what happens |
|---|---|
| `thread_user_message` | an admitted run is interrupted and resumed by the user, which makes it `preparing` again; the worker stops, recovery takes it for a run that never began and queues it, the drain starts it as new, and its message is appended again |
| `thread_approved_question` | an interactive tool that needed an approval is put to the user from `waiting_approval`; the table has no such transition, the transaction throws and the turn fails |
| `import_unguarded` | an import that wakes the worker runs beside `reconcileStartup`, which takes its journal for one left behind, drops it and admits commands |
| `backup_restores` | editing the first message, or deleting the source of a fork, makes conversations that the export writes and the import refuses |

## Disagreements the runs leave out

The runs above could not show everything the models brought up; what follows was
found with the same modules, and is why some runs leave faults out.

- With automation `SingleOwner` fails: an alarm answers a recovered question
  while a command that saw an idle thread is starting a run
  (background.ts:431; docs/en/development/agent-engine.md:51).
- With vanished environments `QueueServed` fails: a queued run fails to start and
  the one behind it stays queued on an idle thread (core.ts:1273).
- `MarksReleased` fails with vanished environments, late answers or failing
  hooks: when the continuation of a claimed approval throws (core.ts:1798), or a
  response comes to a request already settled (core.ts:788), the line that
  removes the mark is skipped and the thread stays busy until the worker
  restarts, although docs/en/development/agent-engine.md:53 says a recovered
  waiter owns its thread until one continuation claim finishes.
- The queue in memory is read before the durable one and holds only what came
  since the restart (core.ts:1258): a later input can be started first.
- Two pages that import at once, `commit` takes no lock, break `AdmitsWhole`,
  `MarkerMatches` and `ImplementsAtomicImport` (maintenanceCoordinator.ts:140).
- A queued input may be started between the import's check and the replacement
  of the conversations under it (maintenanceCoordinator.ts:152), and an import
  waits for ever for a turn that waits for an answer it refuses (:151).
- A grant taken away returns when the write of its removal fails and the worker
  restarts (gatekeeper/service.ts:219-225), or the worker stops before the
  write; `GrantsAreGiven` excepts exactly these (`clearLost`).
- A decision waits for the stored grants and for the thread's record before its
  grant is chained (service.ts:330-346). Access that is taken away meanwhile
  chains its clearing first (:178-182), and the grant, given before, survives it
  in memory and in storage. `GrantsAreGiven` counts a grant from when it is
  chained.
- Interactive authorization begins only from the settings button
  (docs/en/development/mcp.md:59); a flow that a 401 began opens the login window
  too (oauth.ts:440).
- docs/en/development/mcp.md:57 has resource, issuer, client and tokens remain
  bound. The access token
  is kept per issuer (store.ts:51) and written before the rest (:72): a worker that
  stops in between, or two flows of one issuer, leave a token of one plan of the
  issuer beside the binding of another. When what is found is not what the user
  approved, the credentials are deleted, and a configured client id with them.
- A rejected or interrupted answer to a command of two writes does not mean that
  nothing has happened: `run.resolveUncertain` stores the resolution and may then
  fail to resume (core.ts:738-760, 1114-1124, 428-437), and so with `run.resume`,
  `turn.fork` and `turn.steer`. `ReceiptsTrue` says it of the other commands only.
- A page that turns to a new chat before the snapshot comes that its port was
  opened for drops it (engineClient.ts:672-686, 407) and with it the resending of
  its outbox (:710): who issued those commands waits until the page opens a thread
  or loses its port. `EverySettled` excepts it (`TurnedAway`).
- A fork moves the cursor before its run has written anything. When the worker
  stops then, the run is started again from its record, which does not say that it
  was a fork, at whatever cursor the thread has by then (core.ts:1951-1961), although
  its command was answered as rejected; and when its first transaction fails
  (loop.ts:399, runRepository.ts:470) the cursor stays above the message it
  branched at. `BranchesHold` excepts the thread until something is written or a
  branch is chosen (`forkLost`).
- A recovered result is appended wherever the cursor is by then (core.ts:740),
  which may be a branch without the call it answers.
- The profile's key is read and then written (secretStore.ts:165): two contexts
  may each make one, and what the loser sealed does not open.
- A first message waits in one slot for its thread to be made
  (engineClient.ts:476); starting another new chat meanwhile discards it (:405).
- Every failed attempt counts as a key that is used up (http.ts:330): a call ends
  with the refusal of one key although the others were only rate limited, where
  docs/development/providers.md:200 has it fail when all are invalid.
- A run that resumes checks the slot of its key, not the key
  (providerResolver.ts:290): one replaced in its slot is used.
- A page that leaves a thread in the middle of a turn and comes back, or that
  loses its port meanwhile, misses the deltas streamed in between: a snapshot of
  a running turn keeps the text on view (engineClient.ts:963) and later deltas go
  behind it, so the text has a hole until `turn.complete` brings the stored item.
  docs/en/development/index.md:77 calls deltas temporary overlays; with two deltas
  a turn the model could not show it, with three it does.
- The pages of one path overwrite each other's stored outbox
  (engineClient.ts:208-212; docs/en/development/architecture.md:73): what only one
  of them had stored is not sent again after both are closed.
- A command that finds its thread gone does not make the page leave it, only the
  answer to a subscription does (engineClient.ts:938), although the comment there
  says every command's does.
- A run that resumes is bound again to the tab captured at its submission
  (core.ts:1140, background.ts:446), not to the child tab an action had opened
  (docs/en/development/browser-tools.md:74).
- An abort that comes while the debugger attaches leaves it attached with no idle
  timer (debugger.ts:108).
- docs/en/development/browser-tools.md:55 has a navigation answered with
  `stale_ref` before any input is written. The check is one of several awaited
  commands: a tab that navigates after it gets the rest, a press (debugger.ts:778),
  or the keys and the text (:870-882), in its next document, and the call may
  answer that it succeeded. `DeepWritesRight` says what the check does ensure.
- The sweep of attachments spares one active thread (background.ts:716), where
  quota.ts:3-5 says that it never touches the active thread and several may be.
- The default rules are seeded beside the emptying of an earlier profile
  (background.ts:498), not after it.
- Saving a skill reads and later writes: two pages may give one name twice.

Reads of the stores do not fail in `DataImport`. In the code a journal that was
written and cannot be read back is left behind with commands admitted
(maintenanceCoordinator.ts:167), and a failing read of the marker leaves them
refused.

## Fairness

`ThreadEngine!Fairness` is weak fairness of the actor's own tasks, of recovery,
of each job and of each turn: transactions commit, a model stream or a tool ends
or is aborted by its timeout, timers fire, and the browser starts the worker
again because clients reconnect. Nothing is assumed of users: no command is fair,
and no wait for an interaction ends by itself, which is why `QueueServed` excepts
a thread that waits for an answer, and assumes that the user stops resuming other
runs ahead of the queue. To keep its graph small `thread_stops` begins with one
run left, or with runs that make no more calls (`StopsSpec`): an input queued behind
a wait that was recovered is in neither, and that it is served is not checked (that
it is not forgotten is, and is proved).

`PortFairness` assumes of a page that it reads what arrives and reconnects, of
the host and the core that they go on, and of the worker that it is started
again. Sending is the page's own code, so it is fair too; closing a page, losing
a port and stopping the worker are not.

The other specifications state no fairness: what is checked of them is safety.

## What is proved

All theorems hold for every value of the constants that the named assumptions
admit: `ThreadEngine` (`RunAssumption`, `BoundAssumption`, `ClassAssumption`,
`FaultAssumption`), `DataImport` (`OperationAssumption`, `AbsentAssumption`,
`CrashAssumption`, `FaultAssumption`), and one or two of the kind in the other
modules: a null value is not one of the real ones, a bound is a natural number.
`McpServers` also assumes an address (`ServersAssumption`) and that a fingerprint
is not the absence of one (`FingerprintAssumption`), `TabTargets` that there is a
tab at the start (`TabAssumption`), and `SecretVault` that the lack of a value is
not an envelope (`VaultAssumption`). TLC evaluates each of them.

| theorem | states | of | run |
|---|---|---|---|
| `TypeCorrect` | `TypeOK` | `ThreadEngine` | |
| `OneOwner` | `SingleOwner`, without automation | `ThreadEngine` | `thread_restart` |
| `ApprovedOnly`, `WritesNotResent` | `OnlyApprovedExecutes`, `NoSilentResend`, without automation | `ThreadEngine` | `thread_calls` |
| `NoneForgotten`, `LivesLawfully` | `NobodyForgotten`, `ImplementsLifecycle`, without automation | `ThreadEngine` | `thread_restart` |
| `MarksLetGo` | `MarksReleased`, with manual input and no other fault | `ThreadEngine` | `thread_restart` |
| `ImportTypes` | `TypeOK` | `DataImport` | |
| `ImportIsAtomic`, `ImportAdmitsWhole`, `ImportMarkerMatches`, `ImportNeverReapplied` | `ImplementsAtomicImport`, `AdmitsWhole`, `MarkerMatches`, `NeverReapplied`, one page and not before startup | `DataImport` | `import_crash` |
| `DeliveryInvariant` | `DeliveryInv`, with types | `CommandDelivery` | |
| `CarriedOutOnce`, `ReceiptsTell`, `OneOutcome` | `AtMostOnce`, `ReceiptsTrue`, `ImplementsOutcomes` | `CommandDelivery` | `port` |
| `WaitersAreAnswered` | `WaitsWhereAnswered` | `WorkerPort` | `run_parts` |
| `CleanStart` | `StartsClean` | `WorkerStartup` | `run_parts` |
| `PluginsAreWhole` | `PluginsWhole` | `PluginStore` | `run_parts` |
| `CredentialsStayBound` | `CredentialsBound` | `OAuthLogin` | `run_parts` |
| `CallsAreAsShown` | `CallsAsShown` | `TabTools` | `run_parts` |
| `GoneAreMarked` | `GoneIsMarked` | `Attachments` | `run_parts` |
| `ClientsAreAsStored` | `ConnectedAsStored` | `McpServers` | `services` |
| `CancelledStaysCancelled` | `CancelledNeverRuns` | `McpSession` | `services` |
| `GrantsStayGiven` | `GrantsAreGiven` | `Gatekeeper` | `services` |
| `UpdatesAreKept` | `UpdatesKept` | `SettingsSync` | `services` |
| `RunsUseTheirEnvironment` | `RunsAsResolved` | `RunEnvironment` | `services` |
| `TextGoesWhereTyped` | `SentWhereTyped` | `Composer` | `services` |
| `BranchesAlwaysHold` | `BranchesHold` | `ConversationTree` | `services` |
| `AnswersAreWhole` | `ProviderHeardRight` | `ModelStream` | `services` |
| `ImportsAreUsable` | `ImportedIsUsable` | `Backup`, `SecretVault` | `services` |
| `SteersAreHeard`, `RequestsAreWellFormed` | `SteersHeard`, `RequestsWellFormed` | `AgentLoop` | `run_parts` |
| `TurnsStayOnTheirTabs` | `TurnsKeepTheirTabs` | `TabTargets` | `browser` |
| `CallsActOnce`, `CallsActAsAgreed`, `DialogsRestored` | `ActsOnce`, `ActsAsAgreed`, `RestoredUnlessStopped` | `PageCalls` | `browser` |
| `DeepInputGoesRight` | `DeepWritesRight` | `DeepSession` | `browser` |
| `NothingIsMissed` | `NothingMissed` | `ThreadStream` | `port` |

`PartsOfBrowser` proves that the specification of `browser` implies those of its
three parts, so that a theorem about a part is one about the run.

### The thread

`TypeOK` is inductive: one lemma per action says that the step preserves it, and
the lemmas at the start of `ThreadEngineProofs` say what the updates the actions
share return (a changed field of a turn, a job or a mark, an entry removed from a
queue, the next queued run).

`OneOwner` holds with manual input, late responses, vanished environments and
failing hooks, and not with automation, where it is false. That two runs never
own the thread says nothing of the place that would start a second one, so the
inductive invariant `OwnerInv` collects every place in memory that names the
owner (`Named`: the active turn, the actor's job while it controls a run, the two
marks, the recovery actions not taken yet) and says

- `Alone`: all of them, and the durable states, name the same run;
- `Unnamed`: an owning run that no place names exists only while recovery is
  about to continue it, or before recovery has come to it, or after recovery
  broke, and then nothing else is at work (`Quiet`). This is why a thread that
  looks free is free;
- `PhaseInv`, `ActorInv`, `TurnInv`, `ToolInv`: for each place where recovery,
  the actor's job or a turn may stand, the state of the run it names. `ToolInv`
  is there for one step: recovery continues the newest question of a run, and
  that is the one the run's pending tool asked.

Every action has a lemma `Owner<Action>`; steps of one shape share the argument
(`OwnerWorks`, `OwnerTakesUp`, `OwnerTurns`, `OwnerRestores`).

The second part of `ThreadEngineProofs` is about calls and adds `CallInv`. A call yet to be made is undecided and may be
sent (`FreshInv`); what is asked about is the newest call, which was never sent,
and what executes is fit, that is, nobody was asked or it was accepted
(`RecordInv`); a turn, a job or a recovery that is about to send a call may
(`TurnCallInv`, `JobCallInv`, `TodoCallInv`). The step that matters is a decision
that arrives late: `Decides` says decisions only ever replace `pending`, so a fit
call stays fit. Both properties hold with automation on the instance of
`thread_calls`; the proof needs the single owner, which automation breaks, so
there they stay with TLC.

The third part adds `RunsInv`: the active run has a turn, whatever is worked
on has begun, and the queue in memory holds queued runs, each once, none of which
is being started. With it each step is a lawful move of each run (`Lawful`), and
a lawful move is a step or a stutter of `RunLifecycle` (`LawfulLife`), which is
`LivesLawfully`. `NoneForgotten` follows from `OwnerInv` and `ActiveInv`: an
owning run that nobody names exists only during recovery. `MarkInv` says of each
mark that its run waits, or that the job which is to release it is at work and
which line it stands before; with any fault other than manual input a
continuation can throw in between, and `MarksReleased` is then false (see the
disagreements), hence the hypothesis.

### The import

`TypeOK` alone is not inductive: a step of a commit writes the settings of its
operation, so `TypeInv` adds that a commit at work has one. Under `Serial` (one
page imports, and not before startup has reconciled) the invariant `Inv` has four
parts. `StoreInv` is about the stores alone, whatever the worker does: a journal
without a marker holds the settings that belong to the conversations, and a
marker names the origin of both. It is what a restart can rely on, so `Crash`
preserves it without looking at the memory it loses. `CommitInv` and `BootInv`
say, for each place where a commit or a start may stand, which journal it holds
and how far the settings are written (`Written`) or given back (`GivenBack`); a
partial write is harmless because the journal stays until the settings are whole
again. `UpInv` ties admission to the journal. From `StoreInv`, the settled
settings are always those of the conversations, so every step is a stutter of
`AtomicImport` except `CommitDb`, which is an import.

### Commands

`DeliveryInv` is what a restart relies on. `ReceiptInv` ties each receipt to the
effect of its command: none, and nothing has happened; processing, and a staged
run in the queue is the effect; acknowledged, and it happened; rejected or
interrupted, and it did not, unless the command is one of two writes. `WorkInv` says where `handleOp` is with its command, and that a
processing receipt of a ready worker is the one at work, which is why nobody is
told to wait for another original. `AtMostOnce` and `ReceiptsTrue` follow;
`OneOutcome` maps each step to `CommandOutcome`: the step that closes a receipt
decides, hearing an answer tells, everything else stutters.

### The view of a thread

What is on its way to a page is one queue in three parts: the events on the port,
the deltas being joined, and the events held back while a snapshot is read. Most
steps move something along it or add to its end; a snapshot enters it before the
events held back and drops those it already holds. `StreamInv` says of the queue
(`ChannelInv`) that its events come in the order of their cursors, later than what
the page has heard of the thread, and that each says something that has happened;
of the answers (`OrderInv`) that they come in the order of the submissions; and of
the page

- `AskedInv`: what it asked for last is queued, is being read, is on its way
  back, or there is no such thread any more. While it is being read or on its way
  back, the snapshot and what comes after its cursor make up all of the thread;
- `HeardInv`: once it waits for nothing, what it shows and what the queue still
  has for it make up all of the thread.

`Hears` and `Knows` say "make up all" for the text of a running turn (from the
first piece of it that the page has or will get) and for the items; they stay true when deltas are joined or dropped behind a cursor. That
`NothingMissed` needs the seam was found on the way: an earlier statement without
it held only because the run streamed two deltas a turn.

### The parts around a run

Each section of `RunPartsProofs` and `ServicesProofs` is one part with an
inductive invariant of its own, and a lemma for each action that disturbs it.

- `WorkerPort`: a request waits only while the worker holds a port.
- `WorkerStartup`: the generation mark is on a profile only once nothing earlier
  is in it, and everything behind the preparation runs over a marked profile; no
  epoch is used twice because each is stored, or below the stored one, until it
  is served.
- `PluginStore`: what a page has downloaded is what it shows.
- `OAuthLogin`: what a flow carries from stage to stage (`FlowBound`): the
  credentials it read belong together, its client is that of its plan or a
  configured one, and its approval is of its plan; what is stored (`StoredBound`)
  belongs together between any two of the writes.
- `TabTools`: a call that counts as arrived was dispatched from another page.
- `Attachments`: a linked message that is neither marked nor late is one its row
  will mark (`Held`), and what is about to be erased has been marked (`Swept`).
- `McpServers`: a connected client that no longer is what is stored has something
  on its way that closes it (`Fixing`): a disconnect in the chain, a
  reconciliation that has yet to read, or one that read and will find it stale;
  `VerifyInv` is what the second reading of a connect knows.
- `McpSession`: only the owner's client is open; a cancellation seen first leaves
  a tombstone, or the connection of the call is closed; the call at work heads
  the turns of its client.
- `Gatekeeper`: a clearing that waits in the chain makes what memory and storage
  hold irrelevant, and where none waits and none was lost both hold what the user
  gave. A decision that waits to be applied is nothing in it yet; its grant joins
  what was given when it joins the chain. The first version of this invariant was not preserved: the model's own
  exception missed a restart after a failed write, which the bound of two events
  hid. The exception is now the pending clearings of a restart and of a failure
  (`ClearPending`), and the run has three events.
- `SettingsSync`: a write under the lock is of the list as it is, unless an old
  form was written back; a page shows the last notification, or has a read under
  way that no notification has overtaken.
- `RunEnvironment`: every place that holds a connection (a run, the cache, an
  adapter) holds endpoints and keys that were saved together.

- `Composer`: every place a text can be in (a composer, a stored draft, the slot
  of the first message, a page's submissions, what went out) goes with the
  conversation it was typed in; submissions are numbered, and what is still to go
  out comes after what went out.
- `ConversationTree`: a fork leaves the cursor above its anchor and remembers a
  leaf below it, until it is restarted and no longer a fork; any other cursor of an
  idle thread is at a leaf, unless a fork was lost; a run that waits has no nodes; a
  run that may go on has its nodes above the cursor, or the cursor was moved meanwhile. The
  path to the root is a recursive function; what the proof needs of it (a node of
  the path has its parent there, a longer walk extends a shorter one) goes by
  induction, as a least counterexample.
- `AgentLoop`: a message being stored or waiting comes after all that were given,
  and after the cutoff once it is fixed; whoever ends the turn has stopped
  accepting first. While the calls of an answer are carried out the messages are
  a sound request, then the answer with the calls written so far, then a result
  for each finished one, under ids the request does not have.
- `ModelStream`: the keys from the one in use on have not been refused as
  invalid; what the splitter gave out is the split of the text heard so far up to
  a `<` it holds back (that a split is not changed by later pieces is an
  induction over the text); no call is heard after a finish reason.
- `Backup`: nodes hang below earlier nodes of their own thread and cursors are at
  own nodes, and an accepted import leaves it so. `SecretVault`: from an import
  to the next save every envelope is one that the import sealed for what it is
  now bound to.

### The browser

`TabInv`: a running turn was bound in this life of the worker (to the tab it was
submitted on, or while it carries out a recovered call to the tab that was meant
for, `RecoverInv`), and the changes
that the maps have yet to take in, replayed on whatever was stored, give its
present entries; the tab it is bound to is, while open, one it was told about.
`PageInv` follows a call from the queue to the page and back: it is in the mail
or in the page at most once, it is repeated only when the first try is undone, a
write that may still act holds the dialogs patched, and the patches of a stopped
worker are those nobody restores. `DeepInv` says that the document of a deep ref
lies between the one its loader named and the one the tab shows, that a call at
work on its commands carries the document of its last check, and that what it has
sent while a check may still fail was the focus.

### Only model-checked

- Liveness (`InterruptStops`, `ApprovalTimesOut`, `QueueServed`,
  `NobodyKeptWaiting`): the prover has no rules for fairness.
- The thread's theorems with automation: `OneOwner` is false there, and
  `OnlyApprovedExecutes` and `NoSilentResend`, which TLC finds to hold, would
  need an invariant in which a run may have two workers.

## What is left out

- `turn.fork` starts a turn as `turn.submit` does and is not told apart from it
  in `ThreadEngine`; the tree it edits is in `ConversationTree`.
- Thread deletion in the engine, `queue.update` and titles change none of the
  variables there, or end the thread.
- A command the code refuses changes nothing and is not an action, except where
  the refusal is answered (`CommandDelivery`).
- Budgets: the core gives the loop no token budget, so `paused_budget` is in the
  table and never reached.
- Time: receipts are pruned after seven days, timers may fire at any moment.
- The records an open run names exist: recovery's `recovery_missing` branches
  answer to a damaged database.
- The local secret key, which an import writes only when a backup brings one, is
  not among the settings of `DataImport` (`SecretVault` has it); nor are writers
  of settings other than the import.
- Tasks waiting for the actor run in any order in `ThreadEngine`; the code runs
  them in the order they came, so the model has more behaviours.
- In `Composer` the last input is not sent again after an error (`retryLast`), and
  `WaitsWhereAnswered` is about requests that would wait for ever, not about what a
  late answer settles, since every request has an id of its own.
- A call repeated after a restart because it only reads or may be retried is, in
  `ConversationTree`, one the user resolves: what it appends is the same.
- A recovered call whose tool names no tab is carried out without a binding
  (gateway.ts:594) and is not in `TabTargets`; nor is the comparison of the page's
  origin.
- Wire formats, schemas, rendering, prompts, folders, usage tables, notifications
  and the content of pages: they keep no state the properties tell apart, or are
  outside the repository.

## State of the work

The modules, the runs and the proofs are as planned; every safety invariant a run
checks is also a theorem. Several statements were put in another form for the proofs,
with the same meaning and still close to the code: `AgentLoop` states order and
identity of messages by index (`InOrder`, `UniqueIds`), `ModelStream` and
`ThreadStream` define the split text and the posted events by recursive functions,
and `Composer` removes one submission by its place (`RemoveAt`).

What would come next: `OnlyApprovedExecutes` and `NoSilentResend` with
automation, and a model of what the services do to each other, such as an import
over settings that a page is changing.
