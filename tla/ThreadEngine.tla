---------------------------- MODULE ThreadEngine ----------------------------
(***************************************************************************)
(* One conversation thread of the engine: the durable run, approval and    *)
(* interaction records of IndexedDB, and the background worker's memory of *)
(* them, which a crash erases.                                             *)
(*                                                                         *)
(* Three kinds of process share the thread.                                *)
(*   - The turn of a run (agent/loop.ts): asks the model, asks for         *)
(*     approval, dispatches tools, and records how the run ended.          *)
(*   - The thread's actor (ThreadActor): one job at a time, either a       *)
(*     client command or a task the engine queued for itself.              *)
(*   - The automation (interactionAutomation.ts): alarms and page watchers *)
(*     that answer an interaction without going through the actor.         *)
(* A step is what runs between two awaits that another process can use:    *)
(* one IndexedDB transaction with the synchronous code that follows it.    *)
(***************************************************************************)
EXTENDS Integers, Sequences, FiniteSets, RunState

CONSTANTS
  Run,            \* the runs users may create on the thread
  NoRun,
  MaxCalls,       \* bound: tool calls a run makes
  QueueCapacity,  \* ENQUEUE_CAPACITY of core.ts
  MaxCrashes,     \* bound: restarts of the background worker
  MaxRetries,     \* bound: times the user retries an uncertain tool
  CallClasses,    \* the classes of tools the model may call
  Faults          \* what else happens, among Disturbances

(* automation: alarms and watchers answer interactions; manual: the user   *)
(* types into a page a run drives; late: a response comes for a request    *)
(* already settled; env: a run's provider or tools are gone when it starts *)
(* or continues; hook: onApprovalDecision fails to store a grant.          *)
Disturbances == {"automation", "manual", "late", "env", "hook"}

ASSUME RunAssumption == NoRun \notin Run
ASSUME BoundAssumption ==
  MaxCalls \in Nat \ {0} /\ QueueCapacity \in Nat /\ MaxCrashes \in Nat /\ MaxRetries \in Nat
ASSUME ClassAssumption == CallClasses \subseteq ToolClasses
ASSUME FaultAssumption == Faults \subseteq Disturbances

VARIABLES
  \* durable
  state,           \* RunRecord.state; "absent" before the run is created
  tool,            \* RunRecord.pendingTool
  env,             \* RunRecord.environment has been captured
  calls,           \* tool calls persisted so far (the ordinal in node ids)
  arrived,         \* runs in createdAt order
  approval,        \* ApprovalRecord of each call, by its status or decision
  interaction,     \* InteractionRecord of each call
  \* the worker's memory
  phase,           \* "down", "recovering", "up", or "broken": recover() threw
  todo,            \* recovery actions recover() has not taken yet
  turn,            \* the executing loop of each run
  active,          \* the thread's entry in activeTurns
  approvalMark,    \* the thread's entry in recoveredApprovalsByThread
  interactionMark, \* the thread's entry in recoveredInteractionsByThread
  replay,          \* the thread's entry in recoveryExecutions
  memQueue,        \* the thread's entry in queues
  job,             \* what the actor and the automation are in the middle of
  sched,           \* tasks the engine has queued on the actor
  \* history, read by properties and bounds only
  licence,         \* how many more times the engine may send a write
  userNodes,       \* user messages appended for the run
  crashes, retries

runVars   == <<state, tool, env>>
askVars   == <<approval, interaction>>
madeVars  == <<calls, arrived>>
bootVars  == <<phase, todo>>
turnVars  == <<turn, active>>
markVars  == <<approvalMark, interactionMark>>
queueVars == <<memQueue, sched>>
ghostVars == <<licence, userNodes, crashes, retries>>
vars == <<runVars, askVars, madeVars, bootVars, turnVars, markVars, replay,
          queueVars, job, ghostVars>>

Call == 1 .. MaxCalls
Worker == {"actor", "auto"}
Decision == {"accept", "decline", "cancel"}
Outcome == {"completed", "interrupted", "failed"}

PreparedTool == [call : 0 .. MaxCalls, class : ToolClasses]
NoTool == [call |-> 0, class |-> "read"]
NoMark == [run |-> NoRun, call |-> 0, cancel |-> FALSE]
NoAnswerMark == [run |-> NoRun, call |-> 0]
NoReplay == [run |-> NoRun, interrupted |-> FALSE]
NoTurn == [pc |-> "none", tool |-> NoTool, resume |-> FALSE, aborted |-> FALSE, asked |-> {}]
IdleJob == [pc |-> "idle", run |-> NoRun, call |-> 0, resume |-> FALSE, then |-> {}]

TurnPc == {"none", "admit", "model", "waitApproval", "waitAnswer", "dispatch",
           "running", "settled"} \cup Outcome
JobPc == {"idle", "start", "launch", "wait", "claim", "claimed", "claimAnswer", "markDone",
          "replay", "validate", "dispatch", "replaying", "quarantine", "return"}

(* What the caller of a continuation does after it returns: release the    *)
(* recovered approval, drain the queue, keep an unclaimed response as the  *)
(* thread's mark, or (recover) fail startup if it throws.                  *)
Afterwards == {"finish", "drain", "keep", "boot"}

TurnRecord == [pc : TurnPc, tool : PreparedTool, resume : BOOLEAN, aborted : BOOLEAN,
               asked : SUBSET (0 .. MaxCalls)]
JobRecord == [pc : JobPc, run : Run \cup {NoRun}, call : 0 .. MaxCalls, resume : BOOLEAN,
              then : SUBSET Afterwards]
ApprovalMark == [run : Run \cup {NoRun}, call : 0 .. MaxCalls, cancel : BOOLEAN]
AnswerMark == [run : Run \cup {NoRun}, call : 0 .. MaxCalls]
ReplayRecord == [run : Run \cup {NoRun}, interrupted : BOOLEAN]

TypeOK ==
  /\ state \in [Run -> RunStates \cup {"absent"}]
  /\ tool \in [Run -> PreparedTool]
  /\ env \in [Run -> BOOLEAN]
  /\ calls \in [Run -> 0 .. MaxCalls]
  /\ arrived \in Seq(Run)
  /\ approval \in [Run -> [Call -> {"none", "pending"} \cup Decision]]
  /\ interaction \in [Run -> [Call -> {"none", "pending", "resolved"}]]
  /\ phase \in {"down", "recovering", "up", "broken"}
  /\ todo \in [Run -> RecoveryActions \cup {"drain", "done"}]
  /\ turn \in [Run -> TurnRecord]
  /\ active \in Run \cup {NoRun}
  /\ approvalMark \in ApprovalMark
  /\ interactionMark \in AnswerMark
  /\ replay \in ReplayRecord
  /\ memQueue \in Seq(Run)
  /\ job \in [Worker -> JobRecord]
  /\ sched \in SUBSET {"drain", "afterTurn", "pause"}
  /\ licence \in [Run -> [Call -> Int]]
  /\ userNodes \in [Run -> Nat]
  /\ crashes \in Nat
  /\ retries \in Nat

(* Nothing is being done: no turn, no task, no approval and no answer.     *)
Idle ==
  /\ tool = [r \in Run |-> NoTool]
  /\ env = [r \in Run |-> FALSE]
  /\ approval = [r \in Run |-> [c \in Call |-> "none"]]
  /\ interaction = [r \in Run |-> [c \in Call |-> "none"]]
  /\ phase = "up"
  /\ todo = [r \in Run |-> "done"]
  /\ turn = [r \in Run |-> NoTurn]
  /\ active = NoRun
  /\ approvalMark = NoMark
  /\ interactionMark = NoAnswerMark
  /\ replay = NoReplay
  /\ memQueue = <<>>
  /\ job = [w \in Worker |-> IdleJob]
  /\ sched = {}
  /\ licence = [r \in Run |-> [c \in Call |-> 1]]
  /\ userNodes = [r \in Run |-> 0]
  /\ retries = 0

Init ==
  /\ state = [r \in Run |-> "absent"]
  /\ calls = [r \in Run |-> 0]
  /\ arrived = <<>>
  /\ crashes = 0
  /\ Idle

-----------------------------------------------------------------------------
(* Reading the records.                                                    *)

HasTool(r) == tool[r].call # 0

Queued == {r \in Run : state[r] = "queued"}

(* nextQueued: the oldest durable queued run. *)
NextQueued ==
  LET oldest == {i \in DOMAIN arrived :
                   /\ arrived[i] \in Queued
                   /\ \A j \in 1 .. i - 1 : arrived[j] \notin Queued}
  IN  IF oldest = {} THEN NoRun ELSE arrived[CHOOSE i \in oldest : TRUE]

(* queue.filter: an entry is in the queue once at most. *)
Without(queue, r) ==
  IF \E i \in DOMAIN queue : queue[i] = r
  THEN LET i == CHOOSE i \in DOMAIN queue : queue[i] = r
       IN  SubSeq(queue, 1, i - 1) \o SubSeq(queue, i + 1, Len(queue))
  ELSE queue

Decided(r, c) == approval[r][c] \in Decision

(* latestForRun: the calls of a run are made one after the other. *)
IsLatestApproval(r, c) == \A later \in Call : later > c => approval[r][later] = "none"

(* pendingApprovals and pendingInteractions: the waiter the live loop left. *)
ApprovalWaiter(r, c) ==
  turn[r].pc = "waitApproval" /\ turn[r].tool.call = c /\ approval[r][c] = "pending"
AnswerWaiter(r, c) == c \in turn[r].asked

ApprovalMarked(r, c) == approvalMark.run = r /\ approvalMark.call = c
AnswerMarked(r, c) == interactionMark.run = r /\ interactionMark.call = c

(* hasRunningExecution and isThreadBusy. *)
Running == active # NoRun \/ replay.run # NoRun
MutBusyIgnoresApproval == Running \/ interactionMark.run # NoRun
MutBusyIgnoresAnswer == Running \/ approvalMark.run # NoRun
Busy == Running \/ approvalMark.run # NoRun \/ interactionMark.run # NoRun

-----------------------------------------------------------------------------
(* Writing the records. Every transaction that moves a run first asserts   *)
(* the transition, and throws when the table does not allow it.            *)

Write(r, to, newTool) ==
  /\ state' = [state EXCEPT ![r] = to]
  /\ tool' = [tool EXCEPT ![r] = newTool]

Goto(r, pc) == turn' = [turn EXCEPT ![r].pc = pc]

(* A transaction of the loop; the loop's catch ends the turn as failed. *)
TurnWrites(r, to, newTool, pc) ==
  IF CanTransition(state[r], to)
  THEN /\ Write(r, to, newTool)
       /\ turn' = [turn EXCEPT ![r].pc = pc, ![r].tool = newTool]
  ELSE Goto(r, "failed") /\ UNCHANGED <<state, tool>>

(* A job's control flow. *)
Step(w, pc) == job' = [job EXCEPT ![w].pc = pc]
StartRun(w, r, resume, then) ==
  job' = [job EXCEPT ![w] = [pc |-> "start", run |-> r, call |-> 0,
                             resume |-> resume, then |-> then]]
ResumeRun(w) == job' = [job EXCEPT ![w].pc = "start", ![w].resume = TRUE]

(* A continuation that throws skips the rest of its caller; recover() that *)
(* throws leaves the worker refusing commands.                             *)
Throw(w) ==
  /\ job' = [job EXCEPT ![w] = IdleJob]
  /\ phase' = IF "boot" \in job[w].then THEN "broken" ELSE phase

(* finishRecoveryExecution, in every finally of replayPreparedTool. *)
EndReplay(w) == replay' = IF replay.run = job[w].run THEN NoReplay ELSE replay

(* tool.execute of a write may be sent once, and once more per user retry. *)
Send(r, prepared) ==
  licence' = IF prepared.class # "write" THEN licence
             ELSE [licence EXCEPT ![r][prepared.call] = @ - 1]

-----------------------------------------------------------------------------
(* Client commands: the host admits them once recovery is done, and the    *)
(* actor dispatches them one at a time.                                    *)

ActorIdle == phase # "down" /\ job["actor"].pc = "idle"
Admitted == phase = "up" /\ ActorIdle

(* turn.submit (and turn.fork) on an idle thread: startTurn creates the run. *)
Submit(r) ==
  /\ Admitted /\ ~Busy /\ state[r] = "absent"
  /\ state' = [state EXCEPT ![r] = "queued"]
  /\ arrived' = Append(arrived, r)
  /\ StartRun("actor", r, FALSE, {})
  /\ UNCHANGED <<tool, env, calls, askVars, bootVars, turnVars, markVars, replay,
                 queueVars, ghostVars>>

(* turn.enqueue, and turn.submit on a busy thread. *)
Enqueue(r) ==
  /\ Admitted /\ state[r] = "absent"
  /\ Cardinality(Queued) < QueueCapacity
  /\ state' = [state EXCEPT ![r] = "queued"]
  /\ arrived' = Append(arrived, r)
  /\ memQueue' = Append(memQueue, r)
  /\ sched' = IF Busy THEN sched ELSE sched \cup {"drain"}
  /\ UNCHANGED <<tool, env, calls, askVars, bootVars, turnVars, markVars, replay,
                 job, ghostVars>>

(* queue.remove *)
RemoveQueued(r) ==
  /\ Admitted /\ state[r] = "queued"
  /\ state' = [state EXCEPT ![r] = "interrupted"]
  /\ memQueue' = Without(memQueue, r)
  /\ UNCHANGED <<tool, env, madeVars, askVars, bootVars, turnVars, markVars, replay,
                 sched, job, ghostVars>>

(* turn.interrupt *)
Interrupt ==
  /\ Admitted /\ active # NoRun /\ ~turn[active].aborted
  /\ turn' = [turn EXCEPT ![active].aborted = TRUE]
  /\ UNCHANGED <<runVars, madeVars, askVars, bootVars, active, markVars, replay,
                 queueVars, job, ghostVars>>

(* run.resume *)
Resume(r) ==
  /\ Admitted /\ ~Busy
  /\ state[r] \in {"interrupted", "paused_budget"}
  /\ StartRun("actor", r, TRUE, {})
  /\ UNCHANGED <<runVars, madeVars, askVars, bootVars, turnVars, markVars, replay,
                 queueVars, ghostVars>>

(* run.resolveUncertain: the user says the write failed, was done, or is   *)
(* to be sent again.                                                       *)
ResolveUncertain(r, resolution) ==
  /\ Admitted /\ ~Busy
  /\ state[r] = "paused_uncertain"
  /\ state' = [state EXCEPT ![r] = IF resolution = "fail" THEN "failed" ELSE "preparing"]
  /\ \/ resolution = "fail" /\ UNCHANGED <<job, licence, retries>>
     \/ /\ resolution = "mark_done"
        /\ job' = [job EXCEPT !["actor"] = [IdleJob EXCEPT !.pc = "markDone", !.run = r]]
        /\ UNCHANGED <<licence, retries>>
     \/ /\ resolution = "retry" /\ retries < MaxRetries
        /\ job' = [job EXCEPT !["actor"] = [IdleJob EXCEPT !.pc = "replay", !.run = r]]
        /\ licence' = IF HasTool(r) THEN [licence EXCEPT ![r][tool[r].call] = @ + 1]
                      ELSE licence
        /\ retries' = retries + 1
  /\ UNCHANGED <<tool, env, madeVars, askVars, bootVars, turnVars, markVars, replay,
                 queueVars, userNodes, crashes>>

(* approval.response: settles the loop's waiter, or decides the durable    *)
(* record and tries to continue the run from it.                           *)
ApprovalResponse(r, c, decision) ==
  /\ Admitted /\ approval[r][c] # "none"
  /\ \/ "late" \in Faults
     \/ approval[r][c] = "pending" /\ (ApprovalWaiter(r, c) \/ ApprovalMarked(r, c))
  /\ approval' = [approval EXCEPT ![r][c] = IF @ = "pending" THEN decision ELSE @]
  /\ IF ApprovalWaiter(r, c) THEN UNCHANGED job
     ELSE job' = [job EXCEPT !["actor"] =
                    [pc |-> IF ApprovalMarked(r, c) THEN "wait" ELSE "claim",
                     run |-> r, call |-> c, resume |-> FALSE,
                     then |-> IF ApprovalMarked(r, c) THEN {"drain"} ELSE {"keep", "drain"}]]
  /\ UNCHANGED <<runVars, madeVars, interaction, bootVars, turnVars, markVars, replay,
                 queueVars, ghostVars>>

(* resolveInteraction: as above for an answer, by worker w. *)
Answer(w, r, c) ==
  /\ interaction' = [interaction EXCEPT ![r][c] = "resolved"]
  /\ turn' = [turn EXCEPT ![r].asked = @ \ {c}]
  /\ IF AnswerWaiter(r, c) THEN UNCHANGED job
     ELSE job' = [job EXCEPT ![w] =
                    [pc |-> IF AnswerMarked(r, c) THEN "wait" ELSE "claimAnswer",
                     run |-> r, call |-> c, resume |-> FALSE,
                     then |-> IF AnswerMarked(r, c) THEN {} ELSE {"keep"}]]
  /\ UNCHANGED <<runVars, madeVars, approval, bootVars, active, markVars, replay,
                 queueVars, ghostVars>>

(* interaction.response *)
InteractionResponse(r, c) ==
  /\ Admitted /\ interaction[r][c] # "none"
  /\ \/ "late" \in Faults
     \/ interaction[r][c] = "pending" /\ (AnswerWaiter(r, c) \/ AnswerMarked(r, c))
  /\ Answer("actor", r, c)

(* An alarm fires or a watched page condition holds. *)
AutomationAnswer(r, c) ==
  /\ "automation" \in Faults /\ phase # "down" /\ job["auto"].pc = "idle"
  /\ interaction[r][c] = "pending"
  /\ tool[r].call = c /\ tool[r].class = "interactive"
  /\ AnswerWaiter(r, c) \/ AnswerMarked(r, c)
  /\ Answer("auto", r, c)

(* pauseThread: manual input on a page the run drives. It sets the flags   *)
(* outside the actor and queues the decision of a recovered approval.      *)
PauseThread ==
  /\ "manual" \in Faults /\ phase # "down"
  /\ \/ active # NoRun /\ ~turn[active].aborted
     \/ replay.run # NoRun /\ ~replay.interrupted
     \/ approvalMark.run # NoRun /\ ~approvalMark.cancel
  /\ turn' = [r \in Run |-> IF r = active THEN [turn[r] EXCEPT !.aborted = TRUE] ELSE turn[r]]
  /\ approvalMark' = [approvalMark EXCEPT !.cancel = (approvalMark.run # NoRun)]
  /\ replay' = [replay EXCEPT !.interrupted = (replay.run # NoRun)]
  /\ sched' = IF approvalMark.run # NoRun THEN sched \cup {"pause"} ELSE sched
  /\ UNCHANGED <<runVars, madeVars, askVars, bootVars, active, interactionMark, memQueue,
                 job, ghostVars>>
-----------------------------------------------------------------------------
(* Tasks the engine queues on the actor for itself.                        *)

Task(name) == ActorIdle /\ name \in sched /\ sched' = sched \ {name}

(* The end of a turn continues a recovered wait, then drains the queue;    *)
(* an enqueue on an idle thread only drains.                               *)
RunTask(name) ==
  /\ Task(name)
  /\ job' = [job EXCEPT !["actor"] =
               [IdleJob EXCEPT !.pc = IF name = "afterTurn" THEN "wait" ELSE "return",
                               !.then = {"drain"}]]
  /\ UNCHANGED <<runVars, madeVars, askVars, bootVars, turnVars, markVars, replay,
                 memQueue, ghostVars>>

(* A recovered approval still waits for its decision. *)
MarkWaits ==
  \E r \in Run, c \in Call :
    ApprovalMarked(r, c) /\ state[r] = "waiting_approval" /\ approval[r][c] = "pending"

(* It is decided without the user. *)
DecideMarked(decision) ==
  /\ approval' = [approval EXCEPT ![approvalMark.run][approvalMark.call] = decision]
  /\ job' = [job EXCEPT !["actor"] =
               [IdleJob EXCEPT !.pc = "wait", !.run = approvalMark.run, !.then = {"drain"}]]

(* pauseThread's task: `cancel' is only set on the mark the pause found. *)
PauseApproval ==
  /\ Task("pause")
  /\ IF approvalMark.cancel /\ MarkWaits THEN DecideMarked("cancel")
     ELSE UNCHANGED <<approval, job>>
  /\ UNCHANGED <<runVars, madeVars, interaction, bootVars, turnVars, markVars, replay,
                 memQueue, ghostVars>>

(* scheduleRecoveredApprovalTimeout *)
MutNoRecoveredTimer == FALSE

RecoveredApprovalTimeout ==
  /\ ActorIdle /\ MarkWaits /\ DecideMarked("decline")
  /\ UNCHANGED <<runVars, madeVars, interaction, bootVars, turnVars, markVars, replay,
                 queueVars, ghostVars>>

-----------------------------------------------------------------------------
(* Starting a run: startTurn.                                              *)

(* A run whose environment was captured is restored from the snapshot;     *)
(* a resume without one is refused.                                        *)
Recovering(w) == job[w].resume \/ env[job[w].run]
EnvMissing(w) == Recovering(w) /\ ~env[job[w].run]

StartFails(w) ==
  LET r == job[w].run IN
  /\ job[w].pc = "start"
  /\ "env" \in Faults \/ EnvMissing(w)
  /\ state' = IF CanTransition(state[r], "failed") THEN [state EXCEPT ![r] = "failed"] ELSE state
  /\ Throw(w) /\ EndReplay(w)
  /\ UNCHANGED <<tool, env, madeVars, askVars, todo, turnVars, markVars, queueVars, ghostVars>>

(* runs.prepare for a new run, a transition for a stopped one. *)
StartPrepares(w) ==
  LET r == job[w].run IN
  /\ job[w].pc = "start" /\ ~EnvMissing(w)
  /\ state' = IF ~Recovering(w)
                 \/ state[r] \in {"queued", "interrupted", "paused_budget", "paused_uncertain"}
              THEN [state EXCEPT ![r] = "preparing"] ELSE state
  /\ env' = [env EXCEPT ![r] = TRUE]
  /\ Step(w, "launch")
  /\ UNCHANGED <<tool, madeVars, askVars, bootVars, turnVars, markVars, replay,
                 queueVars, ghostVars>>

(* runTurn, and the entry in activeTurns. *)
Launch(w) ==
  LET r == job[w].run IN
  /\ job[w].pc = "launch"
  /\ turn' = [turn EXCEPT ![r] = [NoTurn EXCEPT !.pc = "admit", !.resume = job[w].resume]]
  /\ active' = r
  /\ Step(w, "return") /\ EndReplay(w)
  /\ UNCHANGED <<runVars, madeVars, askVars, bootVars, markVars, queueVars, ghostVars>>

(* finishRecoveredApproval, when a continuation returns. *)
MutReleasesIfIdle(w) ==
  "finish" \in job[w].then /\ ApprovalMarked(job[w].run, job[w].call) /\ ~Running

Releases(w) == "finish" \in job[w].then /\ ApprovalMarked(job[w].run, job[w].call)

(* Then drainQueueNow, which prefers the queue in memory to the durable    *)
(* one.                                                                    *)
Return(w) ==
  LET free     == ~Running /\ interactionMark.run = NoRun
                    /\ (approvalMark.run = NoRun \/ Releases(w))
      next     == IF memQueue # <<>> THEN Head(memQueue) ELSE NextQueued
      drains   == "drain" \in job[w].then /\ free /\ next # NoRun
  IN
  /\ job[w].pc = "return"
  /\ approvalMark' = IF Releases(w) THEN NoMark ELSE approvalMark
  /\ memQueue' = IF drains /\ memQueue # <<>> THEN Tail(memQueue) ELSE memQueue
  /\ IF drains THEN StartRun(w, next, FALSE, job[w].then \cap {"boot"})
     ELSE job' = [job EXCEPT ![w] = IdleJob]
  /\ UNCHANGED <<runVars, madeVars, askVars, bootVars, turnVars, interactionMark, replay,
                 sched, ghostVars>>

-----------------------------------------------------------------------------
(* Continuing a decided approval or a resolved interaction without a loop. *)

(* continueRecoveredWait: a recovered approval comes before a recovered    *)
(* interaction.                                                            *)
ApprovalReady ==
  ~Running /\ approvalMark.run # NoRun /\ Decided(approvalMark.run, approvalMark.call)
AnswerReady ==
  /\ ~Running /\ approvalMark.run = NoRun /\ interactionMark.run # NoRun
  /\ interaction[interactionMark.run][interactionMark.call] = "resolved"

Wait(w) ==
  /\ job[w].pc = "wait"
  /\ \/ /\ ApprovalReady
        /\ job' = [job EXCEPT ![w].pc = "claim", ![w].run = approvalMark.run,
                              ![w].call = approvalMark.call, ![w].then = @ \cup {"finish"}]
     \/ /\ AnswerReady
        /\ job' = [job EXCEPT ![w].pc = "claimAnswer", ![w].run = interactionMark.run,
                              ![w].call = interactionMark.call]
     \/ ~ApprovalReady /\ ~AnswerReady /\ Step(w, "return")
  /\ UNCHANGED <<runVars, madeVars, askVars, bootVars, turnVars, markVars, replay,
                 queueVars, ghostVars>>

(* The state in which a claimed decision continues its run. *)
MutAfterDecline == [accept |-> "executing_tool", decline |-> "executing_tool",
                    cancel |-> "interrupted"]
AfterDecision == [accept |-> "executing_tool", decline |-> "streaming_model",
                  cancel |-> "interrupted"]

(* claimDecidedContinuation: the run leaves waiting_approval exactly when  *)
(* the claim commits. A response nobody could claim yet becomes the mark.  *)
Claim(w) ==
  LET r == job[w].run
      c == job[w].call
      claimable == ~Running /\ Decided(r, c) /\ IsLatestApproval(r, c)
                     /\ state[r] = "waiting_approval"
      kept == "keep" \in job[w].then /\ state[r] = "waiting_approval"
  IN
  /\ job[w].pc = "claim"
  /\ \/ /\ claimable
        /\ state' = [state EXCEPT ![r] = AfterDecision[approval[r][c]]]
        /\ Step(w, "claimed")
        /\ UNCHANGED approvalMark
     \/ /\ ~claimable
        /\ approvalMark' = IF kept THEN [run |-> r, call |-> c, cancel |-> FALSE]
                           ELSE approvalMark
        /\ job' = [job EXCEPT ![w].pc = "return", ![w].then = @ \ {"finish"}]
        /\ UNCHANGED state
  /\ UNCHANGED <<tool, env, madeVars, askVars, bootVars, turnVars, interactionMark, replay,
                 queueVars, ghostVars>>

(* continueDecidedApproval after the claim: the grant hook, then the tool  *)
(* for an accept, its refusal recorded as a result otherwise.              *)
Claimed(w) ==
  LET r == job[w].run
      decision == approval[r][job[w].call]
  IN
  /\ job[w].pc = "claimed"
  /\ \/ "hook" \in Faults /\ Throw(w) /\ UNCHANGED tool
     \/ decision = "accept" /\ Step(w, "replay") /\ UNCHANGED <<phase, tool>>
     \/ /\ decision = "decline" /\ ResumeRun(w)
        /\ tool' = [tool EXCEPT ![r] = NoTool] /\ UNCHANGED phase
     \/ /\ decision = "cancel" /\ Step(w, "return")
        /\ tool' = [tool EXCEPT ![r] = NoTool] /\ UNCHANGED phase
  /\ UNCHANGED <<state, env, madeVars, askVars, todo, turnVars, markVars, replay,
                 queueVars, ghostVars>>

(* claimResolvedContinuation and continueResolvedInteraction. *)
ClaimAnswer(w) ==
  LET r == job[w].run
      c == job[w].call
      claimable == ~Running /\ interaction[r][c] = "resolved"
                     /\ state[r] = "waiting_interaction" /\ tool[r].call = c
      kept == "keep" \in job[w].then /\ state[r] = "waiting_interaction"
  IN
  /\ job[w].pc = "claimAnswer"
  /\ \/ /\ claimable
        /\ Write(r, "streaming_model", NoTool)
        /\ interactionMark' = NoAnswerMark
        /\ ResumeRun(w)
     \/ /\ ~claimable
        /\ interactionMark' = IF kept THEN [run |-> r, call |-> c] ELSE interactionMark
        /\ Step(w, "return")
        /\ UNCHANGED <<state, tool>>
  /\ UNCHANGED <<env, madeVars, askVars, bootVars, turnVars, approvalMark, replay,
                 queueVars, ghostVars>>

-----------------------------------------------------------------------------
(* Sending a prepared tool again: replayPreparedTool. It is entered from   *)
(* preparing or executing_tool, from which the table allows all it writes. *)

(* resolveUncertain's mark_done: the user's word becomes the result. *)
MarkDone(w) ==
  LET r == job[w].run IN
  /\ job[w].pc = "markDone"
  /\ IF HasTool(r) THEN Write(r, "streaming_model", NoTool) /\ ResumeRun(w) /\ UNCHANGED phase
     ELSE Throw(w) /\ UNCHANGED <<state, tool>>
  /\ UNCHANGED <<env, madeVars, askVars, todo, turnVars, markVars, replay,
                 queueVars, ghostVars>>

(* The tool is missing, or the environment cannot be restored: the run     *)
(* fails. The tool itself is gone: that becomes the result. Otherwise the  *)
(* execution is entered in recoveryExecutions, already interrupted when a  *)
(* manual operation came while the approval was being continued.           *)
Replay(w) ==
  LET r == job[w].run IN
  /\ job[w].pc = "replay"
  /\ \/ /\ ~HasTool(r) \/ ~env[r] \/ "env" \in Faults
        /\ Write(r, "failed", NoTool) /\ Step(w, "return")
        /\ UNCHANGED replay
     \/ /\ HasTool(r) /\ env[r] /\ "env" \in Faults
        /\ Write(r, "streaming_model", NoTool) /\ ResumeRun(w)
        /\ UNCHANGED replay
     \/ /\ HasTool(r) /\ env[r]
        /\ replay' = [run |-> r, interrupted |-> approvalMark.cancel]
        /\ Step(w, "validate")
        /\ UNCHANGED <<state, tool>>
  /\ UNCHANGED <<env, madeVars, askVars, bootVars, turnVars, markVars, queueVars, ghostVars>>

(* onValidateRecoveredTool: the target and the authorization are checked   *)
(* again, which may find them gone.                                        *)
Validate(w) ==
  LET r == job[w].run IN
  /\ job[w].pc = "validate"
  /\ \/ /\ replay.interrupted
        /\ Write(r, "interrupted", NoTool) /\ Step(w, "return") /\ EndReplay(w)
     \/ /\ ~replay.interrupted
        /\ Write(r, "executing_tool", tool[r]) /\ Step(w, "dispatch")
        /\ UNCHANGED replay
     \/ /\ ~replay.interrupted
        /\ Write(r, "streaming_model", NoTool) /\ ResumeRun(w)
        /\ UNCHANGED replay
  /\ UNCHANGED <<env, madeVars, askVars, bootVars, turnVars, markVars, queueVars, ghostVars>>

(* The abort signal is read once more before tool.execute. *)
ReplayDispatch(w) ==
  LET r == job[w].run IN
  /\ job[w].pc = "dispatch"
  /\ IF replay.interrupted
     THEN /\ Write(r, "interrupted", NoTool) /\ Step(w, "return") /\ EndReplay(w)
          /\ UNCHANGED licence
     ELSE /\ Send(r, tool[r]) /\ Step(w, "replaying")
          /\ UNCHANGED <<state, tool, replay>>
  /\ UNCHANGED <<env, madeVars, askVars, bootVars, turnVars, markVars, queueVars,
                 userNodes, crashes, retries>>

(* The replayed tool settles: an interrupted write has an unknown outcome. *)
ReplaySettles(w) ==
  LET r == job[w].run IN
  /\ job[w].pc = "replaying"
  /\ IF ~replay.interrupted
     THEN Write(r, "streaming_model", NoTool) /\ ResumeRun(w) /\ UNCHANGED replay
     ELSE /\ IF HasWriteEffect(tool[r].class) THEN Write(r, "paused_uncertain", tool[r])
             ELSE Write(r, "interrupted", NoTool)
          /\ Step(w, "return") /\ EndReplay(w)
  /\ UNCHANGED <<env, madeVars, askVars, bootVars, turnVars, markVars, queueVars, ghostVars>>

(* recoveryToolTimeoutMs passes first; the job then waits for the tool to  *)
(* settle and drops its result.                                            *)
ReplayTimeout(w) ==
  LET r == job[w].run IN
  /\ job[w].pc = "replaying" /\ ~replay.interrupted
  /\ IF HasWriteEffect(tool[r].class) THEN Write(r, "paused_uncertain", tool[r])
     ELSE Write(r, "failed", NoTool)
  /\ Step(w, "quarantine")
  /\ UNCHANGED <<env, madeVars, askVars, bootVars, turnVars, markVars, replay,
                 queueVars, ghostVars>>

Quarantine(w) ==
  /\ job[w].pc = "quarantine"
  /\ Step(w, "return") /\ EndReplay(w)
  /\ UNCHANGED <<runVars, madeVars, askVars, bootVars, turnVars, markVars, queueVars, ghostVars>>

-----------------------------------------------------------------------------
(* A crash erases the worker's memory. Starting again is recover(): one    *)
(* transaction decides about every open run, then each is dealt with in    *)
(* the order of the records, which is arbitrary, and the queue is drained. *)

Crash ==
  /\ phase # "down" /\ crashes < MaxCrashes
  /\ phase' = "down" /\ crashes' = crashes + 1
  /\ todo' = [r \in Run |-> "done"]
  /\ turn' = [r \in Run |-> NoTurn]
  /\ active' = NoRun
  /\ approvalMark' = NoMark /\ interactionMark' = NoAnswerMark
  /\ replay' = NoReplay
  /\ memQueue' = <<>> /\ sched' = {}
  /\ job' = [w \in Worker |-> IdleJob]
  /\ UNCHANGED <<runVars, madeVars, askVars, licence, userNodes, retries>>

MutReplaysAnyTool(r) == HasTool(r)
SafeToReplay(r) == HasTool(r) /\ Replayable(tool[r].class)

(* A queued run whose environment was never captured needs no check. *)
NeverStarted(r) ==
  RecoveryAction(state[r], SafeToReplay(r)) = "resume_run" /\ ~env[r]

(* recoverOpenRuns *)
Boot ==
  /\ phase = "down" /\ phase' = "recovering"
  /\ LET open == {r \in Run : state[r] \notin Terminal \cup {"absent"}}
     IN  /\ state' = [r \in Run |-> IF r \in open THEN RecoveredState(state[r], SafeToReplay(r))
                                     ELSE state[r]]
         /\ todo' = [r \in Run |->
              IF r \notin open THEN "done"
              ELSE IF NeverStarted(r) THEN "drain"
              ELSE RecoveryAction(state[r], SafeToReplay(r))]
  /\ UNCHANGED <<tool, env, madeVars, askVars, turnVars, markVars, replay, queueVars, job,
                 ghostVars>>

Recovers(r, action) ==
  /\ phase = "recovering" /\ ActorIdle
  /\ todo[r] = action
  /\ todo' = [todo EXCEPT ![r] = IF action = "resume_run" THEN "drain" ELSE "done"]

(* rejectUnsupportedRecovery *)
RecoverRejects(r) ==
  /\ phase = "recovering" /\ ActorIdle
  /\ todo[r] \notin {"done", "drain"}
  /\ "env" \in Faults \/ ~env[r]
  /\ Write(r, "failed", NoTool)
  /\ todo' = [todo EXCEPT ![r] = "done"]
  /\ UNCHANGED <<env, madeVars, askVars, phase, turnVars, markVars, replay, queueVars, job,
                 ghostVars>>

(* Nothing is done yet for a queued run, or one only the user can resume. *)
RecoverLater(r) ==
  /\ env[r]
  /\ \E action \in {"resume_run", "request_resolution", "request_resume", "none"} :
       Recovers(r, action)
  /\ UNCHANGED <<runVars, madeVars, askVars, phase, turnVars, markVars, replay, queueVars, job,
                 ghostVars>>

RecoverReplay(r) ==
  /\ env[r] /\ Recovers(r, "replay_tool")
  /\ job' = [job EXCEPT !["actor"] =
               [IdleJob EXCEPT !.pc = "replay", !.run = r, !.then = {"boot"}]]
  /\ UNCHANGED <<runVars, madeVars, askVars, phase, turnVars, markVars, replay, queueVars,
                 ghostVars>>

(* A decided approval is continued at once, an expired one is declined     *)
(* first, any other gets the thread's mark and a timer.                    *)
RecoverApproval(r) ==
  /\ env[r] /\ Recovers(r, "restore_approval")
  /\ \E c \in Call :
       /\ approval[r][c] # "none" /\ IsLatestApproval(r, c)
       /\ \/ /\ job' = [job EXCEPT !["actor"] = [pc |-> "claim", run |-> r, call |-> c,
                                                 resume |-> FALSE, then |-> {"boot"}]]
             /\ approval' = [approval EXCEPT ![r][c] = IF @ = "pending" THEN "decline" ELSE @]
             /\ UNCHANGED approvalMark
          \/ /\ approval[r][c] = "pending"
             /\ approvalMark' = [run |-> r, call |-> c, cancel |-> FALSE]
             /\ UNCHANGED <<approval, job>>
  /\ UNCHANGED <<runVars, madeVars, interaction, phase, turnVars, interactionMark, replay,
                 queueVars, ghostVars>>

RecoverInteraction(r) ==
  /\ env[r] /\ Recovers(r, "restore_interaction")
  /\ \E c \in Call :
       /\ interaction[r][c] # "none"
       /\ \A later \in Call : later > c => interaction[r][later] = "none"
       /\ \/ /\ interaction[r][c] = "resolved"
             /\ job' = [job EXCEPT !["actor"] = [pc |-> "claimAnswer", run |-> r, call |-> c,
                                                 resume |-> FALSE, then |-> {"boot"}]]
             /\ UNCHANGED interactionMark
          \/ /\ interaction[r][c] = "pending"
             /\ interactionMark' = [run |-> r, call |-> c]
             /\ UNCHANGED job
  /\ UNCHANGED <<runVars, madeVars, askVars, phase, turnVars, approvalMark, replay,
                 queueVars, ghostVars>>

(* The queues are drained when any queued run was recovered, then the host *)
(* opens admission.                                                        *)
MutRecoverForgetsQueue ==
  /\ phase = "recovering" /\ ActorIdle
  /\ \A r \in Run : todo[r] \in {"done", "drain"}
  /\ \E r \in Run : todo[r] = "drain"
  /\ todo' = [r \in Run |-> "done"]
  /\ UNCHANGED <<runVars, madeVars, askVars, phase, turnVars, markVars, replay, queueVars, job,
                 ghostVars>>

RecoverDrain ==
  /\ phase = "recovering" /\ ActorIdle
  /\ \A r \in Run : todo[r] \in {"done", "drain"}
  /\ \E r \in Run : todo[r] = "drain"
  /\ todo' = [r \in Run |-> "done"]
  /\ job' = [job EXCEPT !["actor"] = [IdleJob EXCEPT !.pc = "return", !.then = {"boot", "drain"}]]
  /\ UNCHANGED <<runVars, madeVars, askVars, phase, turnVars, markVars, replay, queueVars,
                 ghostVars>>

RecoverDone ==
  /\ phase = "recovering" /\ "boot" \notin job["actor"].then
  /\ \A r \in Run : todo[r] = "done"
  /\ phase' = "up"
  /\ UNCHANGED <<runVars, madeVars, askVars, todo, turnVars, markVars, replay, queueVars, job,
                 ghostVars>>

-----------------------------------------------------------------------------
(* The turn of a run: runTurn's execute().                                 *)

(* The user message is appended with the first write, unless the turn      *)
(* resumes a run that has it.                                              *)
Admit(r) ==
  /\ turn[r].pc = "admit"
  /\ IF CanTransition(state[r], "streaming_model")
     THEN /\ state' = [state EXCEPT ![r] = "streaming_model"]
          /\ turn' = [turn EXCEPT ![r].pc = "model", ![r].resume = FALSE]
          /\ userNodes' = IF turn[r].resume THEN userNodes ELSE [userNodes EXCEPT ![r] = @ + 1]
     ELSE Goto(r, "failed") /\ UNCHANGED <<state, userNodes>>
  /\ UNCHANGED <<tool, env, madeVars, askVars, bootVars, active, markVars, replay, queueVars, job,
                 licence, crashes, retries>>

(* The model's final answer, or a provider error. *)
ModelEnds(r, outcome) ==
  /\ turn[r].pc = "model"
  /\ outcome = "interrupted" => turn[r].aborted
  /\ Goto(r, outcome)
  /\ UNCHANGED <<runVars, madeVars, askVars, bootVars, active, markVars, replay, queueVars, job,
                 ghostVars>>

(* The next call of the turn: one the model asks for, or the trusted-input *)
(* escalation of a page action that failed. A call that validation or the  *)
(* policy refuses changes nothing here: its result goes back to the model. *)
NextCall(r, class) ==
  /\ calls[r] < MaxCalls
  /\ \/ turn[r].pc = "model" /\ class \in CallClasses
     \/ turn[r].pc = "running" /\ state[r] = "executing_tool" /\ ~turn[r].aborted
          /\ HasWriteEffect(turn[r].tool.class) /\ class = "write"
  /\ calls' = [calls EXCEPT ![r] = @ + 1]

NewTool(r, class) == [call |-> calls[r] + 1, class |-> class]

(* The verdict is ask: approvals.createPendingWork, one transaction. *)
AskApproval(r, class) ==
  /\ NextCall(r, class)
  /\ TurnWrites(r, "waiting_approval", NewTool(r, class), "waitApproval")
  /\ approval' = IF CanTransition(state[r], "waiting_approval")
                 THEN [approval EXCEPT ![r][calls[r] + 1] = "pending"] ELSE approval
  /\ UNCHANGED <<env, arrived, interaction, bootVars, active, markVars, replay, queueVars, job,
                 ghostVars>>

(* The verdict is allow: the call is persisted as executing, then sent. *)
AllowTool(r, class) ==
  /\ NextCall(r, class) /\ class # "interactive"
  /\ TurnWrites(r, "executing_tool", NewTool(r, class), "dispatch")
  /\ UNCHANGED <<env, arrived, askVars, bootVars, active, markVars, replay, queueVars, job,
                 ghostVars>>

(* interactions.createPendingWork for call c, and its waiter; nothing of   *)
(* it is left when the table refuses the transition.                       *)
Ask(r, c, newTool, pc) ==
  IF CanTransition(state[r], "waiting_interaction")
  THEN /\ Write(r, "waiting_interaction", newTool)
       /\ interaction' = [interaction EXCEPT ![r][c] = "pending"]
       /\ turn' = [turn EXCEPT ![r].pc = pc, ![r].tool = newTool, ![r].asked = @ \cup {c}]
  ELSE Goto(r, "failed") /\ UNCHANGED <<state, tool, interaction>>

AskInteraction(r) ==
  /\ turn[r].pc = "model" /\ NextCall(r, "interactive")
  /\ Ask(r, calls[r] + 1, NewTool(r, "interactive"), "waitAnswer")
  /\ UNCHANGED <<env, arrived, approval, bootVars, active, markVars, replay, queueVars, job,
                 ghostVars>>

(* The waiter of requestApproval settles by itself: the timer declines, an *)
(* aborted turn cancels.                                                   *)
ApprovalExpires(r, decision) ==
  /\ \E c \in Call :
       /\ ApprovalWaiter(r, c)
       /\ decision = "cancel" => turn[r].aborted
       /\ approval' = [approval EXCEPT ![r][c] = decision]
  /\ UNCHANGED <<runVars, madeVars, interaction, bootVars, turnVars, markVars, replay, queueVars,
                 job, ghostVars>>

(* What the loop does with the decision. An accepted call is checked again *)
(* before it is sent; `refused' is that check failing.                     *)
ApprovalSettled(r, refused) ==
  LET prepared    == turn[r].tool
      decision    == approval[r][prepared.call]
      interactive == prepared.class = "interactive"
      stops == decision = "cancel" \/ (decision = "accept" /\ turn[r].aborted /\ ~interactive)
      goes  == decision = "accept" /\ ~stops /\ ~refused
  IN
  /\ turn[r].pc = "waitApproval" /\ decision \in Decision
  /\ IF goes /\ interactive THEN Ask(r, prepared.call, prepared, "waitAnswer")
     ELSE /\ IF goes THEN TurnWrites(r, "executing_tool", prepared, "dispatch")
             ELSE TurnWrites(r, "streaming_model", NoTool, IF stops THEN "interrupted" ELSE "model")
          /\ UNCHANGED interaction
  /\ UNCHANGED <<env, madeVars, approval, bootVars, active, markVars, replay, queueVars, job,
                 ghostVars>>

(* onApprovalDecision throws inside settle(): the loop's await rejects. *)
ApprovalHookFails(r) ==
  /\ "hook" \in Faults /\ turn[r].pc = "waitApproval" /\ Decided(r, turn[r].tool.call)
  /\ Goto(r, "failed")
  /\ UNCHANGED <<runVars, madeVars, askVars, bootVars, active, markVars, replay, queueVars, job,
                 ghostVars>>

(* tool.execute is called after the executing_tool transaction commits. *)
Dispatch(r) ==
  /\ turn[r].pc = "dispatch"
  /\ Send(r, turn[r].tool) /\ Goto(r, "running")
  /\ UNCHANGED <<runVars, madeVars, askVars, bootVars, active, markVars, replay, queueVars, job,
                 userNodes, crashes, retries>>

(* A result, an error given back to the model, or an error after an abort. *)
ToolReturns(r, pc) ==
  /\ turn[r].pc = "running"
  /\ pc = "interrupted" => turn[r].aborted
  /\ TurnWrites(r, "streaming_model", NoTool, pc)
  /\ UNCHANGED <<env, madeVars, askVars, bootVars, active, markVars, replay, queueVars, job,
                 ghostVars>>

(* requestMcpElicitation: the server of the running tool asks the user.    *)
(* The tool goes on and may return first. Bound: one question per call.    *)
Elicit(r) ==
  LET c == turn[r].tool.call IN
  /\ turn[r].pc = "running" /\ active = r /\ state[r] = "executing_tool" /\ tool[r].call = c
  /\ tool[r].class \in {"read", "write"} /\ interaction[r][c] = "none"
  /\ Ask(r, c, tool[r], "running")
  /\ UNCHANGED <<env, madeVars, approval, bootVars, active, markVars, replay, queueVars, job,
                 ghostVars>>

(* The waiter of requestInteraction settles by itself when the turn aborts. *)
MutAnswerIgnoresAbort(r, c) == FALSE

AnswerAborted(r, c) ==
  /\ turn[r].aborted /\ AnswerWaiter(r, c)
  /\ interaction' = [interaction EXCEPT ![r][c] = "resolved"]
  /\ turn' = [turn EXCEPT ![r].asked = @ \ {c}]
  /\ UNCHANGED <<runVars, madeVars, approval, bootVars, active, markVars, replay, queueVars, job,
                 ghostVars>>

(* The answer becomes the call's result. *)
Answered(r) ==
  /\ turn[r].pc = "waitAnswer" /\ interaction[r][turn[r].tool.call] = "resolved"
  /\ TurnWrites(r, "streaming_model", NoTool,
                IF turn[r].aborted THEN "interrupted" ELSE "model")
  /\ UNCHANGED <<env, madeVars, askVars, bootVars, active, markVars, replay, queueVars, job,
                 ghostVars>>

(* The terminal state is written last; its refusal rejects `done'. *)
Finish(r) ==
  /\ turn[r].pc \in Outcome
  /\ state' = IF CanTransition(state[r], turn[r].pc) THEN [state EXCEPT ![r] = turn[r].pc]
              ELSE state
  /\ Goto(r, "settled")
  /\ UNCHANGED <<tool, env, madeVars, askVars, bootVars, active, markVars, replay, queueVars, job,
                 ghostVars>>

(* done.finally: the thread's entry goes, whoever it names, with the       *)
(* turn's waiters, and the actor is to continue the thread.                *)
Settled(r) ==
  /\ turn[r].pc = "settled"
  /\ turn' = [turn EXCEPT ![r] = NoTurn]
  /\ active' = NoRun
  /\ sched' = sched \cup {"afterTurn"}
  /\ UNCHANGED <<runVars, madeVars, askVars, bootVars, markVars, replay, memQueue, job, ghostVars>>

-----------------------------------------------------------------------------
Command ==
  \/ \E r \in Run :
       \/ Submit(r) \/ Enqueue(r) \/ RemoveQueued(r) \/ Resume(r)
       \/ \E resolution \in {"fail", "mark_done", "retry"} : ResolveUncertain(r, resolution)
       \/ \E c \in Call :
            \/ \E decision \in Decision : ApprovalResponse(r, c, decision)
            \/ InteractionResponse(r, c)
  \/ Interrupt

ActorTask ==
  \/ \E name \in {"drain", "afterTurn"} : RunTask(name)
  \/ PauseApproval
  \/ RecoveredApprovalTimeout

JobStep(w) ==
  \/ StartFails(w) \/ StartPrepares(w) \/ Launch(w) \/ Return(w)
  \/ Wait(w) \/ Claim(w) \/ Claimed(w) \/ ClaimAnswer(w) \/ MarkDone(w)
  \/ Replay(w) \/ Validate(w) \/ ReplayDispatch(w) \/ ReplaySettles(w)
  \/ ReplayTimeout(w) \/ Quarantine(w)

Recovery ==
  \/ Boot \/ RecoverDrain \/ RecoverDone
  \/ \E r \in Run : \/ RecoverRejects(r) \/ RecoverLater(r) \/ RecoverReplay(r)
                    \/ RecoverApproval(r) \/ RecoverInteraction(r)

TurnStep(r) ==
  \/ Admit(r) \/ AskInteraction(r) \/ Dispatch(r) \/ Elicit(r) \/ Answered(r)
  \/ Finish(r) \/ Settled(r)
  \/ \E outcome \in Outcome : ModelEnds(r, outcome)
  \/ \E class \in ToolClasses : AskApproval(r, class) \/ AllowTool(r, class)
  \/ \E decision \in {"decline", "cancel"} : ApprovalExpires(r, decision)
  \/ \E refused \in BOOLEAN : ApprovalSettled(r, refused)
  \/ ApprovalHookFails(r)
  \/ \E pc \in {"model", "interrupted"} : ToolReturns(r, pc)
  \/ \E c \in Call : AnswerAborted(r, c)

Next ==
  \/ Command \/ ActorTask \/ PauseThread
  \/ \E r \in Run, c \in Call : AutomationAnswer(r, c)
  \/ \E w \in Worker : JobStep(w)
  \/ \E r \in Run : TurnStep(r)
  \/ Recovery \/ Crash

Spec == Init /\ [][Next]_vars

-----------------------------------------------------------------------------
(* Safety.                                                                 *)

(* The thread implements the life cycle of RunLifecycle: in particular, no *)
(* run is made active while another is, and none leaves a final state.     *)
StatusOf(s) ==
  CASE s = "absent"    -> "new"
    [] s = "queued"    -> "queued"
    [] s \in Owning    -> "active"
    [] s \in Terminal  -> "closed"
    [] OTHER           -> "parked"

Lifecycle == INSTANCE RunLifecycle WITH status <- [r \in Run |-> StatusOf(state[r])]
ImplementsLifecycle == Lifecycle!Spec

(* At most one run of the thread is in a state where something acts on the *)
(* conversation path for it (isThreadBusy: "would let two durable runs     *)
(* append to the same conversation path").                                 *)
SingleOwner == \A r, s \in Run : state[r] \in Owning /\ state[s] \in Owning => r = s

(* No run executes a tool whose approval was asked for and not given, and  *)
(* a run whose tool is executing or of unknown outcome still names it, in  *)
(* whatever order decisions, claims, pauses and restarts came.             *)
OnlyApprovedExecutes ==
  \A r \in Run :
    /\ state[r] \in {"executing_tool", "paused_uncertain"} => HasTool(r)
    /\ \A c \in Call : state[r] = "executing_tool" /\ tool[r].call = c
                       => approval[r][c] \in {"none", "accept"}

(* A write that may not be retried is sent to the page once, and once more *)
(* for each time the user asked to: no restart, replay or late decision    *)
(* sends it again.                                                         *)
NoSilentResend == \A r \in Run, c \in Call : licence[r][c] >= 0

(* A run in an active state is somebody's: a turn executes it, a job works *)
(* on it, a mark waits for its answer, or recovery has yet to come to it.  *)
Attended(r) ==
  \/ turn[r].pc # "none"
  \/ \E w \in Worker : job[w].pc # "idle" /\ job[w].run = r
  \/ approvalMark.run = r
  \/ interactionMark.run = r
  \/ phase \in {"down", "broken"}
  \/ todo[r] # "done"
NobodyForgotten == \A r \in Run : state[r] \in Owning => Attended(r)

(* A recovered approval keeps the thread busy only while its run waits for *)
(* it or an actor job is continuing it ("A recovered waiter owns its       *)
(* Thread until one continuation claim finishes").                         *)
MarksReleased ==
  /\ approvalMark.run # NoRun =>
       \/ \E r \in Run : approvalMark.run = r /\ state[r] = "waiting_approval"
       \/ \E w \in Worker : "finish" \in job[w].then /\ job[w].run = approvalMark.run
  /\ interactionMark.run # NoRun =>
       \E r \in Run : interactionMark.run = r /\ state[r] = "waiting_interaction"

(* The user's message enters the conversation once per run, also when the  *)
(* run is interrupted and resumed ("resumes from the persisted leaf        *)
(* without appending the user input twice").                               *)
UserMessageOnce == \A r \in Run : userNodes[r] <= 1

(* An approved interaction is put to the user: approving it does not fail  *)
(* the turn.                                                               *)
ApprovedInteractionAsked ==
  \A r \in Run, c \in Call :
    turn[r].pc = "failed" /\ turn[r].tool.call = c /\ turn[r].tool.class = "interactive"
      => approval[r][c] # "accept"

-----------------------------------------------------------------------------
(* Liveness. Every await of the worker ends: transactions commit, streams  *)
(* and tools return or abort, timers fire and the browser restarts the     *)
(* worker. Nothing is assumed of the user.                                 *)

Fairness ==
  /\ WF_vars(ActorTask) /\ WF_vars(Recovery)
  /\ \A w \in Worker : WF_vars(JobStep(w))
  /\ \A r \in Run : WF_vars(TurnStep(r))

(* A queued run leaves the queue, unless another run of the thread waits   *)
(* for an answer only the user can give, once the user stops resuming      *)
(* other runs: the engine's own "continue the thread" tasks drain it.      *)
QueueServed ==
  (<>[][\A r \in Run : ~Resume(r)]_vars) =>
    \A r \in Run : state[r] = "queued" ~>
      state[r] # "queued" \/ \E s \in Run : state[s] = "waiting_interaction"

(* An interrupted turn ends, whatever it was waiting for, or the worker    *)
(* stops first ("Interrupt: stop the current Turn. Always allowed").       *)
InterruptStops == \A r \in Run : turn[r].aborted ~> turn[r].pc = "none"

(* Nobody waits for an approval forever: without an answer it is declined, *)
(* across restarts too.                                                    *)
ApprovalTimesOut ==
  \A r \in Run : state[r] = "waiting_approval" ~> state[r] # "waiting_approval"
=============================================================================
