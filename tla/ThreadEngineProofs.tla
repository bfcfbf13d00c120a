------------------------- MODULE ThreadEngineProofs -------------------------
(***************************************************************************)
(* Theorems about ThreadEngine, for any set of runs and any bounds.        *)
(* Types and owners come first.  Then what becomes of a thread's runs and  *)
(* of their tool calls: no run is forgotten, none leaves the life cycle of *)
(* RunLifecycle, a recovered request lets the thread go, what was asked    *)
(* about is executed only if it was accepted, and a write is not sent      *)
(* again unless the user says so.                                          *)
(***************************************************************************)
EXTENDS ThreadEngine, SequenceTheorems, TLAPS

USE DEF runVars, askVars, madeVars, bootVars, turnVars, markVars, queueVars, ghostVars

-----------------------------------------------------------------------------
(* What the updates the actions are made of return.                        *)

LEMMA WithoutType ==
  ASSUME NEW S, NEW q \in Seq(S), NEW r PROVE Without(q, r) \in Seq(S)
  BY DEF Without

LEMMA NextQueuedType == ASSUME TypeOK PROVE NextQueued \in Run \cup {NoRun}
<1> DEFINE oldest == {i \in DOMAIN arrived :
                        /\ arrived[i] \in Queued
                        /\ \A j \in 1 .. i - 1 : arrived[j] \notin Queued}
<1>1. CASE oldest = {}
  BY <1>1 DEF NextQueued
<1>2. CASE oldest # {}
  <2>1. (CHOOSE i \in oldest : TRUE) \in DOMAIN arrived
    BY <1>2
  <2>2. arrived \in Seq(Run)
    BY DEF TypeOK
  <2>3. arrived[CHOOSE i \in oldest : TRUE] \in Run
    BY <2>1, <2>2
  <2> QED BY <1>2, <2>3 DEF NextQueued
<1> QED BY <1>1, <1>2

LEMMA ConstantTypes ==
  /\ NoTool \in PreparedTool
  /\ NoTurn \in TurnRecord
  /\ IdleJob \in JobRecord
  /\ NoMark \in ApprovalMark
  /\ NoAnswerMark \in AnswerMark
  /\ NoReplay \in ReplayRecord
<1>1. 0 \in 0 .. MaxCalls
  BY BoundAssumption
<1>2. NoTool \in PreparedTool
  BY <1>1 DEF NoTool, PreparedTool, ToolClasses
<1> QED
  BY <1>1, <1>2 DEF NoTurn, TurnRecord, TurnPc, IdleJob, JobRecord, JobPc, NoMark, ApprovalMark,
                    NoAnswerMark, AnswerMark, NoReplay, ReplayRecord

LEMMA NewToolType ==
  ASSUME TypeOK, NEW r \in Run, NEW class \in ToolClasses, calls[r] < MaxCalls
  PROVE  NewTool(r, class) \in PreparedTool /\ calls[r] + 1 \in Call
  BY BoundAssumption DEF TypeOK, NewTool, PreparedTool, Call

LEMMA JobIsType ==
  ASSUME NEW f \in [Worker -> JobRecord], NEW w, NEW j \in JobRecord
  PROVE  [f EXCEPT ![w] = j] \in [Worker -> JobRecord]
  OBVIOUS

LEMMA JobStepType ==
  ASSUME NEW f \in [Worker -> JobRecord], NEW w, NEW pc \in JobPc
  PROVE  [f EXCEPT ![w].pc = pc] \in [Worker -> JobRecord]
  BY DEF JobRecord

LEMMA JobResumeType ==
  ASSUME NEW f \in [Worker -> JobRecord], NEW w
  PROVE  [f EXCEPT ![w].pc = "start", ![w].resume = TRUE] \in [Worker -> JobRecord]
  BY DEF JobRecord, JobPc

LEMMA TurnGotoType ==
  ASSUME NEW f \in [Run -> TurnRecord], NEW r, NEW pc \in TurnPc
  PROVE  [f EXCEPT ![r].pc = pc] \in [Run -> TurnRecord]
  BY DEF TurnRecord

LEMMA TurnToolType ==
  ASSUME NEW f \in [Run -> TurnRecord], NEW r, NEW pc \in TurnPc,
         NEW newTool \in PreparedTool
  PROVE  [f EXCEPT ![r].pc = pc, ![r].tool = newTool] \in [Run -> TurnRecord]
  BY DEF TurnRecord

LEMMA TurnAbortType ==
  ASSUME NEW f \in [Run -> TurnRecord], NEW r
  PROVE  [f EXCEPT ![r].aborted = TRUE] \in [Run -> TurnRecord]
  BY DEF TurnRecord

LEMMA TurnAnsweredType ==
  ASSUME NEW f \in [Run -> TurnRecord], NEW r, NEW c
  PROVE  [f EXCEPT ![r].asked = @ \ {c}] \in [Run -> TurnRecord]
  BY DEF TurnRecord

LEMMA TurnAskedType ==
  ASSUME NEW f \in [Run -> TurnRecord], NEW r, NEW c \in 0 .. MaxCalls, NEW pc \in TurnPc,
         NEW newTool \in PreparedTool
  PROVE  [f EXCEPT ![r].pc = pc, ![r].tool = newTool, ![r].asked = @ \cup {c}]
           \in [Run -> TurnRecord]
  BY DEF TurnRecord

LEMMA WriteType ==
  ASSUME TypeOK, NEW r, NEW to \in RunStates, NEW newTool,
         newTool \in PreparedTool \/ newTool = tool[r], Write(r, to, newTool)
  PROVE  state' \in [Run -> RunStates \cup {"absent"}] /\ tool' \in [Run -> PreparedTool]
<1>1. state' \in [Run -> RunStates \cup {"absent"}]
  BY DEF TypeOK, Write
<1>2. tool' \in [Run -> PreparedTool]
  BY DEF TypeOK, Write
<1> QED BY <1>1, <1>2

LEMMA TurnWritesType ==
  ASSUME TypeOK, NEW r \in Run, NEW to \in RunStates, NEW newTool \in PreparedTool,
         NEW pc \in TurnPc, TurnWrites(r, to, newTool, pc)
  PROVE  /\ state' \in [Run -> RunStates \cup {"absent"}] /\ tool' \in [Run -> PreparedTool]
         /\ turn' \in [Run -> TurnRecord]
<1>1. turn \in [Run -> TurnRecord] /\ "failed" \in TurnPc
  BY DEF TypeOK, TurnPc, Outcome
<1>2. CASE CanTransition(state[r], to)
  <2>1. /\ Write(r, to, newTool)
        /\ turn' = [turn EXCEPT ![r].pc = pc, ![r].tool = newTool]
    BY <1>2 DEF TurnWrites
  <2>2. turn' \in [Run -> TurnRecord]
    BY <1>1, <2>1, TurnToolType
  <2> QED BY <2>1, <2>2, WriteType
<1>3. CASE ~CanTransition(state[r], to)
  <2>1. turn' \in [Run -> TurnRecord]
    BY <1>1, <1>3, TurnGotoType DEF TurnWrites, Goto
  <2> QED BY <1>3, <2>1 DEF TypeOK, TurnWrites
<1> QED BY <1>2, <1>3

LEMMA AskType ==
  ASSUME TypeOK, NEW r \in Run, NEW c \in 0 .. MaxCalls, NEW newTool \in PreparedTool,
         NEW pc \in TurnPc, Ask(r, c, newTool, pc)
  PROVE  /\ state' \in [Run -> RunStates \cup {"absent"}] /\ tool' \in [Run -> PreparedTool]
         /\ turn' \in [Run -> TurnRecord]
         /\ interaction' \in [Run -> [Call -> {"none", "pending", "resolved"}]]
<1>1. turn \in [Run -> TurnRecord] /\ "failed" \in TurnPc /\ "waiting_interaction" \in RunStates
  BY DEF TypeOK, TurnPc, Outcome, RunStates
<1>2. CASE CanTransition(state[r], "waiting_interaction")
  <2>1. /\ Write(r, "waiting_interaction", newTool)
        /\ interaction' = [interaction EXCEPT ![r][c] = "pending"]
        /\ turn' = [turn EXCEPT ![r].pc = pc, ![r].tool = newTool, ![r].asked = @ \cup {c}]
    BY <1>2 DEF Ask
  <2>2. turn' \in [Run -> TurnRecord]
    BY <1>1, <2>1, TurnAskedType
  <2>3. interaction' \in [Run -> [Call -> {"none", "pending", "resolved"}]]
    BY <2>1 DEF TypeOK
  <2> QED BY <1>1, <2>1, <2>2, <2>3, WriteType
<1>3. CASE ~CanTransition(state[r], "waiting_interaction")
  <2>1. turn' \in [Run -> TurnRecord]
    BY <1>1, <1>3, TurnGotoType DEF Ask, Goto
  <2> QED BY <1>3, <2>1 DEF TypeOK, Ask
<1> QED BY <1>2, <1>3

LEMMA CountType ==
  ASSUME NEW f \in [Run -> [Call -> Int]], NEW r, NEW c
  PROVE  /\ [f EXCEPT ![r][c] = @ + 1] \in [Run -> [Call -> Int]]
         /\ [f EXCEPT ![r][c] = @ - 1] \in [Run -> [Call -> Int]]
<1>1. \A g \in [Call -> Int] : \A d \in Call :
        /\ [g EXCEPT ![d] = @ + 1] \in [Call -> Int]
        /\ [g EXCEPT ![d] = @ - 1] \in [Call -> Int]
  OBVIOUS
<1>2. \A g \in [Call -> Int] :
        /\ [g EXCEPT ![c] = @ + 1] \in [Call -> Int]
        /\ [g EXCEPT ![c] = @ - 1] \in [Call -> Int]
  BY <1>1
<1> QED BY <1>2

LEMMA AnswerType ==
  ASSUME TypeOK, NEW w \in Worker, NEW r \in Run, NEW c \in Call, Answer(w, r, c) PROVE TypeOK'
<1>0. /\ job \in [Worker -> JobRecord] /\ turn \in [Run -> TurnRecord]
      /\ Call \subseteq 0 .. MaxCalls
  BY DEF TypeOK, Call
<1>1. turn' \in [Run -> TurnRecord]
  BY <1>0, TurnAnsweredType DEF Answer
<1>2. interaction' \in [Run -> [Call -> {"none", "pending", "resolved"}]]
  BY DEF TypeOK, Answer
<1>3. job' \in [Worker -> JobRecord]
  <2> DEFINE marked == AnswerMarked(r, c)
  <2>1. [pc |-> IF marked THEN "wait" ELSE "claimAnswer", run |-> r, call |-> c,
         resume |-> FALSE, then |-> IF marked THEN {} ELSE {"keep"}] \in JobRecord
    BY <1>0 DEF JobRecord, JobPc, Afterwards
  <2> QED BY <1>0, <2>1, JobIsType DEF Answer
<1> QED BY <1>1, <1>2, <1>3 DEF TypeOK, Answer

LEMMA SendType ==
  ASSUME TypeOK, NEW r, NEW prepared, Send(r, prepared) PROVE licence' \in [Run -> [Call -> Int]]
  BY CountType DEF TypeOK, Send

-----------------------------------------------------------------------------
(* Every action preserves the type invariant.                              *)

LEMMA TypeCommand == ASSUME TypeOK, Command PROVE TypeOK'
<1> USE DEF Worker
<1>0. /\ job \in [Worker -> JobRecord] /\ turn \in [Run -> TurnRecord]
      /\ IdleJob \in JobRecord /\ Call \subseteq 0 .. MaxCalls
  BY ConstantTypes DEF TypeOK, Call
<1>1. ASSUME NEW r \in Run, Submit(r) PROVE TypeOK'
  <2>1. [pc |-> "start", run |-> r, call |-> 0, resume |-> FALSE, then |-> {}] \in JobRecord
    BY BoundAssumption DEF JobRecord, JobPc
  <2>2. job' \in [Worker -> JobRecord]
    BY <1>0, <1>1, <2>1, JobIsType DEF Submit, StartRun
  <2> QED BY <1>1, <2>2 DEF TypeOK, Submit, RunStates
<1>2. ASSUME NEW r \in Run, Enqueue(r) PROVE TypeOK'
  BY <1>2 DEF TypeOK, Enqueue, RunStates
<1>3. ASSUME NEW r \in Run, RemoveQueued(r) PROVE TypeOK'
  BY <1>3, WithoutType DEF TypeOK, RemoveQueued, RunStates
<1>4. ASSUME NEW r \in Run, Resume(r) PROVE TypeOK'
  <2>1. [pc |-> "start", run |-> r, call |-> 0, resume |-> TRUE, then |-> {}] \in JobRecord
    BY BoundAssumption DEF JobRecord, JobPc
  <2>2. job' \in [Worker -> JobRecord]
    BY <1>0, <1>4, <2>1, JobIsType DEF Resume, StartRun
  <2> QED BY <1>4, <2>2 DEF TypeOK, Resume
<1>5. ASSUME NEW r \in Run, NEW resolution \in {"fail", "mark_done", "retry"},
             ResolveUncertain(r, resolution)
      PROVE  TypeOK'
  <2>1. /\ [IdleJob EXCEPT !.pc = "markDone", !.run = r] \in JobRecord
        /\ [IdleJob EXCEPT !.pc = "replay", !.run = r] \in JobRecord
    BY <1>0 DEF JobRecord, JobPc
  <2>2. job' \in [Worker -> JobRecord]
    BY <1>0, <1>5, <2>1, JobIsType DEF ResolveUncertain
  <2>3. licence' \in [Run -> [Call -> Int]] /\ retries' \in Nat
    <3>1. licence \in [Run -> [Call -> Int]] /\ retries \in Nat
      BY DEF TypeOK
    <3>2. [licence EXCEPT ![r][tool[r].call] = @ + 1] \in [Run -> [Call -> Int]]
      BY <3>1, CountType
    <3>3. \/ licence' = licence /\ retries' = retries
          \/ licence' = licence /\ retries' = retries + 1
          \/ licence' = [licence EXCEPT ![r][tool[r].call] = @ + 1] /\ retries' = retries + 1
      BY <1>5 DEF ResolveUncertain
    <3> QED BY <3>1, <3>2, <3>3
  <2>4. state' \in [Run -> RunStates \cup {"absent"}]
    BY <1>5 DEF ResolveUncertain, TypeOK, RunStates
  <2> QED BY <1>5, <2>2, <2>3, <2>4 DEF TypeOK, ResolveUncertain
<1>6. ASSUME NEW r \in Run, NEW c \in Call, NEW decision \in Decision,
             ApprovalResponse(r, c, decision)
      PROVE  TypeOK'
  <2> DEFINE marked == ApprovalMarked(r, c)
  <2>1. [pc |-> IF marked THEN "wait" ELSE "claim", run |-> r, call |-> c, resume |-> FALSE,
         then |-> IF marked THEN {"drain"} ELSE {"keep", "drain"}] \in JobRecord
    BY <1>0 DEF JobRecord, JobPc, Afterwards
  <2>2. job' \in [Worker -> JobRecord]
    BY <1>0, <1>6, <2>1, JobIsType DEF ApprovalResponse
  <2>3. approval' \in [Run -> [Call -> {"none", "pending"} \cup Decision]]
    BY <1>6 DEF ApprovalResponse, TypeOK
  <2> QED BY <1>6, <2>2, <2>3 DEF TypeOK, ApprovalResponse
<1>7. ASSUME NEW r \in Run, NEW c \in Call, InteractionResponse(r, c) PROVE TypeOK'
  BY <1>7, AnswerType DEF InteractionResponse
<1>8. ASSUME Interrupt PROVE TypeOK'
  <2>1. turn' \in [Run -> TurnRecord]
    BY <1>0, <1>8, TurnAbortType DEF Interrupt
  <2> QED BY <1>8, <2>1 DEF TypeOK, Interrupt
<1> QED BY <1>1, <1>2, <1>3, <1>4, <1>5, <1>6, <1>7, <1>8 DEF Command

LEMMA TypeAutomation ==
  ASSUME TypeOK, NEW r \in Run, NEW c \in Call, AutomationAnswer(r, c) PROVE TypeOK'
  BY AnswerType DEF AutomationAnswer, Worker

LEMMA TypePauseThread == ASSUME TypeOK, PauseThread PROVE TypeOK'
<1>1. turn' \in [Run -> TurnRecord]
  <2>1. turn \in [Run -> TurnRecord]
    BY DEF TypeOK
  <2>2. \A r \in Run : [turn[r] EXCEPT !.aborted = TRUE] \in TurnRecord
    BY <2>1 DEF TurnRecord
  <2> QED BY <2>1, <2>2 DEF PauseThread
<1>2. approvalMark' \in ApprovalMark
  BY DEF TypeOK, PauseThread, ApprovalMark
<1>3. replay' \in ReplayRecord
  BY DEF TypeOK, PauseThread, ReplayRecord
<1> QED BY <1>1, <1>2, <1>3 DEF TypeOK, PauseThread

LEMMA TypeActorTask == ASSUME TypeOK, ActorTask PROVE TypeOK'
<1> USE DEF Worker
<1>0. job \in [Worker -> JobRecord] /\ IdleJob \in JobRecord
  BY ConstantTypes DEF TypeOK
<1>1. ASSUME NEW name \in {"drain", "afterTurn"}, RunTask(name) PROVE TypeOK'
  <2>1. \A pc \in JobPc : [IdleJob EXCEPT !.pc = pc, !.then = {"drain"}] \in JobRecord
    BY <1>0 DEF JobRecord, Afterwards
  <2>2. (IF name = "afterTurn" THEN "wait" ELSE "return") \in JobPc
    BY DEF JobPc
  <2>3. job' \in [Worker -> JobRecord]
    BY <1>0, <1>1, <2>1, <2>2, JobIsType DEF RunTask
  <2> QED BY <1>1, <2>3 DEF TypeOK, RunTask, Task
<1>2. ASSUME NEW decision \in Decision, DecideMarked(decision)
      PROVE  /\ approval' \in [Run -> [Call -> {"none", "pending"} \cup Decision]]
             /\ job' \in [Worker -> JobRecord]
  <2>1. [IdleJob EXCEPT !.pc = "wait", !.run = approvalMark.run, !.then = {"drain"}]
          \in JobRecord
    BY <1>0 DEF JobRecord, JobPc, Afterwards, TypeOK, ApprovalMark
  <2>2. job' \in [Worker -> JobRecord]
    BY <1>0, <1>2, <2>1, JobIsType DEF DecideMarked
  <2> QED BY <1>2, <2>2 DEF DecideMarked, TypeOK
<1>3. ASSUME PauseApproval PROVE TypeOK'
  <2>1. /\ approval' \in [Run -> [Call -> {"none", "pending"} \cup Decision]]
        /\ job' \in [Worker -> JobRecord]
    BY <1>2, <1>3 DEF PauseApproval, Decision, TypeOK
  <2> QED BY <1>3, <2>1 DEF TypeOK, PauseApproval, Task
<1>4. ASSUME RecoveredApprovalTimeout PROVE TypeOK'
  <2>1. /\ approval' \in [Run -> [Call -> {"none", "pending"} \cup Decision]]
        /\ job' \in [Worker -> JobRecord]
    BY <1>2, <1>4 DEF RecoveredApprovalTimeout, Decision
  <2> QED BY <1>4, <2>1 DEF TypeOK, RecoveredApprovalTimeout
<1> QED BY <1>1, <1>3, <1>4 DEF ActorTask

LEMMA TypeJobStep == ASSUME TypeOK, NEW w \in Worker, JobStep(w) PROVE TypeOK'
<1> DEFINE r == job[w].run
           c == job[w].call
<1>0. /\ job \in [Worker -> JobRecord] /\ job[w] \in JobRecord /\ IdleJob \in JobRecord
      /\ NoTool \in PreparedTool
      /\ r \in Run \cup {NoRun} /\ c \in 0 .. MaxCalls /\ job[w].then \in SUBSET Afterwards
      /\ replay \in ReplayRecord /\ NoReplay \in ReplayRecord
  BY ConstantTypes DEF TypeOK, JobRecord
<1>a. \A pc \in JobPc : Step(w, pc) => job' \in [Worker -> JobRecord]
  BY <1>0, JobStepType DEF Step
<1>b. ResumeRun(w) => job' \in [Worker -> JobRecord]
  BY <1>0, JobResumeType DEF ResumeRun
<1>c. Throw(w) => /\ job' \in [Worker -> JobRecord]
                  /\ phase' \in {"down", "recovering", "up", "broken"}
  BY <1>0, JobIsType DEF Throw, TypeOK
<1>d. EndReplay(w) => replay' \in ReplayRecord
  BY <1>0 DEF EndReplay
<1>e. \A to \in RunStates : Write(r, to, NoTool) \/ Write(r, to, tool[r])
        => /\ state' \in [Run -> RunStates \cup {"absent"}]
           /\ tool' \in [Run -> PreparedTool]
  BY <1>0, WriteType
<1>f. {"launch", "return", "claimed", "replay", "validate", "dispatch", "replaying",
       "quarantine"} \subseteq JobPc
  BY DEF JobPc
<1>1. CASE StartFails(w)
  <2>1. state' \in [Run -> RunStates \cup {"absent"}]
    BY <1>1 DEF StartFails, TypeOK, RunStates
  <2>2. Throw(w) /\ EndReplay(w)
    BY <1>1 DEF StartFails
  <2> QED BY <1>1, <1>c, <1>d, <2>1, <2>2 DEF TypeOK, StartFails
<1>2. CASE StartPrepares(w)
  <2>1. state' \in [Run -> RunStates \cup {"absent"}] /\ env' \in [Run -> BOOLEAN]
    BY <1>2 DEF StartPrepares, TypeOK, RunStates
  <2>2. job' \in [Worker -> JobRecord]
    BY <1>2, <1>a, <1>f DEF StartPrepares
  <2> QED BY <1>2, <2>1, <2>2 DEF TypeOK, StartPrepares
<1>3. CASE Launch(w)
  <2>1. job' \in [Worker -> JobRecord] /\ replay' \in ReplayRecord
    BY <1>3, <1>a, <1>d, <1>f DEF Launch
  <2>2. [NoTurn EXCEPT !.pc = "admit", !.resume = job[w].resume] \in TurnRecord
    BY <1>0, ConstantTypes DEF TurnRecord, TurnPc, JobRecord
  <2>3. turn' \in [Run -> TurnRecord] /\ active' \in Run \cup {NoRun}
    BY <1>0, <1>3, <2>2 DEF Launch, TypeOK
  <2> QED BY <1>3, <2>1, <2>3 DEF TypeOK, Launch
<1>4. CASE Return(w)
  <2> DEFINE next == IF memQueue # <<>> THEN Head(memQueue) ELSE NextQueued
  <2>1. next \in Run \cup {NoRun}
    BY NextQueuedType DEF TypeOK
  <2>2. memQueue' \in Seq(Run)
    BY <1>4 DEF Return, TypeOK
  <2>3. approvalMark' \in ApprovalMark
    BY <1>4, ConstantTypes DEF Return, TypeOK
  <2>4. [pc |-> "start", run |-> next, call |-> 0, resume |-> FALSE,
         then |-> job[w].then \cap {"boot"}] \in JobRecord
    BY <2>1, BoundAssumption DEF JobRecord, JobPc, Afterwards
  <2>5. \/ job' = [job EXCEPT ![w] = [pc |-> "start", run |-> next, call |-> 0,
                                      resume |-> FALSE, then |-> job[w].then \cap {"boot"}]]
        \/ job' = [job EXCEPT ![w] = IdleJob]
    BY <1>4 DEF Return, StartRun
  <2>6. job' \in [Worker -> JobRecord]
    BY <1>0, <2>4, <2>5, JobIsType
  <2> QED BY <1>4, <2>2, <2>3, <2>6 DEF TypeOK, Return
<1>5. CASE Wait(w)
  <2>1. job' \in [Worker -> JobRecord]
    <3>1. approvalMark \in ApprovalMark /\ interactionMark \in AnswerMark
      BY DEF TypeOK
    <3>2. CASE job' = [job EXCEPT ![w].pc = "claim", ![w].run = approvalMark.run,
                                  ![w].call = approvalMark.call, ![w].then = @ \cup {"finish"}]
      BY <1>0, <3>1, <3>2 DEF JobRecord, JobPc, Afterwards, ApprovalMark
    <3>3. CASE job' = [job EXCEPT ![w].pc = "claimAnswer", ![w].run = interactionMark.run,
                                  ![w].call = interactionMark.call]
      BY <1>0, <3>1, <3>3 DEF JobRecord, JobPc, AnswerMark
    <3>4. CASE Step(w, "return")
      BY <3>4, <1>a, <1>f
    <3> QED BY <1>5, <3>2, <3>3, <3>4 DEF Wait
  <2> QED BY <1>5, <2>1 DEF TypeOK, Wait
<1>6. CASE Claim(w)
  <2>1. CASE Step(w, "claimed") /\ UNCHANGED approvalMark /\ Decided(r, c)
             /\ state' = [state EXCEPT ![r] = AfterDecision[approval[r][c]]]
    <3>1. AfterDecision[approval[r][c]] \in RunStates
      BY <2>1 DEF Decided, Decision, AfterDecision, RunStates
    <3>2. state' \in [Run -> RunStates \cup {"absent"}]
      BY <2>1, <3>1 DEF TypeOK
    <3> QED BY <1>6, <1>a, <1>f, <2>1, <3>2 DEF TypeOK, Claim
  <2>2. CASE /\ \/ approvalMark' = approvalMark
                \/ approvalMark' = [run |-> r, call |-> c, cancel |-> FALSE]
             /\ job' = [job EXCEPT ![w].pc = "return", ![w].then = @ \ {"finish"}]
             /\ UNCHANGED state
    <3>1. [run |-> r, call |-> c, cancel |-> FALSE] \in ApprovalMark
      BY <1>0 DEF ApprovalMark
    <3>2. job' \in [Worker -> JobRecord]
      BY <1>0, <2>2 DEF JobRecord, JobPc
    <3> QED BY <1>6, <2>2, <3>1, <3>2 DEF TypeOK, Claim
  <2> QED BY <1>6, <2>1, <2>2 DEF Claim
<1>7. CASE Claimed(w)
  <2>1. CASE Throw(w) /\ UNCHANGED tool
    BY <1>7, <2>1, <1>c DEF TypeOK, Claimed
  <2>2. CASE /\ Step(w, "replay") \/ ResumeRun(w) \/ Step(w, "return")
             /\ UNCHANGED tool \/ tool' = [tool EXCEPT ![r] = NoTool]
             /\ UNCHANGED phase
    <3>1. job' \in [Worker -> JobRecord]
      BY <2>2, <1>a, <1>b, <1>f
    <3>2. tool' \in [Run -> PreparedTool]
      BY <1>0, <2>2 DEF TypeOK
    <3> QED BY <1>7, <2>2, <3>1, <3>2 DEF TypeOK, Claimed
  <2> QED BY <1>7, <2>1, <2>2 DEF Claimed
<1>8. CASE ClaimAnswer(w)
  <2>1. CASE /\ Write(r, "streaming_model", NoTool) /\ ResumeRun(w)
             /\ interactionMark' = NoAnswerMark
    BY <1>8, <2>1, <1>b, <1>e, ConstantTypes DEF TypeOK, ClaimAnswer, RunStates
  <2>2. CASE /\ \/ interactionMark' = interactionMark
                \/ interactionMark' = [run |-> r, call |-> c]
             /\ Step(w, "return") /\ UNCHANGED <<state, tool>>
    <3>1. [run |-> r, call |-> c] \in AnswerMark
      BY <1>0 DEF AnswerMark
    <3> QED BY <1>8, <2>2, <3>1, <1>a, <1>f DEF TypeOK, ClaimAnswer
  <2> QED BY <1>8, <2>1, <2>2 DEF ClaimAnswer
<1>9. CASE MarkDone(w)
  <2>1. CASE Write(r, "streaming_model", NoTool) /\ ResumeRun(w) /\ UNCHANGED phase
    BY <1>9, <2>1, <1>b, <1>e DEF TypeOK, MarkDone, RunStates
  <2>2. CASE Throw(w) /\ UNCHANGED <<state, tool>>
    BY <1>9, <2>2, <1>c DEF TypeOK, MarkDone
  <2> QED BY <1>9, <2>1, <2>2 DEF MarkDone
<1>10. CASE Replay(w)
  <2>1. CASE Write(r, "failed", NoTool) /\ Step(w, "return") /\ UNCHANGED replay
    BY <1>10, <2>1, <1>a, <1>e, <1>f DEF TypeOK, Replay, RunStates
  <2>2. CASE Write(r, "streaming_model", NoTool) /\ ResumeRun(w) /\ UNCHANGED replay
    BY <1>10, <2>2, <1>b, <1>e DEF TypeOK, Replay, RunStates
  <2>3. CASE /\ replay' = [run |-> r, interrupted |-> approvalMark.cancel]
             /\ Step(w, "validate") /\ UNCHANGED <<state, tool>>
    <3>1. replay' \in ReplayRecord
      BY <1>0, <2>3 DEF TypeOK, ReplayRecord, ApprovalMark
    <3> QED BY <1>10, <2>3, <3>1, <1>a, <1>f DEF TypeOK, Replay
  <2> QED BY <1>10, <2>1, <2>2, <2>3 DEF Replay
<1>11. CASE Validate(w)
  <2>1. CASE Write(r, "interrupted", NoTool) /\ Step(w, "return") /\ EndReplay(w)
    BY <1>11, <2>1, <1>a, <1>d, <1>e, <1>f DEF TypeOK, Validate, RunStates
  <2>2. CASE Write(r, "executing_tool", tool[r]) /\ Step(w, "dispatch") /\ UNCHANGED replay
    BY <1>11, <2>2, <1>a, <1>e, <1>f DEF TypeOK, Validate, RunStates
  <2>3. CASE Write(r, "streaming_model", NoTool) /\ ResumeRun(w) /\ UNCHANGED replay
    BY <1>11, <2>3, <1>b, <1>e DEF TypeOK, Validate, RunStates
  <2> QED BY <1>11, <2>1, <2>2, <2>3 DEF Validate
<1>12. CASE ReplayDispatch(w)
  <2>1. CASE /\ Write(r, "interrupted", NoTool) /\ Step(w, "return") /\ EndReplay(w)
             /\ UNCHANGED licence
    BY <1>12, <2>1, <1>a, <1>d, <1>e, <1>f DEF TypeOK, ReplayDispatch, RunStates
  <2>2. CASE /\ Send(r, tool[r]) /\ Step(w, "replaying")
             /\ UNCHANGED <<state, tool, replay>>
    <3>1. licence' \in [Run -> [Call -> Int]]
      BY <2>2, SendType
    <3> QED BY <1>12, <2>2, <3>1, <1>a, <1>f DEF TypeOK, ReplayDispatch
  <2> QED BY <1>12, <2>1, <2>2 DEF ReplayDispatch
<1>13. CASE ReplaySettles(w)
  <2>1. CASE Write(r, "streaming_model", NoTool) /\ ResumeRun(w) /\ UNCHANGED replay
    BY <1>13, <2>1, <1>b, <1>e DEF TypeOK, ReplaySettles, RunStates
  <2>2. CASE /\ Write(r, "paused_uncertain", tool[r]) \/ Write(r, "interrupted", NoTool)
             /\ Step(w, "return") /\ EndReplay(w)
    BY <1>13, <2>2, <1>a, <1>d, <1>e, <1>f DEF TypeOK, ReplaySettles, RunStates
  <2> QED BY <1>13, <2>1, <2>2 DEF ReplaySettles
<1>14. CASE ReplayTimeout(w)
  <2>1. Write(r, "paused_uncertain", tool[r]) \/ Write(r, "failed", NoTool)
    BY <1>14 DEF ReplayTimeout
  <2> QED BY <1>14, <2>1, <1>a, <1>e, <1>f DEF TypeOK, ReplayTimeout, RunStates
<1>15. CASE Quarantine(w)
  BY <1>15, <1>a, <1>d, <1>f DEF TypeOK, Quarantine
<1> QED
  BY <1>1, <1>2, <1>3, <1>4, <1>5, <1>6, <1>7, <1>8, <1>9, <1>10, <1>11, <1>12, <1>13, <1>14,
     <1>15 DEF JobStep

LEMMA TypeCrash == ASSUME TypeOK, Crash PROVE TypeOK'
<1>1. turn' \in [Run -> TurnRecord] /\ job' \in [Worker -> JobRecord]
  BY ConstantTypes DEF Crash
<1>2. /\ approvalMark' \in ApprovalMark /\ interactionMark' \in AnswerMark
      /\ replay' \in ReplayRecord
  BY ConstantTypes DEF Crash
<1> QED BY <1>1, <1>2 DEF TypeOK, Crash

(* What recover() decides about an open run is a state and an action.      *)
LEMMA RecoveryTypes ==
  ASSUME NEW s \in RunStates \cup {"absent"}, NEW safe
  PROVE  /\ s # "absent" => RecoveredState(s, safe) \in RunStates
         /\ RecoveryAction(s, safe) \in RecoveryActions
  BY DEF RunStates, RecoveredState, RecoveryAction, RecoveryActions

LEMMA TypeRecovery == ASSUME TypeOK, Recovery PROVE TypeOK'
<1> USE DEF Worker
<1>0. /\ job \in [Worker -> JobRecord] /\ IdleJob \in JobRecord /\ NoTool \in PreparedTool
      /\ Call \subseteq 0 .. MaxCalls /\ todo \in [Run -> RecoveryActions \cup {"drain", "done"}]
  BY ConstantTypes DEF TypeOK, Call
<1>1. ASSUME Boot PROVE TypeOK'
  <2>1. \A r \in Run : state[r] \in RunStates \cup {"absent"}
    BY DEF TypeOK
  <2>2. state' \in [Run -> RunStates \cup {"absent"}]
    BY <1>1, <2>1, RecoveryTypes DEF Boot
  <2>3. todo' \in [Run -> RecoveryActions \cup {"drain", "done"}]
    BY <1>1, <2>1, RecoveryTypes DEF Boot
  <2> QED BY <1>1, <2>2, <2>3 DEF TypeOK, Boot
<1>2. ASSUME RecoverDrain PROVE TypeOK'
  <2>1. [IdleJob EXCEPT !.pc = "return", !.then = {"boot", "drain"}] \in JobRecord
    BY <1>0 DEF JobRecord, JobPc, Afterwards
  <2>2. job' \in [Worker -> JobRecord]
    BY <1>0, <1>2, <2>1, JobIsType DEF RecoverDrain
  <2> QED BY <1>2, <2>2 DEF TypeOK, RecoverDrain
<1>3. ASSUME RecoverDone PROVE TypeOK'
  BY <1>3 DEF TypeOK, RecoverDone
<1>4. ASSUME NEW r \in Run, RecoverRejects(r) PROVE TypeOK'
  <2>1. state' \in [Run -> RunStates \cup {"absent"}] /\ tool' \in [Run -> PreparedTool]
    BY <1>0, <1>4, WriteType DEF RecoverRejects, RunStates
  <2> QED BY <1>4, <2>1 DEF TypeOK, RecoverRejects
<1>5. ASSUME NEW r \in Run, NEW action, Recovers(r, action)
      PROVE  todo' \in [Run -> RecoveryActions \cup {"drain", "done"}]
  BY <1>0, <1>5 DEF Recovers
<1>6. ASSUME NEW r \in Run, RecoverLater(r) PROVE TypeOK'
  BY <1>5, <1>6 DEF TypeOK, RecoverLater
<1>7. ASSUME NEW r \in Run, RecoverReplay(r) PROVE TypeOK'
  <2>1. [IdleJob EXCEPT !.pc = "replay", !.run = r, !.then = {"boot"}] \in JobRecord
    BY <1>0 DEF JobRecord, JobPc, Afterwards
  <2>2. job' \in [Worker -> JobRecord]
    BY <1>0, <1>7, <2>1, JobIsType DEF RecoverReplay
  <2> QED BY <1>5, <1>7, <2>2 DEF TypeOK, RecoverReplay
<1>8. ASSUME NEW r \in Run, RecoverApproval(r) PROVE TypeOK'
  <2>1. PICK c \in Call :
          \/ /\ job' = [job EXCEPT !["actor"] = [pc |-> "claim", run |-> r, call |-> c,
                                                 resume |-> FALSE, then |-> {"boot"}]]
             /\ approval' = [approval EXCEPT ![r][c] = IF @ = "pending" THEN "decline" ELSE @]
             /\ UNCHANGED approvalMark
          \/ /\ approvalMark' = [run |-> r, call |-> c, cancel |-> FALSE]
             /\ UNCHANGED <<approval, job>>
    BY <1>8 DEF RecoverApproval
  <2>2. /\ [pc |-> "claim", run |-> r, call |-> c, resume |-> FALSE, then |-> {"boot"}]
             \in JobRecord
        /\ [run |-> r, call |-> c, cancel |-> FALSE] \in ApprovalMark
    BY <1>0 DEF JobRecord, JobPc, Afterwards, ApprovalMark
  <2>3. job' \in [Worker -> JobRecord]
    BY <1>0, <2>1, <2>2, JobIsType
  <2>4. approvalMark' \in ApprovalMark
    BY <2>1, <2>2 DEF TypeOK
  <2>5. approval' \in [Run -> [Call -> {"none", "pending"} \cup Decision]]
    <3>1. approval \in [Run -> [Call -> {"none", "pending"} \cup Decision]]
      BY DEF TypeOK
    <3>2. \A x \in {"none", "pending"} \cup Decision :
            (IF x = "pending" THEN "decline" ELSE x) \in {"none", "pending"} \cup Decision
      BY DEF Decision
    <3>3. \/ approval' = approval
          \/ approval' = [approval EXCEPT ![r][c] = IF @ = "pending" THEN "decline" ELSE @]
      BY <2>1
    <3> QED BY <3>1, <3>2, <3>3
  <2> QED BY <1>5, <1>8, <2>3, <2>4, <2>5 DEF TypeOK, RecoverApproval
<1>9. ASSUME NEW r \in Run, RecoverInteraction(r) PROVE TypeOK'
  <2>1. PICK c \in Call :
          \/ /\ job' = [job EXCEPT !["actor"] = [pc |-> "claimAnswer", run |-> r, call |-> c,
                                                 resume |-> FALSE, then |-> {"boot"}]]
             /\ UNCHANGED interactionMark
          \/ /\ interactionMark' = [run |-> r, call |-> c]
             /\ UNCHANGED job
    BY <1>9 DEF RecoverInteraction
  <2>2. /\ [pc |-> "claimAnswer", run |-> r, call |-> c, resume |-> FALSE, then |-> {"boot"}]
             \in JobRecord
        /\ [run |-> r, call |-> c] \in AnswerMark
    BY <1>0 DEF JobRecord, JobPc, Afterwards, AnswerMark
  <2>3. job' \in [Worker -> JobRecord]
    BY <1>0, <2>1, <2>2, JobIsType
  <2>4. interactionMark' \in AnswerMark
    BY <2>1, <2>2 DEF TypeOK
  <2> QED BY <1>5, <1>9, <2>3, <2>4 DEF TypeOK, RecoverInteraction
<1> QED
  BY <1>1, <1>2, <1>3, <1>4, <1>6, <1>7, <1>8, <1>9 DEF Recovery

LEMMA TypeTurnStep == ASSUME TypeOK, NEW r \in Run, TurnStep(r) PROVE TypeOK'
<1>0. /\ turn \in [Run -> TurnRecord] /\ turn[r] \in TurnRecord /\ turn[r].tool \in PreparedTool
      /\ NoTool \in PreparedTool /\ NoTurn \in TurnRecord
      /\ Outcome \cup {"none", "admit", "model", "waitApproval", "waitAnswer", "dispatch",
                       "running", "settled"} \subseteq TurnPc
      /\ {"interrupted", "failed", "model"} \subseteq TurnPc
  BY ConstantTypes DEF TypeOK, TurnRecord, TurnPc, Outcome
<1>a. {"waiting_approval", "executing_tool", "streaming_model"} \subseteq RunStates
  BY DEF RunStates
<1>b. \A pc \in TurnPc : Goto(r, pc) => turn' \in [Run -> TurnRecord]
  BY <1>0, TurnGotoType DEF Goto
<1>1. CASE Admit(r)
  <2>1. turn' \in [Run -> TurnRecord]
    <3>1. CASE turn' = [turn EXCEPT ![r].pc = "model", ![r].resume = FALSE]
      BY <1>0, <3>1 DEF TurnRecord
    <3>2. CASE Goto(r, "failed")
      BY <1>0, <1>b, <3>2
    <3> QED BY <1>1, <3>1, <3>2 DEF Admit
  <2>2. state' \in [Run -> RunStates \cup {"absent"}]
    <3>1. state' = state \/ state' = [state EXCEPT ![r] = "streaming_model"]
      BY <1>1 DEF Admit
    <3> QED BY <1>a, <3>1 DEF TypeOK
  <2>3. userNodes' \in [Run -> Nat]
    <3>1. userNodes' = userNodes \/ userNodes' = [userNodes EXCEPT ![r] = @ + 1]
      BY <1>1 DEF Admit
    <3>2. userNodes \in [Run -> Nat]
      BY DEF TypeOK
    <3> QED BY <3>1, <3>2
  <2> QED BY <1>1, <2>1, <2>2, <2>3 DEF TypeOK, Admit
<1>2. ASSUME NEW outcome \in Outcome, ModelEnds(r, outcome) PROVE TypeOK'
  <2>1. turn' \in [Run -> TurnRecord]
    BY <1>0, <1>2, <1>b DEF ModelEnds
  <2> QED BY <1>2, <2>1 DEF TypeOK, ModelEnds
<1>3. ASSUME NEW class \in ToolClasses, NextCall(r, class)
      PROVE  /\ calls' \in [Run -> 0 .. MaxCalls]
             /\ NewTool(r, class) \in PreparedTool /\ calls[r] + 1 \in Call
  <2>1. NewTool(r, class) \in PreparedTool /\ calls[r] + 1 \in Call
    BY <1>3, NewToolType DEF NextCall
  <2>2. calls' \in [Run -> 0 .. MaxCalls]
    BY <1>3, <2>1 DEF NextCall, TypeOK, Call
  <2> QED BY <2>1, <2>2
<1>4. ASSUME NEW class \in ToolClasses, AskApproval(r, class) PROVE TypeOK'
  <2>1. NextCall(r, class) /\ TurnWrites(r, "waiting_approval", NewTool(r, class), "waitApproval")
    BY <1>4 DEF AskApproval
  <2>2. /\ state' \in [Run -> RunStates \cup {"absent"}] /\ tool' \in [Run -> PreparedTool]
        /\ turn' \in [Run -> TurnRecord]
    BY <1>0, <1>3, <1>a, <2>1, TurnWritesType
  <2>3. approval' \in [Run -> [Call -> {"none", "pending"} \cup Decision]]
    BY <1>4 DEF AskApproval, TypeOK
  <2> QED BY <1>3, <1>4, <2>1, <2>2, <2>3 DEF TypeOK, AskApproval
<1>5. ASSUME NEW class \in ToolClasses, AllowTool(r, class) PROVE TypeOK'
  <2>1. NextCall(r, class) /\ TurnWrites(r, "executing_tool", NewTool(r, class), "dispatch")
    BY <1>5 DEF AllowTool
  <2>2. /\ state' \in [Run -> RunStates \cup {"absent"}] /\ tool' \in [Run -> PreparedTool]
        /\ turn' \in [Run -> TurnRecord]
    BY <1>0, <1>3, <1>a, <2>1, TurnWritesType
  <2> QED BY <1>3, <1>5, <2>1, <2>2 DEF TypeOK, AllowTool
<1>6. CASE AskInteraction(r)
  <2>1. /\ NextCall(r, "interactive")
        /\ Ask(r, calls[r] + 1, NewTool(r, "interactive"), "waitAnswer")
    BY <1>6 DEF AskInteraction
  <2>2. "interactive" \in ToolClasses /\ Call \subseteq 0 .. MaxCalls
    BY DEF ToolClasses, Call
  <2>3. /\ state' \in [Run -> RunStates \cup {"absent"}] /\ tool' \in [Run -> PreparedTool]
        /\ turn' \in [Run -> TurnRecord]
        /\ interaction' \in [Run -> [Call -> {"none", "pending", "resolved"}]]
    BY <1>0, <1>3, <2>1, <2>2, AskType
  <2> QED BY <1>3, <1>6, <2>1, <2>2, <2>3 DEF TypeOK, AskInteraction
<1>7. ASSUME NEW decision \in {"decline", "cancel"}, ApprovalExpires(r, decision) PROVE TypeOK'
  <2>1. approval' \in [Run -> [Call -> {"none", "pending"} \cup Decision]]
    BY <1>7 DEF ApprovalExpires, TypeOK, Decision
  <2> QED BY <1>7, <2>1 DEF TypeOK, ApprovalExpires
<1>8. ASSUME NEW refused \in BOOLEAN, ApprovalSettled(r, refused) PROVE TypeOK'
  <2> DEFINE prepared == turn[r].tool
  <2>0. prepared.call \in 0 .. MaxCalls
    BY <1>0 DEF PreparedTool
  <2>1. CASE Ask(r, prepared.call, prepared, "waitAnswer")
    <3>1. /\ state' \in [Run -> RunStates \cup {"absent"}] /\ tool' \in [Run -> PreparedTool]
          /\ turn' \in [Run -> TurnRecord]
          /\ interaction' \in [Run -> [Call -> {"none", "pending", "resolved"}]]
      BY <1>0, <2>0, <2>1, AskType
    <3> QED BY <1>8, <3>1 DEF TypeOK, ApprovalSettled
  <2>2. ASSUME NEW to \in RunStates, NEW newTool \in PreparedTool, NEW pc \in TurnPc,
               TurnWrites(r, to, newTool, pc), UNCHANGED interaction
        PROVE  TypeOK'
    <3>1. /\ state' \in [Run -> RunStates \cup {"absent"}] /\ tool' \in [Run -> PreparedTool]
          /\ turn' \in [Run -> TurnRecord]
      BY <2>2, TurnWritesType
    <3> QED BY <1>8, <2>2, <3>1 DEF TypeOK, ApprovalSettled
  <2>3. \/ Ask(r, prepared.call, prepared, "waitAnswer")
        \/ TurnWrites(r, "executing_tool", prepared, "dispatch") /\ UNCHANGED interaction
        \/ \E pc \in {"interrupted", "model"} :
             TurnWrites(r, "streaming_model", NoTool, pc) /\ UNCHANGED interaction
    BY <1>8, Zenon DEF ApprovalSettled
  <2> QED BY <1>0, <1>a, <2>1, <2>2, <2>3
<1>9. CASE ApprovalHookFails(r)
  <2>1. turn' \in [Run -> TurnRecord]
    BY <1>0, <1>9, <1>b DEF ApprovalHookFails
  <2> QED BY <1>9, <2>1 DEF TypeOK, ApprovalHookFails
<1>10. CASE Dispatch(r)
  <2>1. turn' \in [Run -> TurnRecord] /\ licence' \in [Run -> [Call -> Int]]
    BY <1>0, <1>10, <1>b, SendType DEF Dispatch
  <2> QED BY <1>10, <2>1 DEF TypeOK, Dispatch
<1>11. ASSUME NEW pc \in {"model", "interrupted"}, ToolReturns(r, pc) PROVE TypeOK'
  <2>1. /\ state' \in [Run -> RunStates \cup {"absent"}] /\ tool' \in [Run -> PreparedTool]
        /\ turn' \in [Run -> TurnRecord]
    BY <1>0, <1>11, <1>a, TurnWritesType DEF ToolReturns
  <2> QED BY <1>11, <2>1 DEF TypeOK, ToolReturns
<1>12. CASE Elicit(r)
  <2>1. /\ state' \in [Run -> RunStates \cup {"absent"}] /\ tool' \in [Run -> PreparedTool]
        /\ turn' \in [Run -> TurnRecord]
        /\ interaction' \in [Run -> [Call -> {"none", "pending", "resolved"}]]
    <3>1. tool[r] \in PreparedTool /\ turn[r].tool.call \in 0 .. MaxCalls
      BY <1>0 DEF TypeOK, PreparedTool
    <3> QED BY <1>0, <1>12, <3>1, AskType DEF Elicit
  <2> QED BY <1>12, <2>1 DEF TypeOK, Elicit
<1>13. ASSUME NEW c \in Call, AnswerAborted(r, c) PROVE TypeOK'
  <2>1. turn' \in [Run -> TurnRecord]
    BY <1>0, <1>13, TurnAnsweredType DEF AnswerAborted
  <2> QED BY <1>13, <2>1 DEF TypeOK, AnswerAborted
<1>14. CASE Answered(r)
  <2>1. /\ state' \in [Run -> RunStates \cup {"absent"}] /\ tool' \in [Run -> PreparedTool]
        /\ turn' \in [Run -> TurnRecord]
    BY <1>0, <1>14, <1>a, TurnWritesType DEF Answered
  <2> QED BY <1>14, <2>1 DEF TypeOK, Answered
<1>15. CASE Finish(r)
  <2>1. turn' \in [Run -> TurnRecord]
    BY <1>0, <1>15, <1>b DEF Finish
  <2>2. state' \in [Run -> RunStates \cup {"absent"}]
    BY <1>15 DEF Finish, TypeOK, Outcome, RunStates
  <2> QED BY <1>15, <2>1, <2>2 DEF TypeOK, Finish
<1>16. CASE Settled(r)
  BY <1>0, <1>16 DEF TypeOK, Settled
<1> QED
  BY <1>1, <1>2, <1>4, <1>5, <1>6, <1>7, <1>8, <1>9, <1>10, <1>11, <1>12, <1>13, <1>14, <1>15,
     <1>16 DEF TurnStep

(* Every reachable state is well typed: each record has one of the states  *)
(* the code declares, and every id kept in memory is that of a run.        *)
THEOREM TypeCorrect == Spec => []TypeOK
<1>1. Init => TypeOK
  BY BoundAssumption, ConstantTypes
  DEF Init, Idle, TypeOK, RunStates, RecoveryActions, Decision
<1>2. TypeOK /\ [Next]_vars => TypeOK'
  <2> SUFFICES ASSUME TypeOK, [Next]_vars PROVE TypeOK'
    OBVIOUS
  <2>1. CASE Next
    BY <2>1, TypeCommand, TypeActorTask, TypePauseThread, TypeAutomation, TypeJobStep,
       TypeTurnStep, TypeRecovery, TypeCrash DEF Next
  <2>2. CASE UNCHANGED vars
    BY <2>2 DEF TypeOK, vars
  <2> QED BY <2>1, <2>2
<1> QED BY <1>1, <1>2, PTL DEF Spec

-----------------------------------------------------------------------------
(***************************************************************************)
(* One run owns the thread at a time, for any number of runs, calls,       *)
(* restarts and retries, and with every fault but automation.              *)
(***************************************************************************)
Actor == job["actor"]

(* Where the actor's job works on its run as the run's only execution.     *)
Controlling == {"start", "launch", "claimed", "markDone", "replay", "validate", "dispatch",
                "replaying", "quarantine"}

(* Recovery actions of a run that still owns the thread, and its state.    *)
Restoring == {"replay_tool", "restore_approval", "restore_interaction"}
RestoredState == [replay_tool |-> "preparing", restore_approval |-> "waiting_approval",
                  restore_interaction |-> "waiting_interaction"]

(* Everything in the worker's memory that names the thread's owner.        *)
Named(r) ==
  \/ active = r
  \/ Actor.pc \in Controlling /\ Actor.run = r
  \/ approvalMark.run = r
  \/ interactionMark.run = r
  \/ todo[r] \in Restoring

Claimant(r) == Named(r) \/ state[r] \in Owning

Alone == \A r, s \in Run : Claimant(r) /\ Claimant(s) => r = s

(* Nothing but the actor's job is at work or waits to be. *)
Quiet ==
  /\ active = NoRun /\ replay.run = NoRun /\ sched = {}
  /\ approvalMark.run = NoRun /\ interactionMark.run = NoRun

(* Recovery continues a decided request of r.                              *)
Recontinues(r) ==
  "boot" \in Actor.then /\ Actor.pc \in {"claim", "claimAnswer"} /\ Actor.run = r

(* An owning run nobody names is one recovery is about to continue, or has *)
(* not come to.                                                            *)
Unnamed ==
  \A r \in Run : state[r] \in Owning /\ ~Named(r) =>
    /\ Quiet
    /\ Recontinues(r) \/ (Actor.pc = "idle" /\ phase \in {"down", "broken"})

PhaseInv ==
  /\ phase = "down" => Quiet /\ Actor.pc = "idle"
  /\ phase \in {"down", "up"} => \A r \in Run : todo[r] = "done"
  /\ \A r \in Run : todo[r] \in Restoring =>
       Quiet /\ Actor.pc = "idle" /\ phase = "recovering" /\ state[r] = RestoredState[todo[r]]

ActorInv ==
  /\ job["auto"].pc = "idle"
  /\ Actor.pc \in Controlling => active = NoRun /\ Actor.run \in Run
  /\ replay.run # NoRun =>
       /\ Actor.pc \in {"validate", "dispatch", "replaying", "quarantine", "start", "launch"}
       /\ Actor.run = replay.run
  /\ "boot" \in Actor.then /\ Actor.pc \in {"claim", "claimAnswer", "claimed"} =>
       Quiet /\ Actor.run \in Run /\ Actor.call \in Call
  /\ "boot" \in Actor.then /\ Actor.pc = "claim" =>
       /\ state[Actor.run] = "waiting_approval"
       /\ Decided(Actor.run, Actor.call) /\ IsLatestApproval(Actor.run, Actor.call)
  /\ "boot" \in Actor.then /\ Actor.pc = "claimAnswer" =>
       /\ state[Actor.run] = "waiting_interaction"
       /\ interaction[Actor.run][Actor.call] = "resolved" /\ tool[Actor.run].call = Actor.call
  /\ Actor.pc = "claimed" =>
       /\ Decided(Actor.run, Actor.call)
       /\ state[Actor.run] = AfterDecision[approval[Actor.run][Actor.call]]
       /\ "boot" \notin Actor.then => approvalMark.run = Actor.run
  /\ Actor.pc = "wait" => Actor.then \subseteq {"drain"}
  /\ Actor.pc \in {"claim", "claimAnswer"} => Actor.run \in Run
  /\ Actor.pc = "claimAnswer" => "finish" \notin Actor.then
  /\ /\ Actor.pc = "return" /\ "finish" \in Actor.then
     /\ approvalMark.run = Actor.run /\ Actor.run \in Run
     => active = Actor.run \/ state[Actor.run] \notin Owning
  /\ Actor.pc \in {"markDone", "validate", "dispatch", "replaying"} => HasTool(Actor.run)
  /\ Actor.pc = "quarantine" => state[Actor.run] \notin Owning

TurnInv ==
  \A r \in Run :
    /\ turn[r].pc # "none" => active = r
    /\ turn[r].pc \in {"model", "completed"} => state[r] \notin Owning \ {"streaming_model"}
    /\ turn[r].pc = "settled" => state[r] \notin Owning
    /\ turn[r].pc = "waitApproval" => turn[r].tool.call # 0
    /\ interactionMark.run = r /\ state[r] = "waiting_approval" => active = r

(* Questions are put for the newest call.                                  *)
NoneAsked(r, c) == \A later \in Call : later > c => interaction[r][later] = "none"

ToolInv ==
  \A r \in Run :
    /\ state[r] \in {"waiting_approval", "waiting_interaction", "executing_tool",
                     "paused_uncertain"} => HasTool(r)
    /\ NoneAsked(r, calls[r])
    /\ tool[r].call <= calls[r] /\ turn[r].tool.call <= calls[r]
    /\ HasTool(r) => NoneAsked(r, tool[r].call)
    /\ turn[r].tool.call # 0 => NoneAsked(r, turn[r].tool.call)
    /\ state[r] = "waiting_interaction" => interaction[r][tool[r].call] # "none"
    /\ \A c \in turn[r].asked : c \in Call /\ interaction[r][c] # "none"

OwnerInv == Alone /\ Unnamed /\ PhaseInv /\ ActorInv /\ TurnInv /\ ToolInv

-----------------------------------------------------------------------------
(* Which run may act on the thread.                                        *)

LEMMA AloneKept ==
  ASSUME Alone, \A s \in Run : Claimant(s)' => Claimant(s)
  PROVE  Alone'
  BY DEF Alone

LEMMA AloneNew ==
  ASSUME NEW r, \A s \in Run : Claimant(s)' => s = r
  PROVE  Alone'
  BY DEF Alone

(* With the thread free, no run claims it. *)
LEMMA NobodyClaims ==
  ASSUME OwnerInv, Admitted, ~Busy
  PROVE  \A s \in Run : ~Claimant(s)
<1>1. \A s \in Run : ~Named(s)
  BY RunAssumption
  DEF Named, OwnerInv, PhaseInv, Admitted, ActorIdle, Busy, Running, Actor, Controlling, Restoring
<1>2. \A s \in Run : state[s] \notin Owning
  BY <1>1 DEF OwnerInv, Unnamed, Recontinues, Admitted, ActorIdle, Actor
<1> QED BY <1>1, <1>2 DEF Claimant

LEMMA OwnerSubmit == ASSUME TypeOK, OwnerInv, NEW q \in Run, Submit(q) PROVE OwnerInv'
<1> USE DEF Worker
<1>0. Admitted /\ ~Busy /\ \A s \in Run : ~Claimant(s)
  BY NobodyClaims DEF Submit
<1>1. Alone'
  <2>1. \A s \in Run : Claimant(s)' => s = q
    BY <1>0 DEF TypeOK, Submit, StartRun, Claimant, Named, Actor, Owning, Waiting
  <2> QED BY <2>1, AloneNew
<1>2. Unnamed'
  BY <1>0 DEF TypeOK, Submit, Claimant, Unnamed, Owning, Waiting
<1>3. PhaseInv'
  BY DEF TypeOK, OwnerInv, Submit, PhaseInv, StartRun, Admitted, Restoring
<1>4. ActorInv'
  BY DEF TypeOK, OwnerInv, Submit, ActorInv, Actor, StartRun, Busy, Running, Controlling
<1>5. TurnInv'
  BY DEF OwnerInv, Submit, TurnInv, TypeOK, TurnRecord, Owning, Waiting
<1>6. ToolInv'
  BY DEF OwnerInv, Submit, ToolInv, TypeOK, HasTool, NoneAsked
<1> QED BY <1>1, <1>2, <1>3, <1>4, <1>5, <1>6 DEF OwnerInv

LEMMA OwnerEnqueue == ASSUME TypeOK, OwnerInv, NEW q \in Run, Enqueue(q) PROVE OwnerInv'
<1>1. Alone'
  <2>1. \A s \in Run : Claimant(s)' => Claimant(s)
    BY DEF TypeOK, Enqueue, Claimant, Named, Actor, Owning, Waiting
  <2> QED BY <2>1, AloneKept DEF OwnerInv
<1>2. Unnamed'
  BY DEF TypeOK, OwnerInv, Enqueue, Unnamed, Named, Actor, Recontinues, Admitted, ActorIdle,
         Owning, Waiting
<1>3. PhaseInv'
  BY DEF TypeOK, OwnerInv, Enqueue, PhaseInv, Admitted, Restoring
<1>4. ActorInv'
  BY DEF TypeOK, OwnerInv, Enqueue, ActorInv, Actor, Admitted, ActorIdle, Controlling
<1>5. TurnInv'
  BY DEF TypeOK, OwnerInv, Enqueue, TurnInv, Owning, Waiting
<1>6. ToolInv'
  BY DEF TypeOK, OwnerInv, Enqueue, ToolInv, HasTool, NoneAsked
<1> QED BY <1>1, <1>2, <1>3, <1>4, <1>5, <1>6 DEF OwnerInv

LEMMA OwnerRemove == ASSUME TypeOK, OwnerInv, NEW q \in Run, RemoveQueued(q) PROVE OwnerInv'
<1>1. Alone'
  <2>1. \A s \in Run : Claimant(s)' => Claimant(s)
    BY DEF TypeOK, RemoveQueued, Claimant, Named, Actor, Owning, Waiting
  <2> QED BY <2>1, AloneKept DEF OwnerInv
<1>2. Unnamed'
  BY DEF TypeOK, OwnerInv, RemoveQueued, Unnamed, Named, Actor, Recontinues, Admitted, ActorIdle,
         Owning, Waiting
<1>3. PhaseInv'
  BY DEF TypeOK, OwnerInv, RemoveQueued, PhaseInv, Admitted, Restoring
<1>4. ActorInv'
  BY DEF TypeOK, OwnerInv, RemoveQueued, ActorInv, Actor, Admitted, ActorIdle, Controlling
<1>5. TurnInv'
  BY DEF TypeOK, OwnerInv, RemoveQueued, TurnInv, Owning, Waiting
<1>6. ToolInv'
  BY DEF TypeOK, OwnerInv, RemoveQueued, ToolInv, HasTool, NoneAsked
<1> QED BY <1>1, <1>2, <1>3, <1>4, <1>5, <1>6 DEF OwnerInv

LEMMA OwnerInterrupt == ASSUME TypeOK, OwnerInv, Interrupt PROVE OwnerInv'
<1>1. Alone' /\ Unnamed' /\ PhaseInv'
  BY DEF OwnerInv, Interrupt, Alone, Claimant, Named, Actor, Unnamed, Quiet, Recontinues, PhaseInv
<1>2. ActorInv'
  BY DEF OwnerInv, Interrupt, ActorInv, Actor, Quiet, Decided, IsLatestApproval, HasTool
<1>3. TurnInv' /\ ToolInv'
  BY DEF OwnerInv, Interrupt, TurnInv, ToolInv, TypeOK, TurnRecord, HasTool, NoneAsked
<1> QED BY <1>1, <1>2, <1>3 DEF OwnerInv

LEMMA OwnerResume == ASSUME TypeOK, OwnerInv, NEW q \in Run, Resume(q) PROVE OwnerInv'
<1> USE DEF Worker
<1>0. Admitted /\ ~Busy /\ \A s \in Run : ~Claimant(s)
  BY NobodyClaims DEF Resume
<1>1. Alone'
  <2>1. \A s \in Run : Claimant(s)' => s = q
    BY <1>0 DEF TypeOK, Resume, StartRun, Claimant, Named, Actor, Owning, Waiting
  <2> QED BY <2>1, AloneNew
<1>2. Unnamed'
  BY <1>0 DEF TypeOK, Resume, Claimant, Unnamed
<1>3. PhaseInv'
  BY DEF TypeOK, OwnerInv, Resume, PhaseInv, StartRun, Admitted, Restoring
<1>4. ActorInv'
  BY DEF TypeOK, OwnerInv, Resume, ActorInv, Actor, StartRun, Busy, Running, Controlling
<1>5. TurnInv' /\ ToolInv'
  BY DEF OwnerInv, Resume, TurnInv, ToolInv, HasTool, NoneAsked
<1> QED BY <1>1, <1>2, <1>3, <1>4, <1>5 DEF OwnerInv

LEMMA OwnerResolve ==
  ASSUME TypeOK, OwnerInv, NEW q \in Run, NEW resolution \in {"fail", "mark_done", "retry"},
         ResolveUncertain(q, resolution)
  PROVE  OwnerInv'
<1> USE DEF Worker
<1>0. /\ Admitted /\ ~Busy /\ \A s \in Run : ~Claimant(s)
      /\ state[q] = "paused_uncertain" /\ HasTool(q)
  BY NobodyClaims DEF ResolveUncertain, OwnerInv, ToolInv
<1>a. \/ job' = job /\ state' = [state EXCEPT ![q] = "failed"]
      \/ /\ \E pc \in {"markDone", "replay"} :
              job' = [job EXCEPT !["actor"] = [IdleJob EXCEPT !.pc = pc, !.run = q]]
         /\ state' = [state EXCEPT ![q] = "preparing"]
  BY DEF ResolveUncertain
<1>b. /\ job'["auto"] = job["auto"]
      /\ \/ Actor' = Actor
         \/ Actor'.pc \in {"markDone", "replay"} /\ Actor'.run = q /\ Actor'.then = {}
      /\ state'[q] \in Owning => Actor'.pc \in {"markDone", "replay"} /\ Actor'.run = q
      /\ \A s \in Run : s # q => state'[s] = state[s]
      /\ state'[q] \in {"failed", "preparing"}
  <2>1. job \in [Worker -> JobRecord] /\ state \in [Run -> RunStates \cup {"absent"}]
    BY DEF TypeOK
  <2>2. CASE job' = job /\ state' = [state EXCEPT ![q] = "failed"]
    BY <2>1, <2>2 DEF Actor, Owning, Waiting
  <2>3. CASE \E pc \in {"markDone", "replay"} :
               /\ job' = [job EXCEPT !["actor"] = [IdleJob EXCEPT !.pc = pc, !.run = q]]
               /\ state' = [state EXCEPT ![q] = "preparing"]
    <3>1. PICK pc \in {"markDone", "replay"} :
               /\ job' = [job EXCEPT !["actor"] = [IdleJob EXCEPT !.pc = pc, !.run = q]]
               /\ state' = [state EXCEPT ![q] = "preparing"]
      BY <2>3
    <3> QED BY <2>1, <3>1 DEF Actor, IdleJob
  <2> QED BY <1>a, <2>2, <2>3
<1>1. Alone'
  <2>1. \A s \in Run : Claimant(s)' => s = q
    BY <1>0, <1>b DEF ResolveUncertain, Claimant, Named, Actor
  <2> QED BY <2>1, AloneNew
<1>2. Unnamed'
  BY <1>0, <1>b DEF Claimant, Unnamed, Named, Actor, Controlling
<1>3. PhaseInv'
  BY DEF TypeOK, OwnerInv, ResolveUncertain, PhaseInv, Admitted, Restoring
<1>4. ActorInv'
  BY <1>0, <1>b DEF TypeOK, OwnerInv, ResolveUncertain, ActorInv, Actor, Admitted, ActorIdle,
         Busy, Running, Controlling, HasTool
<1>5. TurnInv'
  BY <1>0, <1>b, RunAssumption DEF OwnerInv, ResolveUncertain, TurnInv, Busy, Running
<1>6. ToolInv'
  BY <1>0, <1>b DEF OwnerInv, ResolveUncertain, ToolInv, HasTool, NoneAsked
<1> QED BY <1>1, <1>2, <1>3, <1>4, <1>5, <1>6 DEF OwnerInv

-----------------------------------------------------------------------------
(* Answers that come while a run waits, and the engine's own tasks.        *)

(* The idle actor takes up a job that names no owner: what named one       *)
(* before still does.                                                      *)
LEMMA OwnerTakesUp ==
  ASSUME TypeOK, OwnerInv, phase # "down", Actor.pc = "idle", phase = "up" \/ ~Quiet,
         \/ Actor' = Actor
         \/ /\ Actor'.pc \in {"wait", "claim", "claimAnswer", "return"}
            /\ "boot" \notin Actor'.then /\ "finish" \notin Actor'.then
            /\ Actor'.pc = "wait" => Actor'.then \subseteq {"drain"}
            /\ Actor'.pc \in {"claim", "claimAnswer"} => Actor'.run \in Run,
         UNCHANGED <<state, phase, todo, active, approvalMark, interactionMark, replay>>,
         job'["auto"] = job["auto"]
  PROVE  Alone' /\ Unnamed' /\ PhaseInv' /\ ActorInv'
<1>1. \A s \in Run : todo[s] \notin Restoring
  BY DEF OwnerInv, PhaseInv, Restoring
<1>2. Actor'.pc \notin Controlling /\ Actor'.pc \notin {"claimed"}
  BY DEF Controlling
<1>3. \A s \in Run : Named(s)' <=> Named(s)
  BY <1>2 DEF Named, Controlling
<1>4. Alone'
  <2>1. \A s \in Run : Claimant(s)' => Claimant(s)
    BY <1>3 DEF Claimant
  <2> QED BY <2>1, AloneKept DEF OwnerInv
<1>5. \A s \in Run : state[s] \in Owning => Named(s)
  BY DEF OwnerInv, Unnamed, Recontinues
<1>6. Unnamed'
  BY <1>3, <1>5 DEF Unnamed
<1>7. PhaseInv'
  BY <1>1 DEF OwnerInv, PhaseInv
<1>8. ActorInv'
  BY <1>2 DEF OwnerInv, ActorInv, Controlling
<1> QED BY <1>4, <1>6, <1>7, <1>8

LEMMA OwnerRunTask ==
  ASSUME TypeOK, OwnerInv, NEW name \in {"drain", "afterTurn"}, RunTask(name) PROVE OwnerInv'
<1> USE DEF Worker
<1>1. /\ Actor'.pc \in {"wait", "return"} /\ Actor'.then = {"drain"} /\ ~Quiet
      /\ job'["auto"] = job["auto"] /\ Actor.pc = "idle" /\ phase # "down"
  BY DEF TypeOK, RunTask, Task, ActorIdle, Actor, IdleJob, Quiet
<1>2. Alone' /\ Unnamed' /\ PhaseInv' /\ ActorInv'
  BY <1>1, OwnerTakesUp DEF RunTask
<1>3. TurnInv' /\ ToolInv'
  BY DEF OwnerInv, RunTask, TurnInv, ToolInv, HasTool, NoneAsked
<1> QED BY <1>2, <1>3 DEF OwnerInv

LEMMA OwnerPauseApproval == ASSUME TypeOK, OwnerInv, PauseApproval PROVE OwnerInv'
<1> USE DEF Worker
<1>1. /\ Actor' = Actor \/ (Actor'.pc = "wait" /\ Actor'.then = {"drain"})
      /\ ~Quiet /\ job'["auto"] = job["auto"] /\ Actor.pc = "idle" /\ phase # "down"
  <2>1. /\ job \in [Worker -> JobRecord] /\ Actor.pc = "idle" /\ phase # "down" /\ ~Quiet
        /\ job' = job \/ DecideMarked("cancel")
    BY DEF TypeOK, PauseApproval, Task, ActorIdle, Actor, Quiet
  <2> QED BY <2>1 DEF DecideMarked, Actor, IdleJob
<1>2. Alone' /\ Unnamed' /\ PhaseInv' /\ ActorInv'
  BY <1>1, OwnerTakesUp DEF PauseApproval
<1>3. TurnInv' /\ ToolInv'
  BY DEF OwnerInv, PauseApproval, TurnInv, ToolInv, HasTool, NoneAsked
<1> QED BY <1>2, <1>3 DEF OwnerInv

LEMMA OwnerApprovalTimeout == ASSUME TypeOK, OwnerInv, RecoveredApprovalTimeout PROVE OwnerInv'
<1> USE DEF Worker
<1>1. /\ Actor'.pc = "wait" /\ Actor'.then = {"drain"}
      /\ ~Quiet /\ job'["auto"] = job["auto"] /\ Actor.pc = "idle" /\ phase # "down"
  BY RunAssumption DEF TypeOK, RecoveredApprovalTimeout, DecideMarked, MarkWaits, ApprovalMarked,
        ActorIdle, Actor, IdleJob, Quiet
<1>2. Alone' /\ Unnamed' /\ PhaseInv' /\ ActorInv'
  BY <1>1, OwnerTakesUp DEF RecoveredApprovalTimeout
<1>3. TurnInv' /\ ToolInv'
  BY DEF OwnerInv, RecoveredApprovalTimeout, TurnInv, ToolInv, HasTool, NoneAsked
<1> QED BY <1>2, <1>3 DEF OwnerInv

LEMMA OwnerApprovalResponse ==
  ASSUME TypeOK, OwnerInv, NEW q \in Run, NEW c \in Call, NEW decision \in Decision,
         ApprovalResponse(q, c, decision)
  PROVE  OwnerInv'
<1> USE DEF Worker
<1>1. /\ \/ Actor' = Actor
         \/ Actor'.pc = "wait" /\ Actor'.then = {"drain"}
         \/ Actor'.pc = "claim" /\ Actor'.then = {"keep", "drain"} /\ Actor'.run = q
      /\ job'["auto"] = job["auto"] /\ Actor.pc = "idle" /\ phase = "up"
  <2>1. job \in [Worker -> JobRecord] /\ Actor.pc = "idle" /\ phase = "up"
    BY DEF TypeOK, ApprovalResponse, Admitted, ActorIdle, Actor
  <2>2. CASE ApprovalWaiter(q, c)
    BY <2>1, <2>2 DEF ApprovalResponse, Actor
  <2>3. CASE ~ApprovalWaiter(q, c) /\ ApprovalMarked(q, c)
    BY <2>1, <2>3 DEF ApprovalResponse, Actor
  <2>4. CASE ~ApprovalWaiter(q, c) /\ ~ApprovalMarked(q, c)
    BY <2>1, <2>4 DEF ApprovalResponse, Actor
  <2> QED BY <2>2, <2>3, <2>4
<1>2. Alone' /\ Unnamed' /\ PhaseInv' /\ ActorInv'
  BY <1>1, OwnerTakesUp DEF ApprovalResponse
<1>3. TurnInv' /\ ToolInv'
  BY DEF OwnerInv, ApprovalResponse, TurnInv, ToolInv, HasTool, NoneAsked
<1> QED BY <1>2, <1>3 DEF OwnerInv

(* An answer resolves a question that was put. *)
LEMMA AnswersAsked ==
  ASSUME TypeOK, ToolInv, NEW q \in Run, NEW c \in Call, interaction[q][c] # "none",
         interaction' = [interaction EXCEPT ![q][c] = "resolved"],
         turn' = [turn EXCEPT ![q].asked = @ \ {c}],
         UNCHANGED <<state, tool, calls>>
  PROVE  ToolInv'
<1>1. /\ turn \in [Run -> TurnRecord]
      /\ interaction \in [Run -> [Call -> {"none", "pending", "resolved"}]]
  BY DEF TypeOK
<1>2. \A s \in Run : /\ turn'[s].tool = turn[s].tool /\ turn'[s].pc = turn[s].pc
                     /\ turn'[s].asked \subseteq turn[s].asked
  BY <1>1 DEF TurnRecord
<1>3. \A s \in Run, d \in Call : interaction'[s][d] = "none" <=> interaction[s][d] = "none"
  BY <1>1
<1>4. \A s \in Run : state[s] = "waiting_interaction" => tool[s].call \in Call
  BY BoundAssumption DEF ToolInv, HasTool, TypeOK, PreparedTool, Call
<1> QED BY <1>2, <1>3, <1>4 DEF ToolInv, HasTool, NoneAsked

LEMMA OwnerInteractionResponse ==
  ASSUME TypeOK, OwnerInv, NEW q \in Run, NEW c \in Call, InteractionResponse(q, c)
  PROVE  OwnerInv'
<1> USE DEF Worker
<1>1. /\ \/ Actor' = Actor
         \/ Actor'.pc = "wait" /\ Actor'.then = {}
         \/ Actor'.pc = "claimAnswer" /\ Actor'.then = {"keep"} /\ Actor'.run = q
      /\ job'["auto"] = job["auto"] /\ Actor.pc = "idle" /\ phase = "up"
  <2>1. job \in [Worker -> JobRecord] /\ Actor.pc = "idle" /\ phase = "up"
    BY DEF TypeOK, InteractionResponse, Admitted, ActorIdle, Actor
  <2>2. CASE AnswerWaiter(q, c)
    BY <2>1, <2>2 DEF InteractionResponse, Answer, Actor
  <2>3. CASE ~AnswerWaiter(q, c) /\ AnswerMarked(q, c)
    BY <2>1, <2>3 DEF InteractionResponse, Answer, Actor
  <2>4. CASE ~AnswerWaiter(q, c) /\ ~AnswerMarked(q, c)
    BY <2>1, <2>4 DEF InteractionResponse, Answer, Actor
  <2> QED BY <2>2, <2>3, <2>4
<1>2. Alone' /\ Unnamed' /\ PhaseInv' /\ ActorInv'
  BY <1>1, OwnerTakesUp DEF InteractionResponse, Answer
<1>3. TurnInv'
  BY DEF TypeOK, OwnerInv, InteractionResponse, Answer, TurnInv, TurnRecord
<1>4. ToolInv'
  BY AnswersAsked DEF OwnerInv, InteractionResponse, Answer
<1> QED BY <1>2, <1>3, <1>4 DEF OwnerInv

LEMMA OwnerPauseThread == ASSUME TypeOK, OwnerInv, PauseThread PROVE OwnerInv'
<1>1. /\ approvalMark'.run = approvalMark.run /\ replay'.run = replay.run
      /\ \A s \in Run : /\ turn'[s].pc = turn[s].pc /\ turn'[s].tool = turn[s].tool
                        /\ turn'[s].asked = turn[s].asked
  BY DEF TypeOK, PauseThread, ApprovalMark, ReplayRecord, TurnRecord
<1>2. Quiet => Quiet'
  BY <1>1 DEF PauseThread, Quiet
<1>3. Alone' /\ Unnamed'
  BY <1>1, <1>2 DEF OwnerInv, PauseThread, Alone, Claimant, Named, Actor, Unnamed, Recontinues
<1>4. PhaseInv' /\ ActorInv'
  BY <1>1, <1>2
  DEF OwnerInv, PauseThread, PhaseInv, ActorInv, Actor, Decided, IsLatestApproval, HasTool
<1>5. TurnInv' /\ ToolInv'
  BY <1>1 DEF OwnerInv, PauseThread, TurnInv, ToolInv, HasTool, NoneAsked
<1> QED BY <1>3, <1>4, <1>5 DEF OwnerInv

-----------------------------------------------------------------------------
(* The actor's job.                                                        *)

(* Effects of the control flow of a job. *)
LEMMA ActorSteps ==
  ASSUME TypeOK, NEW pc, Step("actor", pc)
  PROVE  /\ Actor'.pc = pc /\ Actor'.run = Actor.run /\ Actor'.call = Actor.call
         /\ Actor'.then = Actor.then /\ job'["auto"] = job["auto"]
  BY DEF TypeOK, Step, Actor, Worker, JobRecord

LEMMA ActorResumes ==
  ASSUME TypeOK, ResumeRun("actor")
  PROVE  /\ Actor'.pc = "start" /\ Actor'.run = Actor.run /\ Actor'.call = Actor.call
         /\ Actor'.then = Actor.then /\ Actor'.resume /\ job'["auto"] = job["auto"]
  BY DEF TypeOK, ResumeRun, Actor, Worker, JobRecord

LEMMA ActorThrows ==
  ASSUME TypeOK, Throw("actor")
  PROVE  /\ Actor' = IdleJob /\ job'["auto"] = job["auto"]
         /\ phase' = phase \/ phase' = "broken"
         /\ "boot" \in Actor.then => phase' = "broken"
  BY DEF TypeOK, Throw, Actor, Worker

LEMMA ReplayEnds == ASSUME OwnerInv, EndReplay("actor") PROVE replay'.run = NoRun
  BY DEF OwnerInv, ActorInv, EndReplay, Actor, NoReplay

(* Writes that leave every run whose state needs a tool with one. *)
LEMMA ToolKept ==
  ASSUME TypeOK, ToolInv, UNCHANGED <<interaction, calls>>,
         \A s \in Run : /\ turn'[s].tool \in {turn[s].tool, NoTool}
                        /\ turn'[s].asked \subseteq turn[s].asked,
         \A s \in Run :
           \/ tool'[s] = tool[s] /\ state'[s] = state[s]
           \/ tool'[s] = tool[s] /\ HasTool(s) /\ state'[s] # "waiting_interaction"
           \/ /\ tool'[s] = tool[s] \/ tool'[s] = NoTool
              /\ state'[s] \notin {"waiting_approval", "waiting_interaction", "executing_tool",
                                   "paused_uncertain"}
  PROVE  ToolInv'
<1> USE DEF ToolInv
<1>1. \A s \in Run : NoneAsked(s, calls[s])' /\ 0 <= calls[s]
  BY DEF NoneAsked, TypeOK
<1>2. \A s \in Run : /\ tool'[s].call <= calls'[s]
                     /\ HasTool(s)' => NoneAsked(s, tool[s].call)'
  BY <1>1 DEF NoneAsked, NoTool, HasTool
<1>3. \A s \in Run : /\ turn'[s].tool.call <= calls'[s]
                     /\ turn'[s].tool.call # 0 => NoneAsked(s, turn[s].tool.call)'
  BY <1>1 DEF NoneAsked, NoTool
<1>4. \A s \in Run : /\ state'[s] \in {"waiting_approval", "waiting_interaction", "executing_tool",
                                       "paused_uncertain"} => HasTool(s)'
                     /\ state'[s] = "waiting_interaction" => interaction'[s][tool'[s].call] # "none"
  BY DEF HasTool
<1> QED BY <1>1, <1>2, <1>3, <1>4

(* The job of the run that owns the thread goes on, or leaves the run not  *)
(* owning it.                                                              *)
LEMMA OwnerWorks ==
  ASSUME TypeOK, OwnerInv, NEW r \in Run, Actor.pc \in Controlling, Actor.run = r,
         \/ Actor'.pc \in Controlling \ {"claimed"} /\ Actor'.run = r
         \/ Actor'.pc \in {"return", "idle"} /\ state'[r] \notin Owning,
         Actor'.pc # "idle" => Actor'.run = r,
         Actor'.pc \in {"markDone", "validate", "dispatch", "replaying"} => HasTool(r)',
         Actor'.pc = "quarantine" => state'[r] \notin Owning,
         replay'.run # NoRun =>
           /\ replay'.run = r
           /\ Actor'.pc \in {"validate", "dispatch", "replaying", "quarantine", "start", "launch"},
         \A s \in Run : s # r => state'[s] = state[s],
         state'[r] = state[r] \/ state'[r] \notin Waiting,
         phase' = phase \/ phase' = "broken",
         UNCHANGED <<todo, active, turn, approvalMark, interactionMark>>,
         job'["auto"] = job["auto"]
  PROVE  Alone' /\ Unnamed' /\ PhaseInv' /\ ActorInv' /\ TurnInv'
<1>1. /\ active = NoRun /\ phase # "down" /\ \A s \in Run : todo[s] \notin Restoring
      /\ Named(r) /\ \A s \in Run : turn[s].pc = "none"
  BY RunAssumption DEF OwnerInv, ActorInv, PhaseInv, TurnInv, Controlling, Named
<1>2. \A s \in Run : Claimant(s)' => Claimant(s)
  BY <1>1 DEF Claimant, Named, Controlling
<1>3. Alone'
  BY <1>2, AloneKept DEF OwnerInv
<1>4. \A s \in Run : state'[s] \in Owning => s = r /\ Named(s)'
  BY <1>1 DEF OwnerInv, Alone, Claimant, Named, Controlling
<1>5. Unnamed'
  BY <1>4 DEF Unnamed
<1>6. PhaseInv'
  BY <1>1 DEF OwnerInv, PhaseInv
<1>7. ActorInv'
  BY <1>1 DEF OwnerInv, ActorInv, Controlling
<1>8. TurnInv'
  BY <1>1 DEF OwnerInv, TurnInv, Waiting
<1> QED BY <1>3, <1>5, <1>6, <1>7, <1>8

LEMMA OwningMayFail ==
  \A s \in Owning : CanTransition(s, "failed") /\ CanTransition(s, "interrupted")
  BY DEF Owning, Waiting, CanTransition, Successors

LEMMA OwnerStartFails == ASSUME TypeOK, OwnerInv, StartFails("actor") PROVE OwnerInv'
<1> DEFINE r == Actor.run
<1>0. /\ Actor.pc \in Controlling /\ r \in Run
      /\ Throw("actor") /\ EndReplay("actor")
      /\ state' = IF CanTransition(state[r], "failed") THEN [state EXCEPT ![r] = "failed"]
                  ELSE state
  BY DEF StartFails, Actor, Controlling, OwnerInv, ActorInv
<1>1. /\ state'[r] \notin Owning /\ \A s \in Run : s # r => state'[s] = state[s]
      /\ state'[r] = state[r] \/ state'[r] = "failed"
  BY <1>0, OwningMayFail DEF TypeOK, Owning, Waiting
<1>2. Alone' /\ Unnamed' /\ PhaseInv' /\ ActorInv' /\ TurnInv'
  BY <1>0, <1>1, ActorThrows, ReplayEnds, OwnerWorks DEF StartFails, IdleJob, Waiting
<1>3. ToolInv'
  BY <1>0, <1>1, ToolKept DEF StartFails, OwnerInv
<1> QED BY <1>2, <1>3 DEF OwnerInv

LEMMA OwnerStartPrepares == ASSUME TypeOK, OwnerInv, StartPrepares("actor") PROVE OwnerInv'
<1> DEFINE r == Actor.run
<1>0. /\ Actor.pc \in Controlling /\ r \in Run /\ Step("actor", "launch")
      /\ replay.run # NoRun => replay.run = r
      /\ state' = [state EXCEPT ![r] = "preparing"] \/ state' = state
  BY DEF StartPrepares, Actor, Controlling, OwnerInv, ActorInv
<1>1. /\ \A s \in Run : s # r => state'[s] = state[s]
      /\ state'[r] = state[r] \/ state'[r] = "preparing"
  BY <1>0 DEF TypeOK
<1>2. Alone' /\ Unnamed' /\ PhaseInv' /\ ActorInv' /\ TurnInv'
  BY <1>0, <1>1, ActorSteps, OwnerWorks DEF StartPrepares, Waiting, Controlling
<1>3. ToolInv'
  BY <1>0, <1>1, ToolKept DEF StartPrepares, OwnerInv
<1> QED BY <1>2, <1>3 DEF OwnerInv

LEMMA OwnerMarkDone == ASSUME TypeOK, OwnerInv, MarkDone("actor") PROVE OwnerInv'
<1> DEFINE r == Actor.run
<1>0. /\ Actor.pc \in Controlling /\ r \in Run /\ replay.run = NoRun
      /\ Write(r, "streaming_model", NoTool) /\ ResumeRun("actor") /\ phase' = phase
  BY DEF MarkDone, Actor, Controlling, OwnerInv, ActorInv
<1>1. /\ \A s \in Run : s # r => state'[s] = state[s] /\ tool'[s] = tool[s]
      /\ state'[r] = "streaming_model" /\ tool'[r] = NoTool
  BY <1>0 DEF TypeOK, Write
<1>2. Alone' /\ Unnamed' /\ PhaseInv' /\ ActorInv' /\ TurnInv'
  BY <1>0, <1>1, ActorResumes, OwnerWorks DEF MarkDone, Waiting, Controlling
<1>3. ToolInv'
  BY <1>0, <1>1, ToolKept DEF MarkDone, OwnerInv
<1> QED BY <1>2, <1>3 DEF OwnerInv

(* What the steps of a replay have in common: the record is written, and   *)
(* the job goes on, resumes the run, or leaves it stopped.                 *)
LEMMA OwnerReplays ==
  ASSUME TypeOK, OwnerInv, NEW r, r = Actor.run,
         Actor.pc \in {"replay", "validate", "dispatch", "replaying", "quarantine"},
         UNCHANGED <<askVars, madeVars, bootVars, turnVars, markVars, queueVars>>,
         \/ /\ Write(r, "streaming_model", NoTool) /\ ResumeRun("actor")
            /\ replay' = replay
         \/ /\ \E to \in {"failed", "interrupted"} : Write(r, to, NoTool)
            /\ \/ Step("actor", "return") /\ replay'.run = NoRun
               \/ Step("actor", "quarantine") /\ replay' = replay
         \/ /\ Write(r, "paused_uncertain", tool[r]) /\ HasTool(r)
            /\ \/ Step("actor", "return") /\ replay'.run = NoRun
               \/ Step("actor", "quarantine") /\ replay' = replay
         \/ /\ Write(r, "executing_tool", tool[r]) \/ UNCHANGED <<state, tool>>
            /\ HasTool(r)
            /\ \E pc \in {"validate", "dispatch", "replaying"} : Step("actor", pc)
            /\ replay'.run \in {r, replay.run}
         \/ /\ state[r] \notin Owning /\ UNCHANGED <<state, tool>>
            /\ Step("actor", "return") /\ replay'.run = NoRun
  PROVE  OwnerInv'
<1>0. /\ Actor.pc \in Controlling /\ r \in Run
      /\ replay.run # NoRun => replay.run = r
  BY DEF Controlling, OwnerInv, ActorInv
<1>a. /\ state \in [Run -> RunStates \cup {"absent"}] /\ tool \in [Run -> PreparedTool]
      /\ {"return", "quarantine", "validate", "dispatch", "replaying"} \cap {"claimed", "idle"} = {}
  BY DEF TypeOK
<1>1. CASE Write(r, "streaming_model", NoTool) /\ ResumeRun("actor") /\ replay' = replay
  <2>1. /\ \A s \in Run : s # r => state'[s] = state[s] /\ tool'[s] = tool[s]
        /\ state'[r] = "streaming_model" /\ tool'[r] = NoTool
    BY <1>0, <1>a, <1>1 DEF Write
  <2>2. Alone' /\ Unnamed' /\ PhaseInv' /\ ActorInv' /\ TurnInv'
    BY <1>0, <1>1, <2>1, ActorResumes, OwnerWorks DEF Waiting, Controlling
  <2>3. ToolInv'
    BY <1>0, <2>1, ToolKept DEF OwnerInv
  <2> QED BY <2>2, <2>3 DEF OwnerInv
<1>2. ASSUME NEW to \in {"failed", "interrupted", "paused_uncertain"}, NEW newTool,
             Write(r, to, newTool),
             \/ newTool = NoTool /\ to # "paused_uncertain"
             \/ newTool = tool[r] /\ HasTool(r),
             \/ Step("actor", "return") /\ replay'.run = NoRun
             \/ Step("actor", "quarantine") /\ replay' = replay
      PROVE  OwnerInv'
  <2>1. /\ \A s \in Run : s # r => state'[s] = state[s] /\ tool'[s] = tool[s]
        /\ state'[r] = to /\ tool'[r] = newTool /\ to \notin Owning /\ to \notin Waiting
    BY <1>0, <1>a, <1>2 DEF Write, Owning, Waiting
  <2>2. Alone' /\ Unnamed' /\ PhaseInv' /\ ActorInv' /\ TurnInv'
    BY <1>0, <1>2, <2>1, ActorSteps, OwnerWorks DEF Controlling
  <2>3. ToolInv'
    BY <1>0, <1>2, <2>1, ToolKept DEF OwnerInv
  <2> QED BY <2>2, <2>3 DEF OwnerInv
<1>3. ASSUME NEW pc \in {"validate", "dispatch", "replaying"}, Step("actor", pc), HasTool(r),
             Write(r, "executing_tool", tool[r]) \/ UNCHANGED <<state, tool>>,
             replay'.run \in {r, replay.run}
      PROVE  OwnerInv'
  <2>1. /\ \A s \in Run : s # r => state'[s] = state[s]
        /\ \A s \in Run : tool'[s] = tool[s]
        /\ state'[r] = state[r] \/ state'[r] = "executing_tool"
    BY <1>0, <1>a, <1>3 DEF Write
  <2>2. Alone' /\ Unnamed' /\ PhaseInv' /\ ActorInv' /\ TurnInv'
    BY <1>0, <1>3, <2>1, ActorSteps, OwnerWorks DEF Waiting, Controlling, HasTool
  <2>3. ToolInv'
    BY <1>0, <1>3, <2>1, ToolKept DEF OwnerInv
  <2> QED BY <2>2, <2>3 DEF OwnerInv
<1>4. CASE /\ state[r] \notin Owning /\ UNCHANGED <<state, tool>>
           /\ Step("actor", "return") /\ replay'.run = NoRun
  <2>1. Alone' /\ Unnamed' /\ PhaseInv' /\ ActorInv' /\ TurnInv'
    BY <1>0, <1>4, ActorSteps, OwnerWorks DEF Controlling
  <2>2. ToolInv'
    BY <1>4, ToolKept DEF OwnerInv
  <2> QED BY <2>1, <2>2 DEF OwnerInv
<1> DEFINE stops == \/ Step("actor", "return") /\ replay'.run = NoRun
                    \/ Step("actor", "quarantine") /\ replay' = replay
<1>5. CASE (\E to \in {"failed", "interrupted"} : Write(r, to, NoTool)) /\ stops
  <2>1. PICK to \in {"failed", "interrupted"} : Write(r, to, NoTool)
    BY <1>5
  <2> QED BY <1>2, <1>5, <2>1
<1>6. CASE Write(r, "paused_uncertain", tool[r]) /\ HasTool(r) /\ stops
  BY <1>2, <1>6
<1>7. CASE /\ Write(r, "executing_tool", tool[r]) \/ UNCHANGED <<state, tool>>
           /\ HasTool(r)
           /\ \E pc \in {"validate", "dispatch", "replaying"} : Step("actor", pc)
           /\ replay'.run \in {r, replay.run}
  BY <1>3, <1>7
<1> QED BY <1>1, <1>4, <1>5, <1>6, <1>7

LEMMA OwnerReplaySteps ==
  ASSUME TypeOK, OwnerInv,
         \/ Replay("actor") \/ Validate("actor") \/ ReplayDispatch("actor")
         \/ ReplaySettles("actor") \/ ReplayTimeout("actor") \/ Quarantine("actor")
  PROVE  OwnerInv'
<1> DEFINE r == Actor.run
<1>1. CASE Replay("actor")
  <2>1. replay.run = NoRun
    BY <1>1 DEF Replay, OwnerInv, ActorInv, Actor
  <2>2. approvalMark.cancel \in BOOLEAN => [run |-> r, interrupted |-> approvalMark.cancel].run = r
    OBVIOUS
  <2> QED BY <1>1, <2>1, OwnerReplays DEF Replay, Actor
<1>2. CASE Validate("actor")
  <2>1. HasTool(r)
    BY <1>2 DEF Validate, OwnerInv, ActorInv, Actor
  <2> QED BY <1>2, <2>1, OwnerReplays, ReplayEnds DEF Validate, Actor
<1>3. CASE ReplayDispatch("actor")
  <2>1. HasTool(r)
    BY <1>3 DEF ReplayDispatch, OwnerInv, ActorInv, Actor
  <2> QED BY <1>3, <2>1, OwnerReplays, ReplayEnds DEF ReplayDispatch, Actor
<1>4. CASE ReplaySettles("actor")
  <2>1. HasTool(r)
    BY <1>4 DEF ReplaySettles, OwnerInv, ActorInv, Actor
  <2> QED BY <1>4, <2>1, OwnerReplays, ReplayEnds DEF ReplaySettles, Actor
<1>5. CASE ReplayTimeout("actor")
  <2>1. HasTool(r)
    BY <1>5 DEF ReplayTimeout, OwnerInv, ActorInv, Actor
  <2> QED BY <1>5, <2>1, OwnerReplays DEF ReplayTimeout, Actor
<1>6. CASE Quarantine("actor")
  <2>1. state[r] \notin Owning
    BY <1>6 DEF Quarantine, OwnerInv, ActorInv, Actor
  <2> QED BY <1>6, <2>1, OwnerReplays, ReplayEnds DEF Quarantine, Actor
<1> QED BY <1>1, <1>2, <1>3, <1>4, <1>5, <1>6

LEMMA OwnerLaunch == ASSUME TypeOK, OwnerInv, Launch("actor") PROVE OwnerInv'
<1> DEFINE r == Actor.run
<1>0. /\ Actor.pc \in Controlling /\ r \in Run /\ Step("actor", "return") /\ EndReplay("actor")
      /\ phase # "down" /\ \A s \in Run : todo[s] \notin Restoring
      /\ active = NoRun /\ Named(r)
  BY DEF Launch, Actor, Controlling, OwnerInv, ActorInv, PhaseInv, Named
<1>1. /\ Actor'.pc = "return" /\ Actor'.run = r /\ Actor'.then = Actor.then
      /\ job'["auto"] = job["auto"] /\ replay'.run = NoRun /\ active' = r
  BY <1>0, ActorSteps, ReplayEnds DEF Launch, Actor
<1>2. /\ \A s \in Run : s # r => turn'[s] = turn[s] /\ turn[s].pc = "none"
      /\ turn'[r].pc = "admit" /\ turn'[r].tool = NoTool /\ turn'[r].asked = {}
  BY <1>0, RunAssumption DEF TypeOK, Launch, Actor, NoTurn, OwnerInv, TurnInv
<1>3. Alone'
  <2>1. \A s \in Run : Claimant(s)' => Claimant(s)
    BY <1>0, <1>1 DEF Claimant, Named, Controlling, Launch
  <2> QED BY <2>1, AloneKept DEF OwnerInv
<1>4. Unnamed'
  BY <1>0, <1>1 DEF OwnerInv, Alone, Claimant, Unnamed, Named, Launch
<1>5. PhaseInv'
  BY <1>0 DEF OwnerInv, PhaseInv, Launch
<1>6. ActorInv'
  BY <1>0, <1>1 DEF OwnerInv, ActorInv, Controlling
<1>7. TurnInv'
  BY <1>0, <1>1, <1>2, RunAssumption DEF OwnerInv, TurnInv, Launch
<1>8. ToolInv'
  <2>1. \A s \in Run : /\ turn'[s].tool \in {turn[s].tool, NoTool}
                       /\ turn'[s].asked \subseteq turn[s].asked
    BY <1>2
  <2> QED BY <2>1, ToolKept DEF OwnerInv, Launch
<1> QED BY <1>3, <1>4, <1>5, <1>6, <1>7, <1>8 DEF OwnerInv

(* A job that returns may take the next queued run, once nothing else      *)
(* works on the thread or waits for it.                                    *)
LEMMA OwnerReturn == ASSUME TypeOK, OwnerInv, Return("actor") PROVE OwnerInv'
<1> USE DEF Worker
<1> DEFINE r == Actor.run
           released == Releases("actor")
<1>0. /\ Actor.pc = "return" /\ phase # "down" /\ replay.run = NoRun
      /\ \A s \in Run : todo[s] \notin Restoring
      /\ \A s \in Run : state[s] \in Owning => Named(s)
  BY DEF Return, Actor, OwnerInv, ActorInv, PhaseInv, Unnamed, Recontinues
<1>a. NoMark.run = NoRun /\ approvalMark.run \in Run \cup {NoRun}
  BY DEF NoMark, TypeOK, ApprovalMark
<1>1. \/ approvalMark'.run = approvalMark.run
      \/ /\ approvalMark'.run = NoRun /\ approvalMark.run = r
         /\ active = r \/ state[r] \notin Owning
  BY <1>a DEF Return, Releases, ApprovalMarked, Actor, OwnerInv, ActorInv
<1>2. Quiet => Quiet'
  BY <1>1, <1>a DEF Return, Quiet
<1>3. CASE job' = [job EXCEPT !["actor"] = IdleJob]
  <2>1. Actor' = IdleJob /\ job'["auto"] = job["auto"]
    BY <1>3 DEF TypeOK, Actor
  <2>2. Alone'
    <3>1. \A s \in Run : Claimant(s)' => Claimant(s)
      BY <1>1, <1>a, <2>1, RunAssumption DEF Return, Claimant, Named, IdleJob, Controlling
    <3> QED BY <3>1, AloneKept DEF OwnerInv
  <2>3. Unnamed'
    BY <1>0, <1>1, <2>1 DEF Return, Unnamed, Named, Controlling
  <2>4. PhaseInv' /\ ActorInv'
    BY <1>0, <1>2, <2>1 DEF Return, OwnerInv, PhaseInv, ActorInv, IdleJob, Controlling
  <2>5. TurnInv' /\ ToolInv'
    BY DEF OwnerInv, Return, TurnInv, ToolInv, HasTool, NoneAsked
  <2> QED BY <2>2, <2>3, <2>4, <2>5 DEF OwnerInv
<1>4. ASSUME NEW next \in Run, StartRun("actor", next, FALSE, Actor.then \cap {"boot"}),
             ~Running, interactionMark.run = NoRun, approvalMark'.run = NoRun
      PROVE  OwnerInv'
  <2>1. /\ Actor'.pc = "start" /\ Actor'.run = next /\ Actor'.then \subseteq {"boot"}
        /\ job'["auto"] = job["auto"]
    BY <1>4 DEF TypeOK, StartRun, Actor
  <2>2. \A s \in Run : state[s] \notin Owning
    BY <1>0, <1>1, <1>4, RunAssumption DEF Named, Running, Controlling
  <2>3. Alone'
    <3>1. \A s \in Run : Claimant(s)' => s = next
      BY <1>0, <1>4, <2>1, <2>2, RunAssumption DEF Return, Claimant, Named, Running
    <3> QED BY <3>1, AloneNew
  <2>4. Unnamed'
    BY <2>2 DEF Return, Unnamed
  <2>5. PhaseInv' /\ ActorInv'
    BY <1>0, <1>4, <2>1 DEF Return, OwnerInv, PhaseInv, ActorInv, Running
  <2>6. TurnInv' /\ ToolInv'
    BY DEF OwnerInv, Return, TurnInv, ToolInv, HasTool, NoneAsked
  <2> QED BY <2>3, <2>4, <2>5, <2>6 DEF OwnerInv
<1>5. \/ job' = [job EXCEPT !["actor"] = IdleJob]
      \/ \E next \in Run : /\ StartRun("actor", next, FALSE, Actor.then \cap {"boot"})
                           /\ ~Running /\ interactionMark.run = NoRun /\ approvalMark'.run = NoRun
  <2> DEFINE next == IF memQueue # <<>> THEN Head(memQueue) ELSE NextQueued
             free == /\ ~Running /\ interactionMark.run = NoRun
                     /\ approvalMark.run = NoRun \/ released
  <2>1. next \in Run \cup {NoRun}
    <3>1. memQueue \in Seq(Run) /\ NextQueued \in Run \cup {NoRun}
      BY NextQueuedType DEF TypeOK
    <3> QED BY <3>1
  <2>2. free => approvalMark'.run = NoRun
    BY <1>a DEF Return
  <2>3. \/ job' = [job EXCEPT !["actor"] = IdleJob]
        \/ free /\ next # NoRun /\ StartRun("actor", next, FALSE, Actor.then \cap {"boot"})
    BY Zenon DEF Return, Actor
  <2> QED BY <2>1, <2>2, <2>3
<1> QED BY <1>3, <1>4, <1>5

LEMMA OwnerWait == ASSUME TypeOK, OwnerInv, Wait("actor") PROVE OwnerInv'
<1> USE DEF Worker
<1>1. /\ Actor.pc = "wait" /\ Actor.then \subseteq {"drain"} /\ job'["auto"] = job["auto"]
      /\ \/ Actor'.pc = "claim" /\ Actor'.run = approvalMark.run /\ approvalMark.run # NoRun
            /\ Actor'.then = Actor.then \cup {"finish"}
         \/ /\ Actor'.pc = "claimAnswer" /\ Actor'.then = Actor.then
            /\ Actor'.run = interactionMark.run /\ interactionMark.run # NoRun
         \/ Actor'.pc = "return" /\ Actor'.then = Actor.then
  <2>1. job \in [Worker -> JobRecord] /\ Actor.pc = "wait" /\ Actor.then \subseteq {"drain"}
    BY DEF TypeOK, Wait, Actor, OwnerInv, ActorInv
  <2>2. CASE ApprovalReady
    BY <2>1, <2>2 DEF Wait, Actor, JobRecord, ApprovalReady, AnswerReady
  <2>3. CASE AnswerReady
    BY <2>1, <2>3 DEF Wait, Actor, JobRecord, ApprovalReady, AnswerReady
  <2>4. CASE ~ApprovalReady /\ ~AnswerReady
    BY <2>1, <2>4, ActorSteps DEF Wait
  <2> QED BY <2>2, <2>3, <2>4
<1>2. /\ approvalMark.run \in Run \cup {NoRun} /\ interactionMark.run \in Run \cup {NoRun}
      /\ \A s \in Run : state[s] \in Owning => Named(s)
      /\ \A s \in Run : todo[s] \notin Restoring
  BY <1>1 DEF TypeOK, ApprovalMark, AnswerMark, OwnerInv, Unnamed, Recontinues, PhaseInv
<1>3. \A s \in Run : Named(s)' <=> Named(s)
  BY <1>1 DEF Wait, Named, Controlling
<1>4. Alone'
  BY <1>3 DEF Wait, OwnerInv, Alone, Claimant
<1>5. Unnamed'
  BY <1>2, <1>3 DEF Wait, Unnamed
<1>6. PhaseInv' /\ ActorInv'
  BY <1>1, <1>2 DEF Wait, OwnerInv, PhaseInv, ActorInv, Controlling
<1>7. TurnInv' /\ ToolInv'
  BY DEF OwnerInv, Wait, TurnInv, ToolInv, HasTool, NoneAsked
<1> QED BY <1>4, <1>5, <1>6, <1>7 DEF OwnerInv

LEMMA OwnerClaim == ASSUME TypeOK, OwnerInv, Claim("actor") PROVE OwnerInv'
<1> USE DEF Worker
<1> DEFINE r == Actor.run
           c == Actor.call
           claimable == ~Running /\ Decided(r, c) /\ IsLatestApproval(r, c)
                          /\ state[r] = "waiting_approval"
           kept == "keep" \in Actor.then /\ state[r] = "waiting_approval"
<1>0. /\ Actor.pc = "claim" /\ r \in Run /\ phase # "down"
      /\ \A s \in Run : todo[s] \notin Restoring
      /\ replay.run = NoRun
  BY DEF Claim, Actor, OwnerInv, ActorInv, PhaseInv
<1>1. \/ /\ claimable /\ Step("actor", "claimed") /\ UNCHANGED approvalMark
         /\ state' = [state EXCEPT ![r] = AfterDecision[approval[r][c]]]
      \/ /\ ~claimable /\ UNCHANGED state
         /\ approvalMark' = IF kept THEN [run |-> r, call |-> c, cancel |-> FALSE] ELSE approvalMark
         /\ job' = [job EXCEPT !["actor"].pc = "return", !["actor"].then = @ \ {"finish"}]
  BY Zenon DEF Claim, Actor
<1>2. CASE /\ claimable /\ Step("actor", "claimed") /\ UNCHANGED approvalMark
           /\ state' = [state EXCEPT ![r] = AfterDecision[approval[r][c]]]
  <2>1. /\ Actor'.pc = "claimed" /\ Actor'.run = r /\ Actor'.call = c /\ Actor'.then = Actor.then
        /\ job'["auto"] = job["auto"]
    BY <1>2, ActorSteps
  <2>2. /\ \A s \in Run : s # r => state'[s] = state[s]
        /\ state'[r] = AfterDecision[approval[r][c]]
        /\ state'[r] \notin Waiting \cup {"paused_uncertain"}
    BY <1>0, <1>2 DEF TypeOK, Decided, Decision, AfterDecision, Waiting
  <2>3. active = NoRun /\ state[r] \in Owning /\ Claimant(r)
    BY <1>0, <1>2 DEF Running, Owning, Waiting, Claimant
  <2>4. "boot" \notin Actor.then => approvalMark.run = r
    BY <1>0, <1>2, <2>3, RunAssumption
    DEF OwnerInv, Unnamed, Recontinues, Named, Controlling, TurnInv
  <2>5. Alone'
    <3>1. \A s \in Run : Claimant(s)' => Claimant(s)
      BY <1>0, <1>2, <2>1, <2>2, <2>3 DEF Claim, Claimant, Named
    <3> QED BY <3>1, AloneKept DEF OwnerInv
  <2>6. Unnamed'
    BY <1>0, <2>1, <2>2, <2>3 DEF OwnerInv, Alone, Claimant, Unnamed, Named, Controlling
  <2>7. PhaseInv'
    BY <1>0 DEF Claim, OwnerInv, PhaseInv
  <2>8. ActorInv'
    BY <1>0, <1>2, <2>1, <2>2, <2>3, <2>4
    DEF Claim, OwnerInv, ActorInv, Controlling, Decided, Quiet
  <2>9. TurnInv'
    BY <1>0, <1>2, <2>2, <2>3, RunAssumption DEF Claim, OwnerInv, TurnInv, Waiting
  <2>10. ToolInv'
    <3>1. HasTool(r)
      BY <1>0, <1>2 DEF OwnerInv, ToolInv
    <3> QED BY <2>2, <3>1, ToolKept DEF Claim, OwnerInv, Waiting
  <2> QED BY <2>5, <2>6, <2>7, <2>8, <2>9, <2>10 DEF OwnerInv
<1>3. CASE /\ ~claimable /\ UNCHANGED state
           /\ approvalMark' = IF kept THEN [run |-> r, call |-> c, cancel |-> FALSE]
                              ELSE approvalMark
           /\ job' = [job EXCEPT !["actor"].pc = "return", !["actor"].then = @ \ {"finish"}]
  <2>1. /\ Actor'.pc = "return" /\ Actor'.run = r /\ Actor'.then = Actor.then \ {"finish"}
        /\ job'["auto"] = job["auto"]
    BY <1>3 DEF TypeOK, Actor, JobRecord
  <2>2. \/ approvalMark'.run = approvalMark.run
        \/ approvalMark'.run = r /\ state[r] = "waiting_approval"
    BY <1>3
  <2>3. "boot" \notin Actor.then
    BY <1>0, <1>3, RunAssumption DEF OwnerInv, ActorInv, Quiet, Running
  <2>4. \A s \in Run : state[s] \in Owning => Named(s)
    BY <1>0, <2>3 DEF OwnerInv, Unnamed, Recontinues
  <2>5. state[r] = "waiting_approval" => Claimant(r)
    BY <1>0 DEF Claimant, Owning, Waiting
  <2>6. Alone'
    <3>1. \A s \in Run : Claimant(s)' => Claimant(s)
      BY <1>0, <1>3, <2>1, <2>2, <2>5 DEF Claim, Claimant, Named, Controlling
    <3> QED BY <3>1, AloneKept DEF OwnerInv
  <2>7. Unnamed'
    <3>1. ASSUME NEW s \in Run, state[s] \in Owning PROVE Named(s)'
      <4>1. Named(s) /\ (state[r] = "waiting_approval" => s = r)
        BY <1>0, <2>4, <2>5, <3>1 DEF OwnerInv, Alone, Claimant
      <4> QED BY <1>0, <2>1, <2>2, <4>1 DEF Claim, Named, Controlling
    <3> QED BY <1>3, <3>1 DEF Unnamed
  <2>8. PhaseInv'
    BY <1>0 DEF Claim, OwnerInv, PhaseInv
  <2>9. ActorInv'
    BY <1>0, <2>1 DEF Claim, OwnerInv, ActorInv, Controlling
  <2>10. TurnInv' /\ ToolInv'
    BY <1>3 DEF Claim, OwnerInv, TurnInv, ToolInv, HasTool, NoneAsked
  <2> QED BY <2>6, <2>7, <2>8, <2>9, <2>10 DEF OwnerInv
<1> QED BY <1>1, <1>2, <1>3

LEMMA OwnerClaimed == ASSUME TypeOK, OwnerInv, Claimed("actor") PROVE OwnerInv'
<1> DEFINE r == Actor.run
           decision == approval[r][Actor.call]
<1>0. /\ Actor.pc = "claimed" /\ Actor.pc \in Controlling /\ r \in Run
      /\ active = NoRun /\ replay.run = NoRun
      /\ state[r] = AfterDecision[decision] /\ decision \in Decision
      /\ "boot" \notin Actor.then => approvalMark.run = r
      /\ "boot" \in Actor.then => Quiet
  BY DEF Claimed, Actor, Controlling, OwnerInv, ActorInv, Decided
<1>1. CASE Throw("actor") /\ UNCHANGED tool
  <2>1. /\ Actor'.pc = "idle" /\ Actor'.then = {} /\ job'["auto"] = job["auto"]
        /\ phase' = phase \/ phase' = "broken"
        /\ "boot" \in Actor.then => phase' = "broken"
    BY <1>1, ActorThrows DEF IdleJob
  <2>2. \A s \in Run : todo[s] \notin Restoring
    BY <1>0 DEF OwnerInv, PhaseInv
  <2>3. Claimant(r) /\ phase # "down"
    BY <1>0 DEF Claimant, Named, OwnerInv, PhaseInv
  <2>4. Alone'
    <3>1. \A s \in Run : Claimant(s)' => Claimant(s)
      BY <2>1 DEF Claimed, Claimant, Named, Controlling
    <3> QED BY <3>1, AloneKept DEF OwnerInv
  <2>5. Unnamed'
    <3>1. ASSUME NEW s \in Run, state[s] \in Owning, ~Named(s)'
          PROVE  Quiet' /\ phase' = "broken"
      <4>1. s = r
        BY <1>0, <2>3, <3>1 DEF OwnerInv, Alone, Claimant
      <4>2. "boot" \in Actor.then
        BY <1>0, <3>1, <4>1 DEF Claimed, Named
      <4> QED BY <1>0, <2>1, <4>2 DEF Claimed, Quiet
    <3> QED BY <2>1, <3>1 DEF Claimed, Unnamed
  <2>6. PhaseInv' /\ ActorInv'
    BY <1>0, <2>1, <2>2, <2>3 DEF Claimed, OwnerInv, PhaseInv, ActorInv, Controlling
  <2>7. TurnInv' /\ ToolInv'
    BY <1>1 DEF OwnerInv, Claimed, TurnInv, ToolInv, HasTool, NoneAsked
  <2> QED BY <2>4, <2>5, <2>6, <2>7 DEF OwnerInv
<1>2. CASE decision = "accept" /\ Step("actor", "replay") /\ UNCHANGED <<phase, tool>>
  <2>1. Alone' /\ Unnamed' /\ PhaseInv' /\ ActorInv' /\ TurnInv'
    BY <1>0, <1>2, ActorSteps, OwnerWorks DEF Claimed, Controlling
  <2>2. ToolInv'
    BY <1>2, ToolKept DEF Claimed, OwnerInv
  <2> QED BY <2>1, <2>2 DEF OwnerInv
<1>3. CASE /\ decision = "decline" /\ ResumeRun("actor")
           /\ tool' = [tool EXCEPT ![r] = NoTool] /\ UNCHANGED phase
  <2>1. Alone' /\ Unnamed' /\ PhaseInv' /\ ActorInv' /\ TurnInv'
    BY <1>0, <1>3, ActorResumes, OwnerWorks DEF Claimed, Controlling
  <2>2. /\ \A s \in Run : s # r => tool'[s] = tool[s]
        /\ tool'[r] = NoTool /\ state[r] = "streaming_model"
    BY <1>0, <1>3 DEF TypeOK, AfterDecision
  <2>3. ToolInv'
    BY <2>2, ToolKept DEF Claimed, OwnerInv
  <2> QED BY <2>1, <2>3 DEF OwnerInv
<1>4. CASE /\ decision = "cancel" /\ Step("actor", "return")
           /\ tool' = [tool EXCEPT ![r] = NoTool] /\ UNCHANGED phase
  <2>1. state[r] = "interrupted" /\ state[r] \notin Owning
    BY <1>0, <1>4 DEF AfterDecision, Owning, Waiting
  <2>2. Alone' /\ Unnamed' /\ PhaseInv' /\ ActorInv' /\ TurnInv'
    BY <1>0, <1>4, <2>1, ActorSteps, OwnerWorks DEF Claimed, Controlling
  <2>3. /\ \A s \in Run : s # r => tool'[s] = tool[s]
        /\ tool'[r] = NoTool
    BY <1>0, <1>4 DEF TypeOK
  <2>4. ToolInv'
    BY <2>1, <2>3, ToolKept DEF Claimed, OwnerInv
  <2> QED BY <2>2, <2>4 DEF OwnerInv
<1> QED BY <1>1, <1>2, <1>3, <1>4 DEF Claimed, Actor

LEMMA OwnerClaimAnswer == ASSUME TypeOK, OwnerInv, ClaimAnswer("actor") PROVE OwnerInv'
<1> DEFINE r == Actor.run
           c == Actor.call
           claimable == ~Running /\ interaction[r][c] = "resolved"
                          /\ state[r] = "waiting_interaction" /\ tool[r].call = c
           kept == "keep" \in Actor.then /\ state[r] = "waiting_interaction"
<1>0. /\ Actor.pc = "claimAnswer" /\ r \in Run /\ phase # "down"
      /\ \A s \in Run : todo[s] \notin Restoring
      /\ replay.run = NoRun /\ "finish" \notin Actor.then
  BY DEF ClaimAnswer, Actor, OwnerInv, ActorInv, PhaseInv
<1>a. state[r] = "waiting_interaction" => Claimant(r)
  BY <1>0 DEF Claimant, Owning, Waiting
<1>1. CASE /\ claimable /\ Write(r, "streaming_model", NoTool)
           /\ interactionMark' = NoAnswerMark /\ ResumeRun("actor")
  <2>1. /\ Actor'.pc = "start" /\ Actor'.run = r /\ Actor'.then = Actor.then
        /\ job'["auto"] = job["auto"] /\ interactionMark'.run = NoRun
    BY <1>1, ActorResumes DEF NoAnswerMark
  <2>2. /\ \A s \in Run : s # r => state'[s] = state[s] /\ tool'[s] = tool[s]
        /\ state'[r] = "streaming_model" /\ tool'[r] = NoTool
    BY <1>0, <1>1 DEF TypeOK, Write
  <2>3. Alone'
    <3>1. \A s \in Run : Claimant(s)' => Claimant(s)
      BY <1>0, <1>1, <1>a, <2>1, <2>2, RunAssumption DEF ClaimAnswer, Claimant, Named
    <3> QED BY <3>1, AloneKept DEF OwnerInv
  <2>4. Unnamed'
    BY <1>0, <1>1, <1>a, <2>1, <2>2 DEF OwnerInv, Alone, Claimant, Unnamed, Named, Controlling
  <2>5. PhaseInv' /\ ActorInv'
    BY <1>0, <1>1, <2>1 DEF ClaimAnswer, OwnerInv, PhaseInv, ActorInv, Running
  <2>6. TurnInv'
    BY <1>0, <1>1, <2>1, <2>2, RunAssumption DEF ClaimAnswer, OwnerInv, TurnInv, Running
  <2>7. ToolInv'
    BY <2>2, ToolKept DEF ClaimAnswer, OwnerInv
  <2> QED BY <2>3, <2>4, <2>5, <2>6, <2>7 DEF OwnerInv
<1>2. CASE /\ ~claimable /\ Step("actor", "return") /\ UNCHANGED <<state, tool>>
           /\ interactionMark' = IF kept THEN [run |-> r, call |-> c] ELSE interactionMark
  <2>1. /\ Actor'.pc = "return" /\ Actor'.run = r /\ Actor'.then = Actor.then
        /\ job'["auto"] = job["auto"]
    BY <1>2, ActorSteps
  <2>2. \/ interactionMark' = interactionMark
        \/ interactionMark'.run = r /\ state[r] = "waiting_interaction"
    BY <1>2
  <2>3. "boot" \notin Actor.then
    BY <1>0, <1>2, RunAssumption DEF OwnerInv, ActorInv, Quiet, Running
  <2>4. \A s \in Run : state[s] \in Owning => Named(s)
    BY <1>0, <2>3 DEF OwnerInv, Unnamed, Recontinues
  <2>5. Alone'
    <3>1. \A s \in Run : Claimant(s)' => Claimant(s)
      BY <1>0, <1>2, <1>a, <2>1, <2>2 DEF ClaimAnswer, Claimant, Named, Controlling
    <3> QED BY <3>1, AloneKept DEF OwnerInv
  <2>6. Unnamed'
    <3>1. ASSUME NEW s \in Run, state[s] \in Owning PROVE Named(s)'
      <4>1. Named(s) /\ (state[r] = "waiting_interaction" => s = r)
        BY <1>0, <1>a, <2>4, <3>1 DEF OwnerInv, Alone, Claimant
      <4> QED BY <1>0, <2>1, <2>2, <4>1 DEF ClaimAnswer, Named, Controlling
    <3> QED BY <1>2, <3>1 DEF Unnamed
  <2>7. PhaseInv' /\ ActorInv'
    BY <1>0, <2>1 DEF ClaimAnswer, OwnerInv, PhaseInv, ActorInv, Controlling
  <2>8. TurnInv' /\ ToolInv'
    BY <1>2, <2>2 DEF ClaimAnswer, OwnerInv, TurnInv, ToolInv, HasTool, NoneAsked
  <2> QED BY <2>5, <2>6, <2>7, <2>8 DEF OwnerInv
<1> QED BY <1>1, <1>2, Zenon DEF ClaimAnswer, Actor

LEMMA OwnerJobStep == ASSUME TypeOK, OwnerInv, NEW w \in Worker, JobStep(w) PROVE OwnerInv'
<1>1. w = "actor"
  <2>1. job["auto"].pc = "idle"
    BY DEF OwnerInv, ActorInv
  <2>2. job[w].pc # "idle"
    BY DEF JobStep, StartFails, StartPrepares, Launch, Return, Wait, Claim, Claimed, ClaimAnswer,
           MarkDone, Replay, Validate, ReplayDispatch, ReplaySettles, ReplayTimeout, Quarantine
  <2> QED BY <2>1, <2>2 DEF Worker
<1> QED
  BY <1>1, OwnerStartFails, OwnerStartPrepares, OwnerLaunch, OwnerReturn, OwnerWait, OwnerClaim,
     OwnerClaimed, OwnerClaimAnswer, OwnerMarkDone, OwnerReplaySteps DEF JobStep

-----------------------------------------------------------------------------
(* Crashes and restarts.                                                   *)

LEMMA OwnerCrash == ASSUME TypeOK, OwnerInv, Crash PROVE OwnerInv'
<1> USE DEF Worker
<1>1. /\ Quiet' /\ Actor' = IdleJob /\ job'["auto"] = IdleJob
      /\ \A s \in Run : todo'[s] = "done" /\ turn'[s] = NoTurn
  BY DEF Crash, Quiet, NoReplay, NoMark, NoAnswerMark, Actor
<1>2. Alone'
  <2>1. \A s \in Run : Claimant(s)' => Claimant(s)
    BY <1>1, RunAssumption DEF Crash, Claimant, Named, Quiet, IdleJob, Controlling, Restoring
  <2> QED BY <2>1, AloneKept DEF OwnerInv
<1>3. Unnamed' /\ PhaseInv'
  BY <1>1 DEF Crash, Unnamed, PhaseInv, IdleJob, Restoring
<1>4. ActorInv'
  BY <1>1 DEF ActorInv, Quiet, IdleJob, Controlling
<1>5. TurnInv'
  BY <1>1, RunAssumption DEF TurnInv, NoTurn, Quiet
<1>6. ToolInv'
  BY <1>1, ToolKept DEF Crash, OwnerInv, NoTurn
<1> QED BY <1>2, <1>3, <1>4, <1>5, <1>6 DEF OwnerInv

(* What a restart makes of a run, and what it still has to do for it. *)
LEMMA Restores ==
  ASSUME NEW s \in RunStates, NEW safe \in BOOLEAN
  PROVE  /\ RecoveryAction(s, safe) \in Restoring =>
              s \in Owning /\ RecoveredState(s, safe) = RestoredState[RecoveryAction(s, safe)]
         /\ RecoveredState(s, safe) \in Owning =>
              s \in Owning /\ RecoveryAction(s, safe) \in Restoring
         /\ RecoveredState(s, safe) \in {"waiting_approval", "waiting_interaction",
                                         "executing_tool", "paused_uncertain"} =>
              /\ s \in {"waiting_approval", "waiting_interaction", "executing_tool",
                        "paused_uncertain"}
              /\ RecoveredState(s, safe) = "waiting_interaction" => s = "waiting_interaction"
  BY DEF RunStates, RecoveryAction, RecoveredState, Restoring, RestoredState, Owning, Waiting

LEMMA OwnerBoot == ASSUME TypeOK, OwnerInv, Boot PROVE OwnerInv'
<1> DEFINE open == {r \in Run : state[r] \notin Terminal \cup {"absent"}}
<1>0. /\ phase = "down" /\ phase' = "recovering" /\ Quiet /\ Quiet' /\ Actor.pc = "idle"
      /\ \A s \in Run : todo[s] = "done" /\ ~Named(s) /\ turn[s].pc = "none"
  BY RunAssumption
  DEF Boot, OwnerInv, PhaseInv, TurnInv, Quiet, Named, Controlling, Restoring, Actor
<1>1. \A s \in Run :
        \/ s \notin open /\ state'[s] = state[s] /\ todo'[s] = "done"
        \/ /\ state'[s] = RecoveredState(state[s], SafeToReplay(s)) /\ state[s] \in RunStates
           /\ \/ todo'[s] = RecoveryAction(state[s], SafeToReplay(s))
              \/ todo'[s] = "drain" /\ RecoveryAction(state[s], SafeToReplay(s)) = "resume_run"
  BY DEF TypeOK, Boot, NeverStarted
<1>2. ASSUME NEW s \in Run
      PROVE  /\ todo'[s] \in Restoring => state[s] \in Owning /\ state'[s] = RestoredState[todo'[s]]
             /\ state'[s] \in Owning => state[s] \in Owning /\ todo'[s] \in Restoring
             /\ \/ state'[s] = state[s]
                \/ HasTool(s) /\ state'[s] # "waiting_interaction"
                \/ state'[s] \notin {"waiting_approval", "waiting_interaction",
                                     "executing_tool", "paused_uncertain"}
  <2>1. SafeToReplay(s) \in BOOLEAN
    BY DEF SafeToReplay, HasTool, Replayable
  <2>2. CASE s \notin open /\ state'[s] = state[s] /\ todo'[s] = "done"
    BY <2>2 DEF Restoring, Owning, Waiting, Terminal
  <2>3. CASE /\ state'[s] = RecoveredState(state[s], SafeToReplay(s)) /\ state[s] \in RunStates
             /\ todo'[s] = RecoveryAction(state[s], SafeToReplay(s))
    BY <2>1, <2>3, Restores DEF OwnerInv, ToolInv
  <2>4. CASE /\ state'[s] = RecoveredState(state[s], SafeToReplay(s)) /\ state[s] \in RunStates
             /\ todo'[s] = "drain" /\ RecoveryAction(state[s], SafeToReplay(s)) = "resume_run"
    BY <2>1, <2>4, Restores DEF OwnerInv, ToolInv, Restoring
  <2> QED BY <1>1, <2>2, <2>3, <2>4
<1>3. Alone'
  <2>1. \A s \in Run : Claimant(s)' => Claimant(s)
    BY <1>0, <1>2 DEF Boot, Claimant, Named, Actor
  <2> QED BY <2>1, AloneKept DEF OwnerInv
<1>4. Unnamed'
  BY <1>2 DEF Unnamed, Named
<1>5. PhaseInv'
  BY <1>0, <1>2 DEF Boot, PhaseInv, Actor
<1>6. ActorInv'
  BY <1>0 DEF Boot, OwnerInv, ActorInv, Actor, Controlling
<1>7. TurnInv'
  BY <1>0, RunAssumption DEF Boot, OwnerInv, TurnInv, Quiet
<1>8. ToolInv'
  BY <1>2, ToolKept DEF Boot, OwnerInv
<1> QED BY <1>3, <1>4, <1>5, <1>6, <1>7, <1>8 DEF OwnerInv

(* While the worker recovers and the actor is free, an owning run is named. *)
LEMMA RecoveryNames ==
  ASSUME OwnerInv, phase = "recovering", ActorIdle
  PROVE  \A s \in Run : state[s] \in Owning => Named(s)
  BY DEF OwnerInv, Unnamed, Recontinues, ActorIdle, Actor

LEMMA OwnerRecoverRejects ==
  ASSUME TypeOK, OwnerInv, NEW q \in Run, RecoverRejects(q) PROVE OwnerInv'
<1>0. /\ phase = "recovering" /\ Actor.pc = "idle" /\ \A s \in Run : state[s] \in Owning => Named(s)
  BY RecoveryNames DEF RecoverRejects, ActorIdle, Actor
<1>1. /\ \A s \in Run : s # q => state'[s] = state[s] /\ tool'[s] = tool[s] /\ todo'[s] = todo[s]
      /\ state'[q] = "failed" /\ tool'[q] = NoTool /\ todo'[q] = "done"
  BY DEF TypeOK, RecoverRejects, Write
<1>2. Alone'
  <2>1. \A s \in Run : Claimant(s)' => Claimant(s)
    BY <1>1 DEF RecoverRejects, Claimant, Named, Actor, Restoring, Owning, Waiting
  <2> QED BY <2>1, AloneKept DEF OwnerInv
<1>3. Unnamed'
  BY <1>0, <1>1 DEF RecoverRejects, Unnamed, Named, Actor, Owning, Waiting
<1>4. PhaseInv'
  BY <1>0, <1>1 DEF RecoverRejects, OwnerInv, PhaseInv, Actor, Quiet, Restoring
<1>5. ActorInv'
  BY <1>0 DEF RecoverRejects, OwnerInv, ActorInv, Actor, Controlling
<1>6. TurnInv'
  BY <1>1 DEF RecoverRejects, OwnerInv, TurnInv, Owning, Waiting
<1>7. ToolInv'
  BY <1>1, ToolKept DEF RecoverRejects, OwnerInv
<1> QED BY <1>2, <1>3, <1>4, <1>5, <1>6, <1>7 DEF OwnerInv

(* Steps of recovery that restore nothing. *)
LEMMA OwnerRecoverLater ==
  ASSUME TypeOK, OwnerInv, (\E q \in Run : RecoverLater(q)) \/ RecoverDone PROVE OwnerInv'
<1>0. /\ phase = "recovering" /\ phase' \in {"recovering", "up"}
      /\ phase' = "up" => \A s \in Run : todo'[s] = "done"
      /\ \A s \in Run : todo'[s] \in Restoring <=> todo[s] \in Restoring
      /\ \A s \in Run : todo'[s] \in Restoring => todo'[s] = todo[s] /\ phase' = phase
      /\ "boot" \notin Actor.then \/ Actor.pc = "idle"
      /\ UNCHANGED <<runVars, madeVars, askVars, turnVars, markVars, replay, queueVars, job>>
  <2>1. CASE \E q \in Run : RecoverLater(q)
    BY <2>1 DEF TypeOK, RecoverLater, Recovers, ActorIdle, Actor, Restoring
  <2>2. CASE RecoverDone
    BY <2>2 DEF RecoverDone, Actor, Restoring
  <2> QED BY <2>1, <2>2
<1>1. Alone' /\ Unnamed'
  BY <1>0 DEF OwnerInv, Alone, Claimant, Unnamed, Recontinues, Named, Actor, Quiet
<1>2. PhaseInv'
  BY <1>0 DEF OwnerInv, PhaseInv, Actor, Quiet
<1>3. ActorInv'
  BY <1>0 DEF OwnerInv, ActorInv, Actor, Quiet, Decided, IsLatestApproval, HasTool
<1>4. TurnInv' /\ ToolInv'
  BY <1>0 DEF OwnerInv, TurnInv, ToolInv, HasTool, NoneAsked
<1> QED BY <1>1, <1>2, <1>3, <1>4 DEF OwnerInv

LEMMA OwnerRecoverDrain == ASSUME TypeOK, OwnerInv, RecoverDrain PROVE OwnerInv'
<1> USE DEF Worker
<1>0. /\ Actor.pc = "idle" /\ \A s \in Run : state[s] \in Owning => Named(s)
      /\ Actor'.pc = "return" /\ Actor'.then = {"boot", "drain"} /\ job'["auto"] = job["auto"]
      /\ \A s \in Run : todo[s] \notin Restoring /\ todo'[s] \notin Restoring
  BY RecoveryNames DEF TypeOK, RecoverDrain, ActorIdle, Actor, IdleJob, Restoring
<1>1. \A s \in Run : Named(s)' <=> Named(s)
  BY <1>0 DEF RecoverDrain, Named, Controlling
<1>2. Alone' /\ Unnamed'
  BY <1>0, <1>1 DEF RecoverDrain, OwnerInv, Alone, Claimant, Unnamed
<1>3. PhaseInv' /\ ActorInv'
  BY <1>0 DEF RecoverDrain, OwnerInv, PhaseInv, ActorInv, Controlling
<1>4. TurnInv' /\ ToolInv'
  BY DEF RecoverDrain, OwnerInv, TurnInv, ToolInv, HasTool, NoneAsked
<1> QED BY <1>2, <1>3, <1>4 DEF OwnerInv

(* Recovery takes up the run that owned the thread when the worker stopped. *)
LEMMA OwnerRestores ==
  ASSUME TypeOK, OwnerInv, NEW q \in Run, NEW action \in Restoring, Recovers(q, action),
         UNCHANGED <<state, phase, turnVars, replay, queueVars>>,
         job'["auto"] = job["auto"],
         \/ /\ Actor'.pc \in {"replay", "claim", "claimAnswer"} /\ Actor'.run = q
            /\ Actor'.then = {"boot"} /\ UNCHANGED markVars
         \/ /\ Actor' = Actor
            /\ approvalMark'.run = q \/ approvalMark' = approvalMark
            /\ interactionMark'.run = q \/ interactionMark' = interactionMark
            /\ approvalMark'.run = q \/ interactionMark'.run = q
  PROVE  /\ Alone' /\ Unnamed' /\ PhaseInv'
         /\ state[q] = RestoredState[action] /\ Quiet /\ Actor.pc = "idle"
<1>0. /\ Quiet /\ Actor.pc = "idle" /\ phase = "recovering" /\ state[q] = RestoredState[action]
      /\ todo[q] = action /\ Claimant(q)
  BY DEF Recovers, OwnerInv, PhaseInv, Claimant, Named
<1>1. \A s \in Run : s # q => todo'[s] = todo[s] /\ todo[s] \notin Restoring /\ ~Claimant(s)
  BY <1>0 DEF TypeOK, Recovers, OwnerInv, Alone, Claimant, Named
<1>2. todo'[q] = "done" /\ "done" \notin Restoring
  BY <1>0 DEF TypeOK, Recovers, Restoring
<1>3. \A s \in Run : Claimant(s)' => s = q
  BY <1>0, <1>1, RunAssumption DEF Claimant, Named, Quiet, Controlling
<1>4. Alone'
  BY <1>3, AloneNew
<1>5. Unnamed'
  <2>1. CASE Actor'.pc = "replay" /\ Actor'.run = q
    BY <1>3, <2>1 DEF Claimant, Unnamed, Named, Controlling
  <2>2. CASE approvalMark'.run = q \/ interactionMark'.run = q
    BY <1>3, <2>2 DEF Claimant, Unnamed, Named
  <2>3. CASE /\ Actor'.pc \in {"claim", "claimAnswer"} /\ Actor'.run = q /\ Actor'.then = {"boot"}
             /\ UNCHANGED markVars
    <3>1. Quiet' /\ Recontinues(q)'
      BY <1>0, <2>3 DEF Quiet, Recontinues
    <3> QED BY <1>3, <3>1 DEF Claimant, Unnamed
  <2> QED BY <2>1, <2>2, <2>3
<1>6. PhaseInv'
  BY <1>0, <1>1, <1>2 DEF PhaseInv
<1> QED BY <1>0, <1>4, <1>5, <1>6

LEMMA OwnerRecoverReplay == ASSUME TypeOK, OwnerInv, NEW q \in Run, RecoverReplay(q) PROVE OwnerInv'
<1> USE DEF Worker
<1>1. /\ Actor'.pc = "replay" /\ Actor'.run = q /\ Actor'.then = {"boot"}
      /\ job'["auto"] = job["auto"]
  BY DEF TypeOK, RecoverReplay, Actor, IdleJob
<1>2. Alone' /\ Unnamed' /\ PhaseInv' /\ Quiet
  BY <1>1, OwnerRestores DEF RecoverReplay, Restoring
<1>3. ActorInv'
  BY <1>1, <1>2 DEF RecoverReplay, OwnerInv, ActorInv, Quiet
<1>4. TurnInv' /\ ToolInv'
  BY DEF RecoverReplay, OwnerInv, TurnInv, ToolInv, HasTool, NoneAsked
<1> QED BY <1>2, <1>3, <1>4 DEF OwnerInv

LEMMA OwnerRecoverApproval ==
  ASSUME TypeOK, OwnerInv, NEW q \in Run, RecoverApproval(q) PROVE OwnerInv'
<1> USE DEF Worker
<1>1. /\ Recovers(q, "restore_approval") /\ "restore_approval" \in Restoring
      /\ UNCHANGED <<state, phase, turnVars, replay, queueVars>> /\ UNCHANGED interactionMark
  BY DEF RecoverApproval, Restoring
<1>2. PICK c \in Call :
        /\ approval[q][c] # "none" /\ IsLatestApproval(q, c)
        /\ \/ /\ job' = [job EXCEPT !["actor"] = [pc |-> "claim", run |-> q, call |-> c,
                                                  resume |-> FALSE, then |-> {"boot"}]]
              /\ approval' = [approval EXCEPT ![q][c] = IF @ = "pending" THEN "decline" ELSE @]
              /\ UNCHANGED approvalMark
           \/ /\ approval[q][c] = "pending"
              /\ approvalMark' = [run |-> q, call |-> c, cancel |-> FALSE]
              /\ UNCHANGED <<approval, job>>
  BY DEF RecoverApproval
<1>3. TurnInv' /\ ToolInv'
  BY DEF RecoverApproval, OwnerInv, TurnInv, ToolInv, HasTool, NoneAsked
<1>4. CASE /\ job' = [job EXCEPT !["actor"] = [pc |-> "claim", run |-> q, call |-> c,
                                               resume |-> FALSE, then |-> {"boot"}]]
           /\ approval' = [approval EXCEPT ![q][c] = IF @ = "pending" THEN "decline" ELSE @]
           /\ UNCHANGED approvalMark
  <2>1. /\ Actor'.pc = "claim" /\ Actor'.run = q /\ Actor'.call = c /\ Actor'.then = {"boot"}
        /\ job'["auto"] = job["auto"]
    BY <1>4 DEF TypeOK, Actor
  <2>2. /\ Alone' /\ Unnamed' /\ PhaseInv' /\ Quiet
        /\ state[q] = RestoredState["restore_approval"]
    BY <1>1, <1>4, <2>1, OwnerRestores
  <2>3. Decided(q, c)' /\ IsLatestApproval(q, c)'
    <3>1. approval \in [Run -> [Call -> {"none", "pending"} \cup Decision]]
      BY DEF TypeOK
    <3>2. approval'[q][c] \in Decision
      BY <1>2, <1>4, <3>1 DEF Decision
    <3>3. \A d \in Call : approval[q][d] = "none" => approval'[q][d] = "none"
      BY <1>2, <1>4, <3>1
    <3> QED BY <1>2, <3>2, <3>3 DEF Decided, IsLatestApproval
  <2>4. ActorInv'
    BY <1>1, <1>4, <2>1, <2>2, <2>3 DEF OwnerInv, ActorInv, Quiet, RestoredState, Controlling
  <2> QED BY <1>3, <2>2, <2>4 DEF OwnerInv
<1>5. CASE approvalMark' = [run |-> q, call |-> c, cancel |-> FALSE] /\ UNCHANGED <<approval, job>>
  <2>1. Actor' = Actor /\ approvalMark'.run = q /\ job'["auto"] = job["auto"]
    BY <1>5 DEF Actor
  <2>2. Alone' /\ Unnamed' /\ PhaseInv' /\ Quiet /\ Actor.pc = "idle"
    BY <1>1, <2>1, OwnerRestores
  <2>3. ActorInv'
    BY <1>1, <2>1, <2>2 DEF OwnerInv, ActorInv, Quiet, Controlling
  <2> QED BY <1>3, <2>2, <2>3 DEF OwnerInv
<1> QED BY <1>2, <1>4, <1>5

LEMMA OwnerRecoverInteraction ==
  ASSUME TypeOK, OwnerInv, NEW q \in Run, RecoverInteraction(q) PROVE OwnerInv'
<1> USE DEF Worker
<1>1. /\ Recovers(q, "restore_interaction") /\ "restore_interaction" \in Restoring
      /\ UNCHANGED <<state, phase, turnVars, replay, queueVars>> /\ UNCHANGED approvalMark
  BY DEF RecoverInteraction, Restoring
<1>2. PICK c \in Call :
        /\ interaction[q][c] # "none"
        /\ \A later \in Call : later > c => interaction[q][later] = "none"
        /\ \/ /\ interaction[q][c] = "resolved"
              /\ job' = [job EXCEPT !["actor"] = [pc |-> "claimAnswer", run |-> q, call |-> c,
                                                  resume |-> FALSE, then |-> {"boot"}]]
              /\ UNCHANGED interactionMark
           \/ /\ interaction[q][c] = "pending"
              /\ interactionMark' = [run |-> q, call |-> c]
              /\ UNCHANGED job
  BY DEF RecoverInteraction
<1>3. ToolInv'
  BY DEF RecoverInteraction, OwnerInv, ToolInv, HasTool, NoneAsked
<1>4. CASE /\ job' = [job EXCEPT !["actor"] = [pc |-> "claimAnswer", run |-> q, call |-> c,
                                               resume |-> FALSE, then |-> {"boot"}]]
           /\ interaction[q][c] = "resolved" /\ UNCHANGED interactionMark
  <2>1. /\ Actor'.pc = "claimAnswer" /\ Actor'.run = q /\ Actor'.call = c /\ Actor'.then = {"boot"}
        /\ job'["auto"] = job["auto"]
    BY <1>4 DEF TypeOK, Actor
  <2>2. /\ Alone' /\ Unnamed' /\ PhaseInv' /\ Quiet
        /\ state[q] = RestoredState["restore_interaction"]
    BY <1>1, <1>4, <2>1, OwnerRestores
  <2>3. tool[q].call = c
    <3>1. /\ tool[q].call \in Call /\ interaction[q][tool[q].call] # "none"
          /\ \A later \in Call : later > tool[q].call => interaction[q][later] = "none"
      BY <2>2, BoundAssumption
      DEF RestoredState, OwnerInv, ToolInv, HasTool, NoneAsked, TypeOK, PreparedTool, Call
    <3> QED BY <1>2, <3>1 DEF Call
  <2>4. ActorInv'
    BY <1>1, <1>4, <2>1, <2>2, <2>3
    DEF RecoverInteraction, OwnerInv, ActorInv, Quiet, RestoredState, Controlling
  <2>5. TurnInv'
    BY <1>4 DEF RecoverInteraction, OwnerInv, TurnInv
  <2> QED BY <1>3, <2>2, <2>4, <2>5 DEF OwnerInv
<1>5. CASE interactionMark' = [run |-> q, call |-> c] /\ UNCHANGED job
  <2>1. Actor' = Actor /\ interactionMark'.run = q /\ job'["auto"] = job["auto"]
    BY <1>5 DEF Actor
  <2>2. /\ Alone' /\ Unnamed' /\ PhaseInv' /\ Quiet /\ Actor.pc = "idle"
        /\ state[q] = RestoredState["restore_interaction"]
    BY <1>1, <2>1, OwnerRestores
  <2>3. ActorInv'
    BY <1>1, <2>1, <2>2 DEF OwnerInv, ActorInv, Quiet, Controlling
  <2>4. TurnInv'
    BY <2>1, <2>2 DEF RecoverInteraction, OwnerInv, TurnInv, RestoredState
  <2> QED BY <1>3, <2>2, <2>3, <2>4 DEF OwnerInv
<1> QED BY <1>2, <1>4, <1>5

-----------------------------------------------------------------------------
(* The turn of the run in activeTurns.                                     *)

(* Nothing else claims the thread while a turn executes. *)
LEMMA OwnerTurns ==
  ASSUME TypeOK, OwnerInv, NEW r \in Run, active = r,
         \A s \in Run : s # r => state'[s] = state[s] /\ turn'[s] = turn[s],
         turn'[r].pc \in {"model", "completed"} => state'[r] \notin Owning \ {"streaming_model"},
         turn'[r].pc = "settled" => state'[r] \notin Owning,
         turn'[r].pc = "waitApproval" => turn'[r].tool.call # 0,
         UNCHANGED <<phase, todo, active, approvalMark, interactionMark, replay, sched, job>>
  PROVE  Alone' /\ Unnamed' /\ PhaseInv' /\ ActorInv' /\ TurnInv'
<1>0. /\ ~Quiet /\ Actor.pc \notin Controlling /\ Actor' = Actor /\ Named(r)
      /\ \A s \in Run : todo[s] \notin Restoring
  BY RunAssumption DEF OwnerInv, ActorInv, PhaseInv, Quiet, Actor, Named
<1>1. \A s \in Run : Named(s)' <=> Named(s)
  BY <1>0 DEF Named
<1>2. \A s \in Run : Claimant(s)' => Claimant(s)
  BY <1>0, <1>1 DEF Claimant
<1>3. Alone'
  BY <1>2, AloneKept DEF OwnerInv
<1>4. Unnamed'
  BY <1>0, <1>1 DEF OwnerInv, Unnamed
<1>5. PhaseInv'
  BY <1>0 DEF OwnerInv, PhaseInv
<1>6. ActorInv'
  BY <1>0 DEF OwnerInv, ActorInv, Controlling
<1>7. TurnInv'
  BY DEF OwnerInv, TurnInv
<1> QED BY <1>3, <1>4, <1>5, <1>6, <1>7

(* The tools a turn and its run name are the newest, after a step that     *)
(* puts no question.                                                       *)
LEMMA ToolChosen ==
  ASSUME TypeOK, ToolInv, NEW r \in Run, UNCHANGED interaction,
         \A s \in Run : s # r => /\ state'[s] = state[s] /\ tool'[s] = tool[s]
                                 /\ turn'[s] = turn[s] /\ calls'[s] = calls[s],
         calls'[r] = calls[r] \/ calls'[r] = calls[r] + 1,
         \/ tool'[r] \in {tool[r], turn[r].tool, NoTool}
         \/ tool'[r].call = calls[r] + 1 /\ calls'[r] = calls[r] + 1,
         \/ turn'[r].tool \in {turn[r].tool, NoTool}
         \/ turn'[r].tool.call = calls[r] + 1 /\ calls'[r] = calls[r] + 1,
         turn'[r].asked \subseteq turn[r].asked,
         \/ state'[r] = state[r] /\ tool'[r] = tool[r]
         \/ /\ state'[r] # "waiting_interaction"
            /\ \/ tool'[r].call # 0
               \/ state'[r] \notin {"waiting_approval", "executing_tool", "paused_uncertain"}
  PROVE  ToolInv'
<1> USE DEF ToolInv
<1>0. calls[r] \in 0 .. MaxCalls /\ NoTool.call = 0 /\ NoneAsked(r, calls[r])
  BY DEF TypeOK, NoTool
<1>1. \A c \in Int : c >= calls[r] => NoneAsked(r, c)
  BY <1>0, BoundAssumption DEF NoneAsked, Call
<1>a. /\ tool[r].call \in Int /\ turn[r].tool.call \in Int
      /\ calls'[r] >= calls[r] /\ calls'[r] \in Int
  BY <1>0 DEF TypeOK, PreparedTool, TurnRecord
<1>c. tool'[r].call <= calls'[r] /\ (tool'[r].call # 0 => NoneAsked(r, tool'[r].call))
  <2>1. CASE tool'[r] \in {tool[r], turn[r].tool, NoTool}
    BY <1>0, <1>a, <2>1 DEF HasTool
  <2>2. CASE tool'[r].call = calls[r] + 1 /\ calls'[r] = calls[r] + 1
    BY <1>0, <1>1, <2>2
  <2> QED BY <2>1, <2>2
<1>d. /\ turn'[r].tool.call <= calls'[r]
      /\ turn'[r].tool.call # 0 => NoneAsked(r, turn'[r].tool.call)
  <2>1. CASE turn'[r].tool \in {turn[r].tool, NoTool}
    BY <1>0, <1>a, <2>1
  <2>2. CASE turn'[r].tool.call = calls[r] + 1 /\ calls'[r] = calls[r] + 1
    BY <1>0, <1>1, <2>2
  <2> QED BY <2>1, <2>2
<1>2. /\ NoneAsked(r, calls[r])'
      /\ tool'[r].call <= calls'[r] /\ turn'[r].tool.call <= calls'[r]
      /\ tool'[r].call # 0 => NoneAsked(r, tool[r].call)'
      /\ turn'[r].tool.call # 0 => NoneAsked(r, turn[r].tool.call)'
  <2>1. NoneAsked(r, calls'[r])
    BY <1>1, <1>a
  <2> QED BY <1>c, <1>d, <2>1 DEF NoneAsked
<1>3. \A d \in turn'[r].asked : d \in Call /\ interaction'[r][d] # "none"
  OBVIOUS
<1>4. /\ state'[r] \in {"waiting_approval", "waiting_interaction", "executing_tool",
                        "paused_uncertain"} => HasTool(r)'
      /\ state'[r] = "waiting_interaction" => interaction'[r][tool'[r].call] # "none"
  BY DEF HasTool
<1>5. ASSUME NEW s \in Run, s # r
      PROVE  /\ state'[s] \in {"waiting_approval", "waiting_interaction", "executing_tool",
                               "paused_uncertain"} => HasTool(s)'
             /\ NoneAsked(s, calls[s])'
             /\ tool'[s].call <= calls'[s] /\ turn'[s].tool.call <= calls'[s]
             /\ HasTool(s)' => NoneAsked(s, tool[s].call)'
             /\ turn'[s].tool.call # 0 => NoneAsked(s, turn[s].tool.call)'
             /\ state'[s] = "waiting_interaction" => interaction'[s][tool'[s].call] # "none"
             /\ \A c \in turn'[s].asked : c \in Call /\ interaction'[s][c] # "none"
  BY <1>5 DEF HasTool, NoneAsked
<1>6. HasTool(r)' <=> tool'[r].call # 0
  BY DEF HasTool
<1> QED BY <1>2, <1>3, <1>4, <1>5, <1>6

LEMMA Gone ==
  ASSUME TypeOK, NEW r \in Run, NEW pc, Goto(r, pc)
  PROVE  /\ \A s \in Run : s # r => turn'[s] = turn[s]
         /\ turn'[r].pc = pc /\ turn'[r].tool = turn[r].tool /\ turn'[r].asked = turn[r].asked
  BY DEF TypeOK, Goto, TurnRecord

LEMMA TurnWritten ==
  ASSUME TypeOK, NEW r \in Run, NEW to, NEW newTool, NEW pc, TurnWrites(r, to, newTool, pc)
  PROVE  /\ \A s \in Run : s # r => turn'[s] = turn[s] /\ state'[s] = state[s] /\ tool'[s] = tool[s]
         /\ turn'[r].asked = turn[r].asked
         /\ \/ /\ state'[r] = to /\ tool'[r] = newTool
               /\ turn'[r].pc = pc /\ turn'[r].tool = newTool
            \/ /\ state'[r] = state[r] /\ tool'[r] = tool[r]
               /\ turn'[r].pc = "failed" /\ turn'[r].tool = turn[r].tool
<1>1. turn \in [Run -> TurnRecord] /\ state \in [Run -> RunStates \cup {"absent"}]
      /\ tool \in [Run -> PreparedTool]
  BY DEF TypeOK
<1>2. CASE CanTransition(state[r], to)
  BY <1>1, <1>2 DEF TurnWrites, Write, TurnRecord
<1>3. CASE ~CanTransition(state[r], to)
  BY <1>1, <1>3, Gone DEF TurnWrites
<1> QED BY <1>2, <1>3

LEMMA OwnerTurnWrites ==
  ASSUME TypeOK, OwnerInv, NEW r \in Run, turn[r].pc # "none",
         NEW to \in {"waiting_approval", "executing_tool", "streaming_model"}, NEW newTool,
         NEW pc \in TurnPc \ {"completed", "settled"},
         TurnWrites(r, to, newTool, pc),
         pc = "model" => to = "streaming_model",
         to # "streaming_model" => newTool.call # 0,
         pc = "waitApproval" => to = "waiting_approval",
         \/ newTool \in {NoTool, turn[r].tool} /\ calls' = calls
         \/ newTool.call = calls[r] + 1 /\ calls' = [calls EXCEPT ![r] = @ + 1],
         UNCHANGED <<phase, todo, active, approvalMark, interactionMark, replay, sched, job,
                     interaction>>
  PROVE  OwnerInv'
<1>1. active = r
  BY DEF OwnerInv, TurnInv
<1>2. calls'[r] = calls[r] \/ (calls'[r] = calls[r] + 1 /\ newTool.call = calls[r] + 1)
  BY DEF TypeOK
<1>3. \/ newTool \in {NoTool, turn[r].tool}
      \/ newTool.call = calls[r] + 1 /\ calls'[r] = calls[r] + 1
  BY DEF TypeOK
<1>4. \A s \in Run : s # r => calls'[s] = calls[s]
  BY DEF TypeOK
<1>5. Alone' /\ Unnamed' /\ PhaseInv' /\ ActorInv' /\ TurnInv'
  BY <1>1, TurnWritten, OwnerTurns
<1>6. ToolInv'
  BY <1>2, <1>3, <1>4, TurnWritten, ToolChosen DEF OwnerInv
<1> QED BY <1>5, <1>6 DEF OwnerInv

LEMMA OwnerGoto ==
  ASSUME TypeOK, OwnerInv, NEW r \in Run, turn[r].pc # "none",
         NEW pc \in {"completed", "interrupted", "failed", "running"}, Goto(r, pc),
         pc = "completed" => turn[r].pc = "model",
         \A s \in Run : s # r => calls'[s] = calls[s],
         calls'[r] = calls[r] \/ calls'[r] = calls[r] + 1,
         UNCHANGED <<state, tool, phase, todo, active, approvalMark, interactionMark, replay, sched,
                     job, interaction>>
  PROVE  OwnerInv'
<1>1. /\ active = r
      /\ turn[r].pc = "model" => state[r] \notin Owning \ {"streaming_model"}
  BY DEF OwnerInv, TurnInv
<1>2. Alone' /\ Unnamed' /\ PhaseInv' /\ ActorInv' /\ TurnInv'
  BY <1>1, Gone, OwnerTurns
<1>3. ToolInv'
  BY Gone, ToolChosen DEF OwnerInv
<1> QED BY <1>2, <1>3 DEF OwnerInv

(* A question is put for the newest call. *)
LEMMA OwnerAsk ==
  ASSUME TypeOK, OwnerInv, NEW r \in Run, turn[r].pc # "none", NEW c \in Call, NEW newTool,
         NEW pc \in {"waitAnswer", "running"}, Ask(r, c, newTool, pc), newTool.call = c,
         NoneAsked(r, c),
         \/ c <= calls[r] /\ calls' = calls
         \/ c = calls[r] + 1 /\ calls' = [calls EXCEPT ![r] = @ + 1],
         UNCHANGED <<phase, todo, active, approvalMark, interactionMark, replay, sched, job>>
  PROVE  OwnerInv'
<1>0. /\ active = r /\ turn \in [Run -> TurnRecord] /\ state \in [Run -> RunStates \cup {"absent"}]
      /\ tool \in [Run -> PreparedTool] /\ calls \in [Run -> 0 .. MaxCalls]
      /\ interaction \in [Run -> [Call -> {"none", "pending", "resolved"}]]
  BY DEF OwnerInv, TurnInv, TypeOK
<1>a. /\ calls'[r] = calls[r] \/ calls'[r] = calls[r] + 1
      /\ c <= calls'[r] /\ calls'[r] \in Int /\ calls[r] \in Int
      /\ \A s \in Run : s # r => calls'[s] = calls[s]
  BY <1>0, BoundAssumption DEF Call
<1>1. CASE ~CanTransition(state[r], "waiting_interaction")
  BY <1>1, <1>a, OwnerGoto DEF Ask
<1>2. CASE CanTransition(state[r], "waiting_interaction")
  <2>1. /\ \A s \in Run : s # r => /\ turn'[s] = turn[s] /\ state'[s] = state[s]
                                   /\ tool'[s] = tool[s] /\ interaction'[s] = interaction[s]
        /\ state'[r] = "waiting_interaction" /\ tool'[r] = newTool
        /\ turn'[r].pc = pc /\ turn'[r].tool = newTool /\ turn'[r].asked = turn[r].asked \cup {c}
        /\ interaction'[r][c] = "pending"
        /\ \A d \in Call : d # c => interaction'[r][d] = interaction[r][d]
    BY <1>0, <1>2 DEF Ask, Write, TurnRecord
  <2>2. Alone' /\ Unnamed' /\ PhaseInv' /\ ActorInv' /\ TurnInv'
    BY <1>0, <2>1, OwnerTurns
  <2>3. ToolInv'
    <3>1. NoneAsked(r, c)' /\ NoneAsked(r, calls[r])'
      <4>1. \A later \in Call : later > c => interaction'[r][later] = "none"
        BY <2>1 DEF NoneAsked, Call
      <4> QED BY <1>a, <4>1 DEF NoneAsked, Call
    <3>2. c # 0 /\ HasTool(r)'
      BY <2>1 DEF HasTool, Call
    <3>3. \A d \in turn'[r].asked : d \in Call /\ interaction'[r][d] # "none"
      BY <2>1 DEF OwnerInv, ToolInv
    <3>4. ASSUME NEW s \in Run, s # r
          PROVE  /\ state'[s] \in {"waiting_approval", "waiting_interaction", "executing_tool",
                                   "paused_uncertain"} => HasTool(s)'
                 /\ NoneAsked(s, calls[s])'
                 /\ tool'[s].call <= calls'[s] /\ turn'[s].tool.call <= calls'[s]
                 /\ HasTool(s)' => NoneAsked(s, tool[s].call)'
                 /\ turn'[s].tool.call # 0 => NoneAsked(s, turn[s].tool.call)'
                 /\ state'[s] = "waiting_interaction" => interaction'[s][tool'[s].call] # "none"
                 /\ \A d \in turn'[s].asked : d \in Call /\ interaction'[s][d] # "none"
      BY <1>a, <2>1, <3>4 DEF OwnerInv, ToolInv, HasTool, NoneAsked
    <3>5. NoneAsked(r, tool[r].call)' /\ NoneAsked(r, turn[r].tool.call)'
      BY <2>1, <3>1 DEF NoneAsked
    <3> QED BY <1>a, <2>1, <3>1, <3>2, <3>3, <3>4, <3>5 DEF ToolInv
  <2> QED BY <2>2, <2>3 DEF OwnerInv
<1> QED BY <1>1, <1>2

LEMMA OwnerAdmit == ASSUME TypeOK, OwnerInv, NEW r \in Run, Admit(r) PROVE OwnerInv'
<1>0. active = r /\ turn[r].pc # "none"
  BY DEF Admit, OwnerInv, TurnInv
<1>1. CASE CanTransition(state[r], "streaming_model")
  <2>1. /\ \A s \in Run : s # r => turn'[s] = turn[s] /\ state'[s] = state[s]
        /\ state'[r] = "streaming_model" /\ turn'[r].pc = "model"
        /\ turn'[r].tool = turn[r].tool /\ turn'[r].asked = turn[r].asked
    BY <1>1 DEF TypeOK, Admit, TurnRecord
  <2>2. Alone' /\ Unnamed' /\ PhaseInv' /\ ActorInv' /\ TurnInv'
    BY <1>0, <2>1, OwnerTurns DEF Admit
  <2>3. ToolInv'
    BY <2>1, ToolChosen DEF Admit, OwnerInv
  <2> QED BY <2>2, <2>3 DEF OwnerInv
<1>2. CASE ~CanTransition(state[r], "streaming_model")
  BY <1>0, <1>2, OwnerGoto DEF Admit
<1> QED BY <1>1, <1>2

LEMMA OwnerFinish == ASSUME TypeOK, OwnerInv, NEW r \in Run, Finish(r) PROVE OwnerInv'
<1>0. /\ active = r /\ turn[r].pc \in Outcome
      /\ turn[r].pc = "completed" => state[r] \notin Owning \ {"streaming_model"}
  BY DEF Finish, Outcome, OwnerInv, TurnInv
<1>1. /\ \A s \in Run : s # r => state'[s] = state[s]
      /\ state'[r] = IF CanTransition(state[r], turn[r].pc) THEN turn[r].pc ELSE state[r]
  BY DEF TypeOK, Finish
<1>2. state'[r] \notin Owning /\ (state'[r] = state[r] \/ state'[r] \in Outcome)
  <2>1. CanTransition("streaming_model", "completed")
    BY DEF CanTransition, Successors
  <2>2. state[r] \in Owning => CanTransition(state[r], turn[r].pc)
    BY <1>0, <2>1, OwningMayFail DEF Outcome
  <2> QED BY <1>0, <1>1, <2>2 DEF Outcome, Owning, Waiting
<1>3. /\ \A s \in Run : s # r => turn'[s] = turn[s]
      /\ turn'[r].pc = "settled" /\ turn'[r].tool = turn[r].tool /\ turn'[r].asked = turn[r].asked
  BY Gone DEF Finish
<1>4. Alone' /\ Unnamed' /\ PhaseInv' /\ ActorInv' /\ TurnInv'
  BY <1>0, <1>1, <1>2, <1>3, OwnerTurns DEF Finish
<1>5. ToolInv'
  BY <1>1, <1>2, <1>3, ToolChosen DEF Finish, OwnerInv, Outcome
<1> QED BY <1>4, <1>5 DEF OwnerInv

(* The turn lets the thread go: its run owns it no more. *)
LEMMA OwnerSettled == ASSUME TypeOK, OwnerInv, NEW r \in Run, Settled(r) PROVE OwnerInv'
<1>0. /\ active = r /\ active' = NoRun /\ state[r] \notin Owning /\ ~Quiet
      /\ Actor.pc \notin Controlling /\ Actor' = Actor
      /\ \A s \in Run : todo[s] \notin Restoring
      /\ \A s \in Run : state[s] \in Owning => Named(s)
      /\ Claimant(r)
  BY RunAssumption
  DEF Settled, OwnerInv, TurnInv, ActorInv, PhaseInv, Unnamed, Quiet, Actor, Claimant, Named
<1>1. \A s \in Run : turn'[s].pc = "none" /\ turn'[s].tool \in {turn[s].tool, NoTool}
                     /\ turn'[s].asked \subseteq turn[s].asked
  BY <1>0, RunAssumption DEF TypeOK, Settled, NoTurn, OwnerInv, TurnInv
<1>2. Alone'
  <2>1. \A s \in Run : Claimant(s)' => Claimant(s)
    BY <1>0, RunAssumption DEF Settled, Claimant, Named
  <2> QED BY <2>1, AloneKept DEF OwnerInv
<1>3. Unnamed'
  <2>1. \A s \in Run : state[s] \notin Owning
    BY <1>0 DEF OwnerInv, Alone, Claimant
  <2> QED BY <2>1 DEF Settled, Unnamed
<1>4. PhaseInv'
  BY <1>0 DEF Settled, OwnerInv, PhaseInv
<1>5. ActorInv'
  <2>1. \A s \in Run : state[s] \notin Owning
    BY <1>0 DEF OwnerInv, Alone, Claimant
  <2> QED BY <1>0, <2>1 DEF Settled, OwnerInv, ActorInv, Controlling
<1>6. TurnInv'
  <2>1. \A s \in Run : state[s] # "waiting_approval"
    BY <1>0 DEF OwnerInv, Alone, Claimant, Owning, Waiting
  <2> QED BY <1>1, <2>1 DEF Settled, TurnInv
<1>7. ToolInv'
  BY <1>1, ToolKept DEF Settled, OwnerInv
<1> QED BY <1>2, <1>3, <1>4, <1>5, <1>6, <1>7 DEF OwnerInv

LEMMA OwnerTurnStep == ASSUME TypeOK, OwnerInv, NEW r \in Run, TurnStep(r) PROVE OwnerInv'
<1>0. /\ turn[r] \in TurnRecord /\ turn[r].tool \in PreparedTool /\ NoTool.call = 0
      /\ calls[r] \in 0 .. MaxCalls
      /\ turn[r].tool.call # 0 => NoneAsked(r, turn[r].tool.call) /\ turn[r].tool.call \in Call
      /\ turn[r].tool.call <= calls[r]
      /\ NoneAsked(r, calls[r])
      /\ turn[r].pc = "waitApproval" => turn[r].tool.call # 0
  <2>1. turn[r] \in TurnRecord /\ turn[r].tool \in PreparedTool /\ calls[r] \in 0 .. MaxCalls
    BY DEF TypeOK, TurnRecord
  <2> QED
    BY <2>1, BoundAssumption DEF NoTool, OwnerInv, ToolInv, TurnInv, PreparedTool, Call
<1>a. {"waitApproval", "waitAnswer", "dispatch", "running", "model", "interrupted"}
        \subseteq TurnPc \ {"completed", "settled"}
  BY DEF TurnPc, Outcome
<1>1. ASSUME NEW class, NextCall(r, class)
      PROVE  /\ turn[r].pc # "none" /\ calls' = [calls EXCEPT ![r] = @ + 1]
             /\ NewTool(r, class).call = calls[r] + 1 /\ calls[r] + 1 \in Call
             /\ NewTool(r, class).call # 0 /\ NoneAsked(r, calls[r] + 1)
  BY <1>0, <1>1, BoundAssumption DEF NextCall, NewTool, NoneAsked, Call
<1>2. CASE Admit(r)
  BY <1>2, OwnerAdmit
<1>3. CASE AskInteraction(r)
  <2>1. /\ NextCall(r, "interactive")
        /\ Ask(r, calls[r] + 1, NewTool(r, "interactive"), "waitAnswer")
        /\ UNCHANGED <<phase, todo, active, approvalMark, interactionMark, replay, sched, job>>
    BY <1>3 DEF AskInteraction
  <2> QED BY <1>1, <2>1, OwnerAsk
<1>4. CASE Dispatch(r)
  BY <1>4, OwnerGoto DEF Dispatch
<1>5. CASE Elicit(r)
  <2> DEFINE c == turn[r].tool.call
  <2>1. /\ Ask(r, c, tool[r], "running") /\ tool[r].call = c /\ state[r] = "executing_tool"
        /\ turn[r].pc # "none"
        /\ UNCHANGED <<phase, todo, active, approvalMark, interactionMark, replay, sched, job,
                       calls>>
    BY <1>5 DEF Elicit
  <2>2. c \in Call /\ c <= calls[r] /\ NoneAsked(r, c)
    BY <1>0, <2>1 DEF OwnerInv, ToolInv, HasTool
  <2> QED BY <2>1, <2>2, OwnerAsk
<1>6. CASE Answered(r)
  <2>1. /\ turn[r].pc # "none"
        /\ TurnWrites(r, "streaming_model", NoTool,
                      IF turn[r].aborted THEN "interrupted" ELSE "model")
        /\ UNCHANGED <<phase, todo, active, approvalMark, interactionMark, replay, sched, job,
                       interaction, calls>>
    BY <1>6 DEF Answered
  <2>2. CASE turn[r].aborted
    BY <1>a, <2>1, <2>2, OwnerTurnWrites
  <2>3. CASE ~turn[r].aborted
    BY <1>a, <2>1, <2>3, OwnerTurnWrites
  <2> QED BY <2>2, <2>3
<1>7. CASE Finish(r)
  BY <1>7, OwnerFinish
<1>8. CASE Settled(r)
  BY <1>8, OwnerSettled
<1>9. ASSUME NEW outcome \in Outcome, ModelEnds(r, outcome) PROVE OwnerInv'
  BY <1>9, OwnerGoto DEF ModelEnds, Outcome
<1>10. ASSUME NEW class \in ToolClasses, AskApproval(r, class) PROVE OwnerInv'
  <2>1. /\ NextCall(r, class)
        /\ TurnWrites(r, "waiting_approval", NewTool(r, class), "waitApproval")
        /\ UNCHANGED <<phase, todo, active, approvalMark, interactionMark, replay, sched, job,
                       interaction>>
    BY <1>10 DEF AskApproval
  <2> QED BY <1>1, <1>a, <2>1, OwnerTurnWrites
<1>11. ASSUME NEW class \in ToolClasses, AllowTool(r, class) PROVE OwnerInv'
  <2>1. /\ NextCall(r, class)
        /\ TurnWrites(r, "executing_tool", NewTool(r, class), "dispatch")
        /\ UNCHANGED <<phase, todo, active, approvalMark, interactionMark, replay, sched, job,
                       interaction>>
    BY <1>11 DEF AllowTool
  <2> QED BY <1>1, <1>a, <2>1, OwnerTurnWrites
<1>12. ASSUME NEW decision \in {"decline", "cancel"}, ApprovalExpires(r, decision) PROVE OwnerInv'
  <2>1. /\ active = r
        /\ turn[r].pc \in {"model", "completed"} => state[r] \notin Owning \ {"streaming_model"}
        /\ turn[r].pc = "settled" => state[r] \notin Owning
    BY <1>12 DEF ApprovalExpires, ApprovalWaiter, OwnerInv, TurnInv
  <2>2. Alone' /\ Unnamed' /\ PhaseInv' /\ ActorInv' /\ TurnInv'
    BY <1>0, <1>12, <2>1, OwnerTurns DEF ApprovalExpires
  <2>3. ToolInv'
    BY <1>12, ToolKept DEF ApprovalExpires, OwnerInv
  <2> QED BY <2>2, <2>3 DEF OwnerInv
<1>13. ASSUME NEW refused \in BOOLEAN, ApprovalSettled(r, refused) PROVE OwnerInv'
  <2> DEFINE prepared == turn[r].tool
  <2>1. /\ turn[r].pc # "none" /\ prepared.call # 0
        /\ UNCHANGED <<phase, todo, active, approvalMark, interactionMark, replay, sched, job,
                       calls>>
    BY <1>0, <1>13 DEF ApprovalSettled
  <2>2. \/ Ask(r, prepared.call, prepared, "waitAnswer")
        \/ TurnWrites(r, "executing_tool", prepared, "dispatch") /\ UNCHANGED interaction
        \/ \E pc \in {"interrupted", "model"} :
             TurnWrites(r, "streaming_model", NoTool, pc) /\ UNCHANGED interaction
    BY <1>13, Zenon DEF ApprovalSettled
  <2>3. CASE Ask(r, prepared.call, prepared, "waitAnswer")
    BY <1>0, <2>1, <2>3, OwnerAsk
  <2>4. CASE TurnWrites(r, "executing_tool", prepared, "dispatch") /\ UNCHANGED interaction
    BY <1>a, <2>1, <2>4, OwnerTurnWrites
  <2>5. ASSUME NEW pc \in {"interrupted", "model"},
               TurnWrites(r, "streaming_model", NoTool, pc) /\ UNCHANGED interaction
        PROVE  OwnerInv'
    BY <1>a, <2>1, <2>5, OwnerTurnWrites
  <2> QED BY <2>2, <2>3, <2>4, <2>5
<1>14. CASE ApprovalHookFails(r)
  BY <1>14, OwnerGoto DEF ApprovalHookFails
<1>15. ASSUME NEW pc \in {"model", "interrupted"}, ToolReturns(r, pc) PROVE OwnerInv'
  BY <1>15, <1>a, OwnerTurnWrites DEF ToolReturns
<1>16. ASSUME NEW c \in Call, AnswerAborted(r, c) PROVE OwnerInv'
  <2>1. /\ interaction[r][c] # "none" /\ turn' = [turn EXCEPT ![r].asked = @ \ {c}]
        /\ interaction' = [interaction EXCEPT ![r][c] = "resolved"]
        /\ UNCHANGED <<runVars, madeVars, approval, bootVars, active, markVars, replay, queueVars,
                       job>>
    BY <1>16 DEF AnswerAborted, AnswerWaiter, OwnerInv, ToolInv
  <2>2. Alone' /\ Unnamed' /\ PhaseInv'
    BY <2>1 DEF OwnerInv, Alone, Claimant, Named, Actor, Unnamed, Quiet, Recontinues, PhaseInv
  <2>3. \A s \in Run, d \in Call : interaction[s][d] = "resolved" => interaction'[s][d] = "resolved"
    BY <2>1 DEF TypeOK
  <2>4. ActorInv'
    BY <2>1, <2>3 DEF OwnerInv, ActorInv, Actor, Quiet, Decided, IsLatestApproval, HasTool
  <2>5. TurnInv'
    BY <2>1 DEF TypeOK, TurnRecord, OwnerInv, TurnInv
  <2>6. ToolInv'
    BY <2>1, AnswersAsked DEF OwnerInv
  <2> QED BY <2>2, <2>4, <2>5, <2>6 DEF OwnerInv
<1> QED
  BY <1>2, <1>3, <1>4, <1>5, <1>6, <1>7, <1>8, <1>9, <1>10, <1>11, <1>12, <1>13, <1>14, <1>15,
     <1>16 DEF TurnStep

-----------------------------------------------------------------------------

LEMMA OwnerInit == Init => OwnerInv
<1> SUFFICES ASSUME Init PROVE OwnerInv
  OBVIOUS
<1> USE DEF Worker
<1>1. Alone /\ Unnamed /\ PhaseInv
  BY RunAssumption
  DEF Init, Idle, Alone, Claimant, Named, Unnamed, PhaseInv, Actor, IdleJob, Controlling, NoMark,
      NoAnswerMark, Restoring, Owning, Waiting
<1>2. ActorInv
  BY DEF Init, Idle, ActorInv, Actor, IdleJob, Controlling, NoReplay
<1>3. TurnInv /\ ToolInv
  BY RunAssumption
  DEF Init, Idle, TurnInv, ToolInv, NoTurn, NoTool, NoAnswerMark, NoneAsked, HasTool, Owning, Waiting
<1> QED BY <1>1, <1>2, <1>3 DEF OwnerInv

LEMMA OwnerNext ==
  ASSUME TypeOK, OwnerInv, [Next]_vars, "automation" \notin Faults PROVE OwnerInv'
<1>1. CASE Command
  BY <1>1, OwnerSubmit, OwnerEnqueue, OwnerRemove, OwnerResume, OwnerResolve,
     OwnerApprovalResponse, OwnerInteractionResponse, OwnerInterrupt DEF Command
<1>2. CASE ActorTask
  BY <1>2, OwnerRunTask, OwnerPauseApproval, OwnerApprovalTimeout DEF ActorTask
<1>3. CASE PauseThread
  BY <1>3, OwnerPauseThread
<1>4. ASSUME NEW r \in Run, NEW c \in Call, AutomationAnswer(r, c) PROVE FALSE
  BY <1>4 DEF AutomationAnswer
<1>5. CASE Recovery
  BY <1>5, OwnerBoot, OwnerRecoverDrain, OwnerRecoverLater, OwnerRecoverRejects,
     OwnerRecoverReplay, OwnerRecoverApproval, OwnerRecoverInteraction DEF Recovery
<1>6. CASE UNCHANGED vars
  <2>1. /\ UNCHANGED <<state, tool, calls, approval, interaction, phase, todo, turn, active,
                       approvalMark, interactionMark, replay, job, sched>>
    BY <1>6 DEF vars
  <2>2. Alone' /\ Unnamed' /\ PhaseInv'
    BY <2>1 DEF OwnerInv, Alone, Claimant, Named, Actor, Unnamed, Quiet, Recontinues, PhaseInv
  <2>3. ActorInv' /\ TurnInv' /\ ToolInv'
    BY <2>1 DEF OwnerInv, ActorInv, TurnInv, ToolInv, Actor, Quiet, Decided, IsLatestApproval,
                HasTool, NoneAsked
  <2> QED BY <2>2, <2>3 DEF OwnerInv
<1> QED
  BY <1>1, <1>2, <1>3, <1>4, <1>5, <1>6, OwnerJobStep, OwnerTurnStep, OwnerCrash DEF Next

(* At most one run of the thread is in a state where something acts on the *)
(* conversation for it (isThreadBusy), whatever commands, decisions, late  *)
(* responses, manual input, failing hooks and restarts come, and in any    *)
(* order, unless alarms and watchers answer behind the actor's back.       *)
THEOREM OneOwner == ASSUME "automation" \notin Faults PROVE Spec => []SingleOwner
<1>1. Init => OwnerInv
  BY OwnerInit
<1>2. TypeOK /\ OwnerInv /\ [Next]_vars => OwnerInv'
  BY OwnerNext
<1>3. OwnerInv => SingleOwner
  BY DEF OwnerInv, Alone, Claimant, SingleOwner
<1> QED BY <1>1, <1>2, <1>3, TypeCorrect, PTL DEF Spec

-----------------------------------------------------------------------------

(* The run in activeTurns has a turn that executes it. *)
ActiveInv == \A r \in Run : active = r => turn[r].pc # "none"

Unstarted == {"absent", "queued"}
Replaying == {"markDone", "replay", "validate", "dispatch", "replaying"}

(* What works on a run works on one that has begun; only a start takes it  *)
(* from the queue.                                                         *)
WorkInv ==
  /\ \A r \in Run : turn[r].pc # "none" => state[r] \notin Unstarted
  /\ \A r \in Run : todo[r] # "done" => state[r] # "absent"
  /\ Actor.pc = "start" =>
       state[Actor.run] # "absent" /\ (~Actor.resume => state[Actor.run] = "queued")
  /\ Actor.pc \in Controlling \ {"start"} => state[Actor.run] \notin Unstarted
  /\ Actor.pc \in Replaying => state[Actor.run] \in Owning

(* The queue in memory holds queued runs, each once, and none of them is   *)
(* being started.                                                          *)
Enqueued(r) == \E i \in DOMAIN memQueue : memQueue[i] = r

QueueInv ==
  /\ \A r \in Run : Enqueued(r) => state[r] = "queued"
  /\ \A i, j \in DOMAIN memQueue : memQueue[i] = memQueue[j] => i = j
  /\ Actor.pc = "start" => ~Enqueued(Actor.run)
  /\ phase \in {"down", "recovering"} => memQueue = <<>>

RunsInv == ActiveInv /\ WorkInv /\ QueueInv

(* A recovered approval waits, is about to be claimed, or is released by   *)
(* the job that continues its run; a recovered interaction waits until it  *)
(* is claimed.                                                             *)
Finishing(r, c) == "finish" \in Actor.then /\ Actor.run = r /\ Actor.call = c

MarkInv ==
  /\ "keep" \notin Actor.then
  /\ \A r \in Run : approvalMark.run = r =>
       /\ env[r] /\ approvalMark.call \in Call
       /\ \/ /\ ~Running /\ state[r] = "waiting_approval"
             /\ approval[r][approvalMark.call] # "none"
             /\ IsLatestApproval(r, approvalMark.call)
             /\ \/ Actor.pc = "idle"
                \/ Actor.pc \in {"wait", "return"} /\ "finish" \notin Actor.then
                \/ /\ Actor.pc = "claim" /\ Finishing(r, approvalMark.call)
                   /\ Decided(r, approvalMark.call)
          \/ /\ Finishing(r, approvalMark.call)
             /\ Actor.pc \in (Controlling \ {"markDone"}) \cup {"return"}
  /\ \A r \in Run : interactionMark.run = r =>
       /\ env[r] /\ ~Running /\ state[r] = "waiting_interaction"
       /\ Actor.pc \in {"idle", "wait", "return", "claimAnswer"}

-----------------------------------------------------------------------------
(* The moves of a run that its life cycle allows.                          *)

Parked == {"paused_budget", "paused_uncertain", "interrupted"}

Lawful(q) ==
  /\ \A s \in Run : s # q => state'[s] = state[s]
  /\ \/ state'[q] = state[q]
     \/ state[q] = "absent" /\ state'[q] = "queued"
     \/ state[q] \in Owning /\ state'[q] \in RunStates
     \/ state[q] \in RunStates /\ state'[q] \in Terminal
     \/ state[q] \in Parked \cup {"queued"} /\ state'[q] \in Parked
     \/ /\ state[q] \in Parked \cup {"queued"} /\ state'[q] \in Owning
        /\ \A s \in Run : state[s] \notin Owning

Status == [r \in Run |-> StatusOf(state[r])]
LifeStep == Lifecycle!Next \/ UNCHANGED Status

LEMMA StatusIs ==
  ASSUME NEW s \in RunStates \cup {"absent"}
  PROVE  /\ s = "absent" => StatusOf(s) = "new"
         /\ s = "queued" => StatusOf(s) = "queued"
         /\ StatusOf(s) = "active" <=> s \in Owning
         /\ s \in Parked => StatusOf(s) = "parked"
         /\ s \in Terminal => StatusOf(s) = "closed"
         /\ s \in Owning \cup Parked \cup Terminal \cup {"absent", "queued"}
  BY DEF StatusOf, RunStates, Owning, Waiting, Parked, Terminal

LEMMA LawfulLife == ASSUME TypeOK, TypeOK', NEW q \in Run, Lawful(q) PROVE LifeStep
<1>1. /\ state \in [Run -> RunStates \cup {"absent"}]
      /\ state' \in [Run -> RunStates \cup {"absent"}]
  BY DEF TypeOK
<1>2. ASSUME NEW to, StatusOf(state'[q]) = to PROVE Lifecycle!Become(q, to)
  BY <1>1, <1>2 DEF Lawful, Lifecycle!Become
<1>3. /\ \A s \in Run : Status[s] = StatusOf(state[s])
      /\ (\A s \in Run : state[s] \notin Owning) => \A s \in Run : StatusOf(state[s]) # "active"
  BY <1>1, StatusIs DEF Status
<1>4. CASE StatusOf(state'[q]) = StatusOf(state[q])
  BY <1>1, <1>4 DEF Lawful, LifeStep, Status
<1>5. CASE state[q] = "absent" /\ state'[q] = "queued"
  <2>1. Lifecycle!Create(q)
    BY <1>1, <1>2, <1>5, StatusIs DEF Lifecycle!Create
  <2> QED BY <2>1 DEF LifeStep, Lifecycle!Next
<1>6. CASE /\ state[q] \in Parked \cup {"queued"} /\ state'[q] \in Owning
           /\ \A s \in Run : state[s] \notin Owning
  <2>1. Lifecycle!Activate(q)
    BY <1>1, <1>2, <1>3, <1>6, StatusIs DEF Lifecycle!Activate
  <2> QED BY <2>1 DEF LifeStep, Lifecycle!Next
<1>7. CASE state[q] \in Owning \cup {"queued"} /\ state'[q] \in Parked
  <2>1. Lifecycle!Park(q)
    BY <1>1, <1>2, <1>7, StatusIs DEF Lifecycle!Park
  <2> QED BY <2>1 DEF LifeStep, Lifecycle!Next
<1>8. CASE state[q] \in Owning /\ state'[q] = "queued"
  <2>1. Lifecycle!Requeue(q)
    BY <1>1, <1>2, <1>8, StatusIs DEF Lifecycle!Requeue
  <2> QED BY <2>1 DEF LifeStep, Lifecycle!Next
<1>9. CASE state[q] \in Owning \cup Parked \cup {"queued"} /\ state'[q] \in Terminal
  <2>1. Lifecycle!Close(q)
    BY <1>1, <1>2, <1>9, StatusIs DEF Lifecycle!Close
  <2> QED BY <2>1 DEF LifeStep, Lifecycle!Next
<1>10. CASE /\ state[q] \in Owning /\ state'[q] \in Owning
  BY <1>1, <1>4, <1>10, StatusIs
<1>11. CASE state[q] \in Terminal /\ state'[q] \in Terminal
  BY <1>1, <1>4, <1>11, StatusIs
<1>12. CASE state[q] \in Parked /\ state'[q] \in Parked
  BY <1>1, <1>4, <1>12, StatusIs
<1>13. RunStates = Owning \cup Parked \cup Terminal \cup {"queued"}
  BY DEF RunStates, Owning, Waiting, Parked, Terminal
<1> QED
  BY <1>4, <1>5, <1>6, <1>7, <1>8, <1>9, <1>10, <1>11, <1>12, <1>13 DEF Lawful

(* What the table allows a turn to write. *)
LEMMA LawfulWrite ==
  ASSUME NEW s \in RunStates, NEW to \in Waiting \cup {"streaming_model", "executing_tool"},
         CanTransition(s, to)
  PROVE  s \in Owning
  BY DEF RunStates, CanTransition, Successors, Owning, Waiting

-----------------------------------------------------------------------------
(* Steps that leave the queue in memory and activeTurns alone.             *)
LEMMA RunsKept ==
  ASSUME TypeOK, OwnerInv, RunsInv, UNCHANGED <<active, memQueue>>,
         \A s \in Run :
           /\ state'[s] \in Unstarted => state[s] \in Unstarted
           /\ state'[s] = "absent" => state[s] = "absent"
           /\ Enqueued(s) => state'[s] = state[s]
           /\ turn'[s].pc = "none" <=> turn[s].pc = "none"
           /\ todo'[s] # "done" => todo[s] # "done",
         phase' = phase \/ phase' \notin {"down", "recovering"},
         \/ Actor'.pc \notin Controlling
         \/ /\ Actor'.pc \in Controlling \ {"start"} /\ state'[Actor'.run] \notin Unstarted
            /\ Actor'.pc \in Replaying => state'[Actor'.run] \in Owning
         \/ /\ Actor'.pc = "start" /\ state'[Actor'.run] # "absent" /\ ~Enqueued(Actor'.run)
            /\ ~Actor'.resume => state'[Actor'.run] = "queued"
  PROVE  RunsInv'
<1>1. ActiveInv'
  BY DEF RunsInv, ActiveInv
<1>2. WorkInv'
  BY DEF RunsInv, WorkInv, Controlling, Replaying
<1>3. QueueInv'
  <2>1. \A s \in Run : Enqueued(s)' => state'[s] = "queued"
    BY DEF RunsInv, QueueInv, Enqueued
  <2>2. Actor'.pc = "start" => ~Enqueued(Actor.run)'
    BY DEF Enqueued, Controlling
  <2> QED BY <2>1, <2>2 DEF RunsInv, QueueInv
<1> QED BY <1>1, <1>2, <1>3 DEF RunsInv

-----------------------------------------------------------------------------
(* Commands and the engine's own tasks.                                    *)

(* With the thread free no run is in an owning state. *)
LEMMA NobodyOwns == ASSUME OwnerInv, Admitted, ~Busy PROVE \A s \in Run : state[s] \notin Owning
  BY NobodyClaims DEF Claimant

LEMMA RunsSubmit ==
  ASSUME TypeOK, OwnerInv, RunsInv, NEW q \in Run, Submit(q) PROVE RunsInv' /\ Lawful(q)
<1>1. /\ state[q] = "absent" /\ state'[q] = "queued"
      /\ \A s \in Run : s # q => state'[s] = state[s]
      /\ Actor'.pc = "start" /\ Actor'.run = q
      /\ UNCHANGED <<active, memQueue, turn, todo, phase>>
  BY DEF TypeOK, Submit, StartRun, Actor, Worker
<1>2. ~Enqueued(q)
  BY <1>1 DEF RunsInv, QueueInv
<1>3. ~Enqueued(Actor'.run)
  BY <1>1, <1>2 DEF Enqueued
<1>4. RunsInv'
  BY <1>1, <1>2, <1>3, RunsKept DEF Unstarted
<1> QED BY <1>1, <1>4 DEF Lawful

LEMMA RunsEnqueue ==
  ASSUME TypeOK, OwnerInv, RunsInv, NEW q \in Run, Enqueue(q) PROVE RunsInv' /\ Lawful(q)
<1>1. /\ state[q] = "absent" /\ state'[q] = "queued"
      /\ \A s \in Run : s # q => state'[s] = state[s]
      /\ memQueue \in Seq(Run) /\ memQueue' = Append(memQueue, q)
      /\ Actor' = Actor /\ Actor.pc = "idle" /\ phase = "up"
      /\ UNCHANGED <<active, turn, todo, phase>>
  BY DEF TypeOK, Enqueue, Admitted, ActorIdle, Actor
<1>2. ActiveInv' /\ WorkInv'
  BY <1>1 DEF RunsInv, ActiveInv, WorkInv, Unstarted, Controlling, Replaying
<1>3. /\ Len(memQueue') = Len(memQueue) + 1 /\ DOMAIN memQueue = 1 .. Len(memQueue)
      /\ DOMAIN memQueue' = 1 .. Len(memQueue')
      /\ \A i \in 1 .. Len(memQueue) : memQueue'[i] = memQueue[i] /\ state[memQueue[i]] = "queued"
      /\ \A i \in DOMAIN memQueue' : i = Len(memQueue') \/ i \in DOMAIN memQueue
      /\ memQueue'[Len(memQueue')] = q
  BY <1>1 DEF RunsInv, QueueInv, Enqueued
<1>4. \A i \in DOMAIN memQueue : memQueue[i] # q
  BY <1>1, <1>3
<1>5. QueueInv'
  <2>1. \A s \in Run : Enqueued(s)' => state'[s] = "queued"
    BY <1>1, <1>3 DEF Enqueued
  <2>2. \A i, j \in DOMAIN memQueue' : memQueue'[i] = memQueue'[j] => i = j
    BY <1>3, <1>4 DEF RunsInv, QueueInv
  <2> QED BY <1>1, <2>1, <2>2 DEF QueueInv
<1> QED BY <1>1, <1>2, <1>5 DEF RunsInv, Lawful

(* A sequence without its k-th element. *)
LEMMA Taken ==
  ASSUME NEW S, NEW q \in Seq(S), NEW k \in 1 .. Len(q)
  PROVE  /\ DOMAIN (SubSeq(q, 1, k - 1) \o SubSeq(q, k + 1, Len(q))) = 1 .. Len(q) - 1
         /\ \A i \in 1 .. Len(q) - 1 :
              (SubSeq(q, 1, k - 1) \o SubSeq(q, k + 1, Len(q)))[i] =
                IF i < k THEN q[i] ELSE q[i + 1]
<1>1. Len(q) \in Nat /\ \A i \in 1 .. Len(q) : q[i] \in S
  OBVIOUS
<1>2. PICK a : a = SubSeq(q, 1, k - 1)
  OBVIOUS
<1>3. PICK b : b = SubSeq(q, k + 1, Len(q))
  OBVIOUS
<1>4. /\ a \in Seq(S) /\ Len(a) = IF 1 <= k - 1 THEN k - 1 - 1 + 1 ELSE 0
      /\ \A i \in 1 .. k - 1 - 1 + 1 : a[i] = q[1 + i - 1]
  <2>1. k - 1 \in Int /\ 1 \in Int /\ \A i \in 1 .. k - 1 : q[i] \in S
    BY <1>1
  <2> QED BY <1>2, <2>1, SubSeqProperties
<1>5. /\ b \in Seq(S) /\ Len(b) = IF k + 1 <= Len(q) THEN Len(q) - (k + 1) + 1 ELSE 0
      /\ \A i \in 1 .. Len(q) - (k + 1) + 1 : b[i] = q[k + 1 + i - 1]
  <2>1. k + 1 \in Int /\ Len(q) \in Int /\ \A i \in k + 1 .. Len(q) : q[i] \in S
    BY <1>1
  <2> QED BY <1>3, <2>1, SubSeqProperties
<1>6. Len(a) = k - 1 /\ Len(b) = Len(q) - k
  BY <1>1, <1>4, <1>5
<1>7. \A i \in 1 .. k - 1 : a[i] = q[i]
  BY <1>4
<1>8. \A i \in 1 .. Len(q) - k : b[i] = q[i + k]
  <2>1. \A i \in 1 .. Len(q) - k : i \in 1 .. Len(q) - (k + 1) + 1 /\ k + 1 + i - 1 = i + k
    BY <1>1
  <2> QED BY <1>5, <2>1
<1>9. /\ Len(a \o b) = Len(a) + Len(b) /\ a \o b \in Seq(S)
      /\ \A i \in 1 .. Len(a) + Len(b) :
           (a \o b)[i] = IF i <= Len(a) THEN a[i] ELSE b[i - Len(a)]
  BY <1>4, <1>5, ConcatProperties
<1>10. DOMAIN (a \o b) = 1 .. Len(a \o b) /\ Len(a) + Len(b) = Len(q) - 1
  BY <1>1, <1>6, <1>9
<1>11. ASSUME NEW i \in 1 .. Len(q) - 1 PROVE (a \o b)[i] = IF i < k THEN q[i] ELSE q[i + 1]
  <2>1. CASE i < k
    BY <1>1, <1>6, <1>7, <1>9, <1>10, <2>1
  <2>2. CASE ~(i < k)
    <3>1. (a \o b)[i] = b[i - (k - 1)] /\ i - (k - 1) \in 1 .. Len(q) - k
      BY <1>1, <1>6, <1>9, <1>10, <2>2
    <3>2. i - (k - 1) + k = i + 1
      OBVIOUS
    <3> QED BY <1>8, <2>2, <3>1, <3>2
  <2> QED BY <2>1, <2>2
<1> QED BY <1>2, <1>3, <1>9, <1>10, <1>11

(* The run is taken from where it is in the queue. *)
LEMMA WithoutOne ==
  ASSUME NEW S, NEW q \in Seq(S), NEW r,
         \A i, j \in DOMAIN q : q[i] = q[j] => i = j
  PROVE  /\ \A i \in DOMAIN Without(q, r) : Without(q, r)[i] # r
                                              /\ \E j \in DOMAIN q : q[j] = Without(q, r)[i]
         /\ \A i, j \in DOMAIN Without(q, r) : Without(q, r)[i] = Without(q, r)[j] => i = j
<1>1. CASE ~\E i \in DOMAIN q : q[i] = r
  BY <1>1 DEF Without
<1>2. CASE \E i \in DOMAIN q : q[i] = r
  <2>1. PICK k \in 1 .. Len(q) :
          q[k] = r /\ Without(q, r) = SubSeq(q, 1, k - 1) \o SubSeq(q, k + 1, Len(q))
    <3>1. (CHOOSE i \in DOMAIN q : q[i] = r) \in DOMAIN q /\ q[CHOOSE i \in DOMAIN q : q[i] = r] = r
      BY <1>2
    <3>2. DOMAIN q = 1 .. Len(q)
      OBVIOUS
    <3> QED BY <1>2, <3>1, <3>2, Zenon DEF Without
  <2>2. PICK w : w = Without(q, r)
    OBVIOUS
  <2>3. /\ DOMAIN w = 1 .. Len(q) - 1
        /\ \A i \in 1 .. Len(q) - 1 : w[i] = IF i < k THEN q[i] ELSE q[i + 1]
    BY <2>1, <2>2, Taken
  <2>4. DOMAIN q = 1 .. Len(q) /\ Len(q) \in Nat
    OBVIOUS
  <2>5. \A i \in DOMAIN w : \E j \in DOMAIN q : w[i] = q[j] /\ j # k /\ j = IF i < k THEN i ELSE i + 1
    <3> SUFFICES ASSUME NEW i \in 1 .. Len(q) - 1
                 PROVE  \E j \in 1 .. Len(q) : /\ w[i] = q[j] /\ j # k
                                               /\ j = IF i < k THEN i ELSE i + 1
      BY <2>3, <2>4
    <3>1. CASE i < k
      <4>1. w[i] = q[i] /\ i \in 1 .. Len(q) /\ i # k
        BY <2>3, <2>4, <3>1
      <4> QED BY <3>1, <4>1
    <3>2. CASE ~(i < k)
      <4>1. w[i] = q[i + 1] /\ i + 1 \in 1 .. Len(q) /\ i + 1 # k
        BY <2>3, <2>4, <3>2
      <4> QED BY <3>2, <4>1
    <3> QED BY <3>1, <3>2
  <2>6. ASSUME NEW i \in DOMAIN w, NEW j \in DOMAIN w, w[i] = w[j] PROVE i = j
    <3>1. PICK m \in DOMAIN q : w[i] = q[m] /\ m = IF i < k THEN i ELSE i + 1
      BY <2>5
    <3>2. PICK n \in DOMAIN q : w[j] = q[n] /\ n = IF j < k THEN j ELSE j + 1
      BY <2>5
    <3>3. m = n
      BY <2>6, <3>1, <3>2
    <3> QED BY <2>3, <2>4, <3>1, <3>2, <3>3
  <2>7. \A i \in DOMAIN w : w[i] # r /\ \E j \in DOMAIN q : q[j] = w[i]
    BY <2>1, <2>4, <2>5
  <2> QED BY <2>2, <2>6, <2>7
<1> QED BY <1>1, <1>2

LEMMA RunsRemove ==
  ASSUME TypeOK, OwnerInv, RunsInv, NEW q \in Run, RemoveQueued(q) PROVE RunsInv' /\ Lawful(q)
<1>1. /\ state[q] = "queued" /\ state'[q] = "interrupted"
      /\ \A s \in Run : s # q => state'[s] = state[s]
      /\ memQueue \in Seq(Run) /\ memQueue' = Without(memQueue, q)
      /\ Actor' = Actor /\ Actor.pc = "idle" /\ phase = "up"
      /\ UNCHANGED <<active, turn, todo, phase>>
  BY DEF TypeOK, RemoveQueued, Admitted, ActorIdle, Actor
<1>2. ActiveInv' /\ WorkInv'
  BY <1>1 DEF RunsInv, ActiveInv, WorkInv, Unstarted, Controlling, Replaying
<1>3. \A i, j \in DOMAIN memQueue : memQueue[i] = memQueue[j] => i = j
  BY DEF RunsInv, QueueInv
<1>4. /\ \A i \in DOMAIN memQueue' : memQueue'[i] # q
                                       /\ \E j \in DOMAIN memQueue : memQueue[j] = memQueue'[i]
      /\ \A i, j \in DOMAIN memQueue' : memQueue'[i] = memQueue'[j] => i = j
  BY <1>1, <1>3, WithoutOne
<1>5. QueueInv'
  <2>1. \A s \in Run : Enqueued(s)' => s # q /\ Enqueued(s)
    BY <1>4 DEF Enqueued
  <2> QED BY <1>1, <1>4, <2>1 DEF RunsInv, QueueInv
<1> QED BY <1>1, <1>2, <1>5 DEF RunsInv, Lawful, Parked

LEMMA RunsResume ==
  ASSUME TypeOK, OwnerInv, RunsInv, NEW q \in Run, Resume(q) PROVE RunsInv' /\ Lawful(q)
<1>1. /\ state[q] \in {"interrupted", "paused_budget"}
      /\ Actor'.pc = "start" /\ Actor'.run = q /\ Actor'.resume
      /\ UNCHANGED <<state, active, memQueue, turn, todo, phase>>
  BY DEF TypeOK, Resume, StartRun, Actor, Worker
<1>2. ~Enqueued(Actor'.run)
  BY <1>1 DEF RunsInv, QueueInv, Enqueued
<1>3. RunsInv'
  BY <1>1, <1>2, RunsKept DEF Unstarted
<1> QED BY <1>1, <1>3 DEF Lawful

LEMMA RunsResolve ==
  ASSUME TypeOK, OwnerInv, RunsInv, NEW q \in Run, NEW resolution \in {"fail", "mark_done", "retry"},
         ResolveUncertain(q, resolution)
  PROVE  RunsInv' /\ Lawful(q)
<1>1. /\ state[q] = "paused_uncertain" /\ Actor.pc = "idle"
      /\ state'[q] \in {"failed", "preparing"}
      /\ \A s \in Run : s # q => state'[s] = state[s]
      /\ UNCHANGED <<active, memQueue, turn, todo, phase>>
      /\ \A s \in Run : state[s] \notin Owning
  BY NobodyOwns DEF TypeOK, ResolveUncertain, Admitted, ActorIdle, Actor
<1>2. \/ Actor' = Actor
      \/ Actor'.pc \in {"markDone", "replay"} /\ Actor'.run = q /\ state'[q] = "preparing"
  <2>0. job \in [Worker -> JobRecord]
    BY DEF TypeOK
  <2>1. CASE UNCHANGED job
    BY <2>1 DEF Actor
  <2>2. CASE /\ resolution # "fail"
             /\ \/ job' = [job EXCEPT !["actor"] = [IdleJob EXCEPT !.pc = "markDone", !.run = q]]
                \/ job' = [job EXCEPT !["actor"] = [IdleJob EXCEPT !.pc = "replay", !.run = q]]
    <3>1. state \in [Run -> RunStates \cup {"absent"}]
      BY DEF TypeOK
    <3>2. state'[q] = "preparing"
      BY <2>2, <3>1 DEF ResolveUncertain
    <3> QED BY <2>0, <2>2, <3>2 DEF Actor, Worker, IdleJob
  <2> QED BY <2>1, <2>2 DEF ResolveUncertain
<1>3. RunsInv'
  <2>1. ~Enqueued(q)
    BY <1>1 DEF RunsInv, QueueInv
  <2> QED BY <1>1, <1>2, <2>1, RunsKept DEF Unstarted, Controlling, Replaying, Owning
<1> QED BY <1>1, <1>3 DEF Lawful, Terminal, Owning, Parked, RunStates

LEMMA RunsCommand ==
  ASSUME TypeOK, TypeOK', OwnerInv, RunsInv, Command PROVE RunsInv' /\ LifeStep
<1>1. ASSUME NEW q \in Run, Lawful(q) PROVE LifeStep
  BY <1>1, LawfulLife
<1>2. ASSUME NEW q \in Run, NEW c \in Call, NEW decision \in Decision,
             ApprovalResponse(q, c, decision)
      PROVE  RunsInv'
  <2>1. Actor'.pc \in {"idle", "wait", "claim"}
    BY <1>2 DEF TypeOK, ApprovalResponse, Admitted, ActorIdle, Actor, Worker
  <2> QED BY <1>2, <2>1, RunsKept DEF ApprovalResponse, Controlling
<1>3. ASSUME NEW q \in Run, NEW c \in Call, InteractionResponse(q, c) PROVE RunsInv'
  <2>1. Actor'.pc \in {"idle", "wait", "claimAnswer"}
    BY <1>3 DEF TypeOK, InteractionResponse, Answer, Admitted, ActorIdle, Actor, Worker
  <2>2. \A s \in Run : turn'[s].pc = turn[s].pc
    BY <1>3 DEF TypeOK, InteractionResponse, Answer, TurnRecord
  <2> QED BY <1>3, <2>1, <2>2, RunsKept DEF InteractionResponse, Answer, Controlling
<1>4. ASSUME Interrupt PROVE RunsInv'
  <2>1. \A s \in Run : turn'[s].pc = turn[s].pc
    BY <1>4 DEF TypeOK, Interrupt, TurnRecord
  <2>2. Actor'.pc = "idle"
    BY <1>4 DEF Interrupt, Admitted, ActorIdle, Actor
  <2> QED BY <1>4, <2>1, <2>2, RunsKept DEF Interrupt, Controlling
<1>5. ASSUME \/ \E q \in Run, c \in Call, decision \in Decision : ApprovalResponse(q, c, decision)
             \/ \E q \in Run, c \in Call : InteractionResponse(q, c)
             \/ Interrupt
      PROVE  LifeStep
  BY <1>5 DEF ApprovalResponse, InteractionResponse, Answer, Interrupt, LifeStep, Status
<1> QED
  BY <1>1, <1>2, <1>3, <1>4, <1>5, RunsSubmit, RunsEnqueue, RunsRemove, RunsResume, RunsResolve
  DEF Command

LEMMA RunsTask ==
  ASSUME TypeOK, OwnerInv, RunsInv, ActorTask \/ PauseThread PROVE RunsInv' /\ LifeStep
<1>1. CASE ActorTask
  <2>1. Actor'.pc \in {"idle", "wait", "return"}
    <3>0. job \in [Worker -> JobRecord]
      BY DEF TypeOK
    <3>1. ASSUME NEW name \in {"drain", "afterTurn"}, RunTask(name)
          PROVE  Actor'.pc \in {"wait", "return"}
      BY <3>0, <3>1 DEF RunTask, Actor, Worker, IdleJob
    <3>2. ASSUME NEW decision, DecideMarked(decision) PROVE Actor'.pc = "wait"
      BY <3>0, <3>2 DEF DecideMarked, Actor, Worker, IdleJob
    <3>3. ASSUME PauseApproval PROVE Actor'.pc \in {"idle", "wait"}
      BY <3>2, <3>3 DEF PauseApproval, Task, ActorIdle, Actor
    <3> QED BY <1>1, <3>1, <3>2, <3>3 DEF ActorTask, RecoveredApprovalTimeout
  <2>2. UNCHANGED <<state, active, memQueue, turn, todo, phase>>
    BY <1>1 DEF ActorTask, RunTask, PauseApproval, RecoveredApprovalTimeout
  <2> QED BY <2>1, <2>2, RunsKept DEF Controlling, LifeStep, Status
<1>2. CASE PauseThread
  <2>1. \A s \in Run : turn'[s].pc = turn[s].pc
    BY <1>2 DEF TypeOK, PauseThread, TurnRecord
  <2>2. /\ Actor' = Actor /\ UNCHANGED <<state, active, memQueue, todo, phase>>
        /\ (Enqueued(Actor.run) <=> Enqueued(Actor'.run))
    BY <1>2 DEF PauseThread, Actor
  <2> QED BY <2>1, <2>2, RunsKept DEF RunsInv, WorkInv, QueueInv, LifeStep, Status
<1> QED BY <1>1, <1>2

-----------------------------------------------------------------------------
(* The actor's job.                                                        *)

(* The job of a run that has begun, or is starting, goes on or ends. *)
LEMMA RunsWorks ==
  ASSUME TypeOK, TypeOK', OwnerInv, RunsInv, NEW q \in Run, ~Enqueued(q), state[q] # "absent",
         UNCHANGED <<active, memQueue, turn, todo>>,
         phase' = phase \/ phase' = "broken",
         \A s \in Run : s # q => state'[s] = state[s],
         \/ state'[q] = state[q]
         \/ state[q] \in Owning /\ state'[q] \in RunStates \ Unstarted
         \/ state[q] \in RunStates /\ state'[q] \in Terminal
         \/ /\ state[q] \in Parked \cup {"queued"} /\ state'[q] \in Owning
            /\ \A s \in Run : state[s] \notin Owning,
         \/ Actor'.pc \notin Controlling
         \/ /\ Actor'.pc \in Controlling /\ Actor'.run = q /\ state'[q] \notin Unstarted
            /\ Actor'.pc \in Replaying => state'[q] \in Owning
            /\ Actor'.pc = "start" => Actor'.resume
  PROVE  RunsInv' /\ LifeStep
<1>1. Lawful(q)
  BY DEF Lawful
<1>2. state'[q] = state[q] \/ state'[q] \notin Unstarted
  BY DEF Unstarted, Terminal, Owning, Waiting
<1>3. /\ \A s \in Run :
           /\ state'[s] \in Unstarted => state[s] \in Unstarted
           /\ state'[s] = "absent" => state[s] = "absent"
           /\ Enqueued(s) => state'[s] = state[s]
           /\ turn'[s].pc = "none" <=> turn[s].pc = "none"
           /\ todo'[s] # "done" => todo[s] # "done"
      /\ phase' = phase \/ phase' \notin {"down", "recovering"}
      /\ UNCHANGED <<active, memQueue>>
  BY <1>2 DEF Unstarted
<1>4. RunsInv'
  <2>1. CASE Actor'.pc \notin Controlling
    BY <1>3, <2>1, RunsKept
  <2>2. CASE Actor'.pc \in Controlling /\ Actor'.pc # "start"
    BY <1>3, <2>2, RunsKept
  <2>3. CASE Actor'.pc = "start"
    <3>1. Actor'.run = q /\ Actor'.resume /\ state'[q] \notin Unstarted
      BY <2>3 DEF Controlling
    <3>2. ~Enqueued(Actor'.run)
      BY <3>1 DEF Enqueued
    <3> QED BY <1>3, <2>3, <3>1, <3>2, RunsKept DEF Unstarted
  <2> QED BY <2>1, <2>2, <2>3
<1> QED BY <1>1, <1>4, LawfulLife

(* What the job knows of the run it works on. *)
LEMMA JobRun ==
  ASSUME TypeOK, OwnerInv, RunsInv, NEW q, q = Actor.run, Actor.pc \in Controlling
  PROVE  /\ q \in Run /\ ~Enqueued(q) /\ state[q] \in RunStates
         /\ Actor.pc # "start" => state[q] \notin Unstarted
         /\ Actor.pc = "start" /\ ~Actor.resume => state[q] = "queued"
         /\ Actor.pc \in Replaying => state[q] \in Owning
         /\ state[q] \notin Owning => \A s \in Run : state[s] \notin Owning
<1>1. q \in Run
  BY DEF OwnerInv, ActorInv
<1>2. state[q] \in RunStates \cup {"absent"}
  BY <1>1 DEF TypeOK
<1>3. ~Enqueued(q) /\ state[q] # "absent"
  BY <1>1 DEF RunsInv, WorkInv, QueueInv, Unstarted
<1>4. state[q] \notin Owning => \A s \in Run : state[s] \notin Owning
  BY <1>1 DEF OwnerInv, Alone, Claimant, Named
<1> QED BY <1>1, <1>2, <1>3, <1>4 DEF RunsInv, WorkInv

LEMMA RunsStarts ==
  ASSUME TypeOK, TypeOK', OwnerInv, RunsInv, StartFails("actor") \/ StartPrepares("actor")
  PROVE  RunsInv' /\ LifeStep
<1>1. PICK q : q = Actor.run
  OBVIOUS
<1>2. Actor.pc = "start" /\ Actor.pc \in Controlling
  BY DEF StartFails, StartPrepares, Actor, Controlling
<1>3. /\ q \in Run /\ ~Enqueued(q) /\ state[q] \in RunStates /\ state[q] # "absent"
      /\ ~Actor.resume => state[q] = "queued"
      /\ state[q] \notin Owning => \A s \in Run : state[s] \notin Owning
  BY <1>1, <1>2, JobRun DEF RunStates
<1>4. state \in [Run -> RunStates \cup {"absent"}]
  BY DEF TypeOK
<1>5. CASE StartFails("actor")
  <2>1. Actor'.pc \notin Controlling /\ (phase' = phase \/ phase' = "broken")
    BY <1>5, ActorThrows DEF StartFails, IdleJob, Controlling
  <2>2. /\ \A s \in Run : s # q => state'[s] = state[s]
        /\ state'[q] = state[q] \/ state'[q] = "failed"
    BY <1>1, <1>3, <1>4, <1>5 DEF StartFails, Actor
  <2> QED BY <1>3, <1>5, <2>1, <2>2, RunsWorks DEF StartFails, Terminal
<1>6. CASE StartPrepares("actor")
  <2>1. /\ Actor'.pc = "launch" /\ Actor'.run = q
        /\ UNCHANGED <<active, memQueue, turn, todo, phase>>
    BY <1>1, <1>6, ActorSteps DEF StartPrepares
  <2>2. \A s \in Run : s # q => state'[s] = state[s]
    BY <1>1, <1>3, <1>4, <1>6 DEF StartPrepares, Actor
  <2>3. \/ state'[q] = state[q] /\ state[q] \notin Parked \cup {"queued"}
        \/ state'[q] = "preparing" /\ state[q] \in Parked \cup {"queued"}
    BY <1>1, <1>3, <1>4, <1>6 DEF StartPrepares, Actor, Recovering, Parked
  <2>4. CASE state'[q] = state[q] /\ state[q] \notin Parked \cup {"queued"}
    BY <1>3, <2>1, <2>2, <2>4, RunsWorks DEF Controlling, Replaying, Unstarted
  <2>5. CASE state'[q] = "preparing" /\ state[q] \in Parked \cup {"queued"}
    <3>1. state[q] \notin Owning
      BY <2>5 DEF Parked, Owning, Waiting
    <3> QED BY <1>3, <2>1, <2>2, <2>5, <3>1, RunsWorks
            DEF Controlling, Replaying, Unstarted, Owning
  <2> QED BY <2>3, <2>4, <2>5
<1> QED BY <1>5, <1>6

LEMMA RunsLaunch ==
  ASSUME TypeOK, OwnerInv, RunsInv, Launch("actor") PROVE RunsInv' /\ LifeStep
<1>1. PICK q : q = Actor.run
  OBVIOUS
<1>2. Actor.pc = "launch" /\ q \in Run /\ state[q] \notin Unstarted
  BY <1>1, JobRun DEF Launch, Actor, Controlling
<1>3. /\ Actor'.pc = "return" /\ active' = q
      /\ \A s \in Run : s # q => turn'[s] = turn[s]
      /\ turn'[q].pc = "admit"
      /\ UNCHANGED <<state, memQueue, todo, phase>>
  BY <1>1, <1>2, ActorSteps DEF TypeOK, Launch, Actor, NoTurn
<1>4. ActiveInv' /\ WorkInv' /\ QueueInv'
  BY <1>2, <1>3 DEF RunsInv, ActiveInv, WorkInv, QueueInv, Enqueued, Controlling, Replaying
<1> QED BY <1>3, <1>4 DEF RunsInv, LifeStep, Status

(* No record of a run is written, and no job works on one. *)
LEMMA RunsRest ==
  ASSUME TypeOK, OwnerInv, RunsInv, UNCHANGED <<state, active, memQueue, turn, todo>>,
         phase' = phase \/ phase' = "broken", Actor'.pc \notin Controlling
  PROVE  RunsInv' /\ LifeStep
  BY RunsKept DEF LifeStep, Status

LEMMA RunsClaim ==
  ASSUME TypeOK, TypeOK', OwnerInv, RunsInv, Wait("actor") \/ Claim("actor")
  PROVE  RunsInv' /\ LifeStep
<1>0. job \in [Worker -> JobRecord] /\ state \in [Run -> RunStates \cup {"absent"}]
  BY DEF TypeOK
<1>1. CASE Wait("actor")
  <2>1. Actor'.pc \in {"claim", "claimAnswer", "return"}
    BY <1>0, <1>1 DEF Wait, Step, Actor, Worker, JobRecord
  <2> QED BY <1>1, <2>1, RunsRest DEF Wait, Controlling
<1>2. CASE Claim("actor")
  <2>1. PICK q : q = Actor.run
    OBVIOUS
  <2>2. q \in Run /\ Actor.pc = "claim"
    BY <1>2, <2>1 DEF Claim, Actor, OwnerInv, ActorInv
  <2>3. UNCHANGED <<active, memQueue, turn, todo, phase>>
    BY <1>2 DEF Claim
  <2>4. \/ /\ state[q] = "waiting_approval" /\ Decided(q, Actor.call)
           /\ state' = [state EXCEPT ![q] = AfterDecision[approval[q][Actor.call]]]
           /\ Step("actor", "claimed")
        \/ Actor'.pc = "return" /\ state' = state
    <3>1. \/ /\ state[q] = "waiting_approval" /\ Decided(q, Actor.call)
             /\ state' = [state EXCEPT ![q] = AfterDecision[approval[q][Actor.call]]]
             /\ Step("actor", "claimed")
          \/ /\ state' = state
             /\ job' = [job EXCEPT !["actor"].pc = "return", !["actor"].then = @ \ {"finish"}]
      BY <1>2, <2>1, Zenon DEF Claim, Actor
    <3> QED BY <1>0, <3>1 DEF Actor, Worker, JobRecord
  <2>5. CASE Actor'.pc = "return" /\ state' = state
    BY <2>3, <2>5, RunsRest DEF Controlling
  <2>6. CASE /\ state[q] = "waiting_approval" /\ Decided(q, Actor.call)
             /\ state' = [state EXCEPT ![q] = AfterDecision[approval[q][Actor.call]]]
             /\ Step("actor", "claimed")
    <3>1. /\ \A s \in Run : s # q => state'[s] = state[s]
          /\ state'[q] \in RunStates \ Unstarted
      BY <1>0, <2>2, <2>6 DEF Decided, Decision, AfterDecision, RunStates, Unstarted
    <3>2. Actor'.pc = "claimed" /\ Actor'.run = q
      BY <2>1, <2>6, ActorSteps
    <3>3. ~Enqueued(q)
      BY <2>2, <2>6 DEF RunsInv, QueueInv
    <3> QED BY <2>2, <2>3, <2>6, <3>1, <3>2, <3>3, RunsWorks
            DEF Owning, Waiting, Controlling, Replaying
  <2> QED BY <2>4, <2>5, <2>6
<1> QED BY <1>1, <1>2

LEMMA RunsClaimed ==
  ASSUME TypeOK, TypeOK', OwnerInv, RunsInv, Claimed("actor")
  PROVE  RunsInv' /\ LifeStep
<1>1. PICK q : q = Actor.run
  OBVIOUS
<1>2. Actor.pc = "claimed" /\ Actor.pc \in Controlling
  BY DEF Claimed, Actor, Controlling
<1>3. /\ q \in Run /\ ~Enqueued(q) /\ state[q] \in RunStates /\ state[q] \notin Unstarted
      /\ state[q] # "absent"
      /\ state[q] = AfterDecision[approval[q][Actor.call]]
  BY <1>1, <1>2, JobRun DEF RunStates, OwnerInv, ActorInv
<1>4. UNCHANGED <<state, active, memQueue, turn, todo>>
  BY DEF Claimed
<1>5. \/ Actor'.pc \in {"idle", "return"} /\ (phase' = phase \/ phase' = "broken")
      \/ Actor'.pc = "replay" /\ Actor'.run = q /\ state[q] \in Owning /\ phase' = phase
      \/ Actor'.pc = "start" /\ Actor'.run = q /\ Actor'.resume /\ phase' = phase
  <2>1. CASE Throw("actor")
    BY <2>1, ActorThrows DEF IdleJob
  <2>2. CASE approval[q][Actor.call] = "accept" /\ Step("actor", "replay") /\ UNCHANGED phase
    BY <1>1, <1>3, <2>2, ActorSteps DEF AfterDecision, Owning
  <2>3. CASE ResumeRun("actor") /\ UNCHANGED phase
    BY <1>1, <2>3, ActorResumes
  <2>4. CASE Step("actor", "return") /\ UNCHANGED phase
    BY <2>4, ActorSteps
  <2> QED BY <1>1, <2>1, <2>2, <2>3, <2>4 DEF Claimed, Actor
<1>6. CASE Actor'.pc \in {"idle", "return"} /\ (phase' = phase \/ phase' = "broken")
  BY <1>4, <1>6, RunsRest DEF Controlling
<1>7. CASE Actor'.pc = "replay" /\ Actor'.run = q /\ state[q] \in Owning /\ phase' = phase
  BY <1>3, <1>4, <1>7, RunsWorks DEF Controlling
<1>8. CASE Actor'.pc = "start" /\ Actor'.run = q /\ Actor'.resume /\ phase' = phase
  BY <1>3, <1>4, <1>8, RunsWorks DEF Replaying
<1> QED BY <1>5, <1>6, <1>7, <1>8

LEMMA RunsClaimAnswer ==
  ASSUME TypeOK, TypeOK', OwnerInv, RunsInv, ClaimAnswer("actor")
  PROVE  RunsInv' /\ LifeStep
<1>1. PICK q : q = Actor.run
  OBVIOUS
<1>2. q \in Run
  BY <1>1 DEF ClaimAnswer, Actor, OwnerInv, ActorInv
<1>3. UNCHANGED <<active, memQueue, turn, todo, phase>>
  BY DEF ClaimAnswer
<1>4. \/ /\ state[q] = "waiting_interaction"
         /\ Write(q, "streaming_model", NoTool) /\ ResumeRun("actor")
      \/ Step("actor", "return") /\ state' = state
  BY <1>1, Zenon DEF ClaimAnswer, Actor
<1>5. CASE Step("actor", "return") /\ state' = state
  BY <1>3, <1>5, ActorSteps, RunsRest DEF Controlling
<1>6. CASE /\ state[q] = "waiting_interaction"
           /\ Write(q, "streaming_model", NoTool) /\ ResumeRun("actor")
  <2>1. /\ \A s \in Run : s # q => state'[s] = state[s]
        /\ state'[q] = "streaming_model"
    BY <1>2, <1>6 DEF TypeOK, Write
  <2>2. Actor'.pc = "start" /\ Actor'.run = q /\ Actor'.resume
    BY <1>1, <1>6, ActorResumes
  <2>3. ~Enqueued(q)
    BY <1>2, <1>6 DEF RunsInv, QueueInv
  <2> QED BY <1>2, <1>3, <1>6, <2>1, <2>2, <2>3, RunsWorks
          DEF Owning, Waiting, RunStates, Unstarted, Replaying
<1> QED BY <1>4, <1>5, <1>6

(* What the steps of a replay have in common. *)
LEMMA RunsReplays ==
  ASSUME TypeOK, TypeOK', OwnerInv, RunsInv, NEW q, q = Actor.run,
         Actor.pc \in Replaying \cup {"quarantine"},
         UNCHANGED <<active, memQueue, turn, todo, phase>>,
         \/ state[q] \in Owning /\ Write(q, "streaming_model", NoTool) /\ ResumeRun("actor")
         \/ /\ state[q] \in Owning
            /\ \E to \in {"failed"} \cup Parked : \E newTool : Write(q, to, newTool)
            /\ Step("actor", "return") \/ Step("actor", "quarantine")
         \/ /\ state[q] \in Owning
            /\ Write(q, "executing_tool", tool[q]) \/ UNCHANGED state
            /\ \E pc \in {"validate", "dispatch", "replaying"} : Step("actor", pc)
         \/ Step("actor", "return") /\ UNCHANGED state
  PROVE  RunsInv' /\ LifeStep
<1>1. Actor.pc \in Controlling /\ Actor.pc # "start"
  BY DEF Controlling, Replaying
<1>2. q \in Run /\ ~Enqueued(q) /\ state[q] \in RunStates /\ state[q] # "absent"
  BY <1>1, JobRun DEF RunStates
<1>3. state \in [Run -> RunStates \cup {"absent"}]
  BY DEF TypeOK
<1>4. ASSUME NEW to, NEW newTool, Write(q, to, newTool)
      PROVE  (\A s \in Run : s # q => state'[s] = state[s]) /\ state'[q] = to
  BY <1>2, <1>3, <1>4 DEF Write
<1>5. CASE state[q] \in Owning /\ Write(q, "streaming_model", NoTool) /\ ResumeRun("actor")
  <2>1. (\A s \in Run : s # q => state'[s] = state[s]) /\ state'[q] = "streaming_model"
    BY <1>4, <1>5
  <2>2. Actor'.pc = "start" /\ Actor'.run = q /\ Actor'.resume
    BY <1>5, ActorResumes
  <2> QED BY <1>2, <1>5, <2>1, <2>2, RunsWorks DEF Owning, RunStates, Unstarted, Replaying
<1>6. CASE /\ state[q] \in Owning
           /\ \E to \in {"failed"} \cup Parked : \E newTool : Write(q, to, newTool)
           /\ Step("actor", "return") \/ Step("actor", "quarantine")
  <2>1. (\A s \in Run : s # q => state'[s] = state[s]) /\ state'[q] \in {"failed"} \cup Parked
    BY <1>4, <1>6
  <2>2. Actor'.pc \in {"return", "quarantine"} /\ Actor'.run = q
    BY <1>6, ActorSteps
  <2> QED BY <1>2, <1>6, <2>1, <2>2, RunsWorks
          DEF Parked, RunStates, Unstarted, Replaying, Controlling
<1>7. CASE /\ state[q] \in Owning
           /\ Write(q, "executing_tool", tool[q]) \/ UNCHANGED state
           /\ \E pc \in {"validate", "dispatch", "replaying"} : Step("actor", pc)
  <2>1. /\ \A s \in Run : s # q => state'[s] = state[s]
        /\ state'[q] \in {"executing_tool", state[q]}
    BY <1>4, <1>7
  <2>2. Actor'.pc \in {"validate", "dispatch", "replaying"} /\ Actor'.run = q
    BY <1>7, ActorSteps
  <2> QED BY <1>2, <1>7, <2>1, <2>2, RunsWorks
          DEF Owning, Waiting, RunStates, Unstarted, Replaying, Controlling
<1>8. CASE Step("actor", "return") /\ UNCHANGED state
  BY <1>8, ActorSteps, RunsRest DEF Controlling
<1> QED BY <1>5, <1>6, <1>7, <1>8

LEMMA RunsMarkDone ==
  ASSUME TypeOK, TypeOK', OwnerInv, RunsInv, MarkDone("actor")
  PROVE  RunsInv' /\ LifeStep
<1>1. PICK q : q = Actor.run
  OBVIOUS
<1>2. Actor.pc \in Replaying /\ Actor.pc \in Controlling /\ HasTool(q)
  BY <1>1 DEF MarkDone, Actor, Replaying, Controlling, OwnerInv, ActorInv
<1>3. state[q] \in Owning
  BY <1>1, <1>2, JobRun
<1> QED BY <1>1, <1>2, <1>3, RunsReplays DEF MarkDone, Actor

LEMMA RunsReplay ==
  ASSUME TypeOK, TypeOK', OwnerInv, RunsInv,
         \/ Replay("actor") \/ Validate("actor") \/ ReplayDispatch("actor")
         \/ ReplaySettles("actor") \/ ReplayTimeout("actor") \/ Quarantine("actor")
  PROVE  RunsInv' /\ LifeStep
<1>1. PICK q : q = Actor.run
  OBVIOUS
<1>2. Actor.pc \in Replaying \cup {"quarantine"} /\ Actor.pc \in Controlling
  BY DEF Replay, Validate, ReplayDispatch, ReplaySettles, ReplayTimeout, Quarantine, Actor,
         Replaying, Controlling
<1>3. Actor.pc # "quarantine" => state[q] \in Owning
  BY <1>1, <1>2, JobRun
<1> USE <1>1, <1>2, <1>3, RunsReplays DEF Actor, Parked
<1>4. CASE Replay("actor")
  BY <1>4 DEF Replay
<1>5. CASE Validate("actor")
  BY <1>5 DEF Validate
<1>6. CASE ReplayDispatch("actor")
  BY <1>6 DEF ReplayDispatch
<1>7. CASE ReplaySettles("actor")
  BY <1>7 DEF ReplaySettles
<1>8. CASE ReplayTimeout("actor")
  BY <1>8 DEF ReplayTimeout
<1>9. CASE Quarantine("actor")
  BY <1>9 DEF Quarantine
<1> QED BY <1>4, <1>5, <1>6, <1>7, <1>8, <1>9

(* The queue without its first run. *)
LEMMA Dequeued ==
  ASSUME NEW S, NEW q \in Seq(S), q # <<>>,
         \A i, j \in DOMAIN q : q[i] = q[j] => i = j
  PROVE  /\ Head(q) \in S /\ \E i \in DOMAIN q : q[i] = Head(q)
         /\ \A i \in DOMAIN Tail(q) : Tail(q)[i] # Head(q)
                                        /\ \E j \in DOMAIN q : q[j] = Tail(q)[i]
         /\ \A i, j \in DOMAIN Tail(q) : Tail(q)[i] = Tail(q)[j] => i = j
<1>1. /\ Head(q) \in S /\ Tail(q) \in Seq(S) /\ Len(Tail(q)) = Len(q) - 1
      /\ \A i \in 1 .. Len(Tail(q)) : Tail(q)[i] = q[i + 1]
  BY HeadTailProperties
<1>2. /\ DOMAIN q = 1 .. Len(q) /\ Len(q) \in Nat \ {0} /\ Head(q) = q[1]
      /\ DOMAIN Tail(q) = 1 .. Len(q) - 1
  BY <1>1
<1>3. \A i \in DOMAIN Tail(q) : /\ i + 1 \in DOMAIN q /\ 1 \in DOMAIN q /\ i + 1 # 1
                                /\ Tail(q)[i] = q[i + 1]
  BY <1>1, <1>2
<1>4. ASSUME NEW i \in DOMAIN Tail(q), NEW j \in DOMAIN Tail(q), Tail(q)[i] = Tail(q)[j]
      PROVE  i = j
  <2>1. i + 1 = j + 1
    BY <1>3, <1>4
  <2> QED BY <1>2, <2>1
<1>5. \A i \in DOMAIN Tail(q) : Tail(q)[i] # Head(q) /\ \E j \in DOMAIN q : q[j] = Tail(q)[i]
  BY <1>2, <1>3
<1> QED BY <1>1, <1>2, <1>4, <1>5

LEMMA NextIsQueued == ASSUME TypeOK, NextQueued # NoRun PROVE NextQueued \in Run /\ state[NextQueued] = "queued"
<1> DEFINE oldest == {i \in DOMAIN arrived :
                        /\ arrived[i] \in Queued
                        /\ \A j \in 1 .. i - 1 : arrived[j] \notin Queued}
<1>1. (CHOOSE i \in oldest : TRUE) \in oldest
  BY DEF NextQueued
<1>2. NextQueued = arrived[CHOOSE i \in oldest : TRUE]
  BY DEF NextQueued
<1>3. arrived[CHOOSE i \in oldest : TRUE] \in Queued
  BY <1>1
<1> QED BY <1>2, <1>3 DEF Queued

LEMMA RunsReturn ==
  ASSUME TypeOK, OwnerInv, RunsInv, Return("actor") PROVE RunsInv' /\ LifeStep
<1>0. memQueue \in Seq(Run) /\ job \in [Worker -> JobRecord]
  BY DEF TypeOK
<1>1. UNCHANGED <<state, active, turn, todo, phase>>
  BY DEF Return
<1>2. \/ memQueue' = memQueue /\ Actor'.pc = "idle"
      \/ /\ memQueue' = memQueue /\ memQueue = <<>> /\ NextQueued # NoRun
         /\ Actor'.pc = "start" /\ Actor'.run = NextQueued
      \/ /\ memQueue # <<>> /\ memQueue' = Tail(memQueue)
         /\ Actor'.pc = "start" /\ Actor'.run = Head(memQueue)
  <2>1. ASSUME NEW next, NEW then, StartRun("actor", next, FALSE, then)
        PROVE  Actor'.pc = "start" /\ Actor'.run = next
    BY <1>0, <2>1 DEF StartRun, Actor, Worker
  <2>2. ASSUME job' = [job EXCEPT !["actor"] = IdleJob] PROVE Actor'.pc = "idle"
    BY <1>0, <2>2 DEF Actor, Worker, IdleJob
  <2>3. \/ memQueue' = memQueue /\ job' = [job EXCEPT !["actor"] = IdleJob]
        \/ /\ memQueue' = memQueue /\ memQueue = <<>> /\ NextQueued # NoRun
           /\ \E then : StartRun("actor", NextQueued, FALSE, then)
        \/ /\ memQueue # <<>> /\ memQueue' = Tail(memQueue)
           /\ \E then : StartRun("actor", Head(memQueue), FALSE, then)
    BY Zenon DEF Return
  <2> QED BY <2>1, <2>2, <2>3
<1>3. CASE memQueue' = memQueue /\ Actor'.pc = "idle"
  BY <1>1, <1>3, RunsRest DEF Controlling
<1>4. CASE /\ memQueue' = memQueue /\ memQueue = <<>> /\ NextQueued # NoRun
           /\ Actor'.pc = "start" /\ Actor'.run = NextQueued
  <2>1. NextQueued \in Run /\ state[NextQueued] = "queued"
    BY <1>4, NextIsQueued
  <2>2. \A r \in Run : ~Enqueued(r)
    BY <1>4 DEF Enqueued
  <2>3. ~Enqueued(Actor'.run)
    BY <1>4, <2>1, <2>2
  <2> QED BY <1>1, <1>4, <2>1, <2>3, RunsKept DEF LifeStep, Status
<1>5. CASE /\ memQueue # <<>> /\ memQueue' = Tail(memQueue)
           /\ Actor'.pc = "start" /\ Actor'.run = Head(memQueue)
  <2>1. /\ Head(memQueue) \in Run /\ Enqueued(Head(memQueue))
        /\ \A i \in DOMAIN memQueue' : memQueue'[i] # Head(memQueue)
                                         /\ \E j \in DOMAIN memQueue : memQueue[j] = memQueue'[i]
        /\ \A i, j \in DOMAIN memQueue' : memQueue'[i] = memQueue'[j] => i = j
    BY <1>0, <1>5, Dequeued DEF RunsInv, QueueInv, Enqueued
  <2>2. state[Head(memQueue)] = "queued" /\ phase \notin {"down", "recovering"}
    BY <1>5, <2>1 DEF RunsInv, QueueInv
  <2>3. WorkInv'
    BY <1>1, <1>5, <2>2 DEF RunsInv, WorkInv, Controlling, Replaying
  <2>4. QueueInv'
    <3>1. \A r \in Run : Enqueued(r)' => Enqueued(r) /\ r # Head(memQueue)
      BY <2>1 DEF Enqueued
    <3>2. \A r \in Run : Enqueued(r)' => state'[r] = "queued"
      BY <1>1, <3>1 DEF RunsInv, QueueInv
    <3>3. ~Enqueued(Actor.run)'
      BY <1>5, <2>1 DEF Enqueued
    <3> QED BY <1>1, <2>1, <2>2, <3>2, <3>3 DEF QueueInv
  <2> QED BY <1>1, <2>3, <2>4 DEF RunsInv, ActiveInv, LifeStep, Status
<1> QED BY <1>2, <1>3, <1>4, <1>5

LEMMA RunsJobStep ==
  ASSUME TypeOK, TypeOK', OwnerInv, RunsInv, NEW w \in Worker, JobStep(w)
  PROVE  RunsInv' /\ LifeStep
<1>1. w = "actor"
  <2>1. job["auto"].pc = "idle"
    BY DEF OwnerInv, ActorInv
  <2>2. job[w].pc # "idle"
    BY DEF JobStep, StartFails, StartPrepares, Launch, Return, Wait, Claim, Claimed, ClaimAnswer,
           MarkDone, Replay, Validate, ReplayDispatch, ReplaySettles, ReplayTimeout, Quarantine
  <2> QED BY <2>1, <2>2 DEF Worker
<1> QED
  BY <1>1, RunsStarts, RunsLaunch, RunsReturn, RunsClaim, RunsClaimed, RunsClaimAnswer,
     RunsMarkDone, RunsReplay DEF JobStep

-----------------------------------------------------------------------------
(* Crashes and restarts.                                                   *)

LEMMA RunsCrash == ASSUME TypeOK, OwnerInv, RunsInv, Crash PROVE RunsInv' /\ LifeStep
<1>1. /\ Actor'.pc = "idle" /\ active' = NoRun /\ memQueue' = <<>> /\ state' = state
      /\ \A s \in Run : turn'[s].pc = "none" /\ todo'[s] = "done"
  BY DEF Crash, Actor, Worker, IdleJob, NoTurn
<1>2. ActiveInv' /\ WorkInv' /\ QueueInv'
  BY <1>1, RunAssumption DEF ActiveInv, WorkInv, QueueInv, Enqueued, Controlling, Replaying
<1> QED BY <1>1, <1>2 DEF RunsInv, LifeStep, Status

(* Only a run that owned the thread is found in another state. *)
LEMMA Recovered ==
  ASSUME NEW s \in RunStates, NEW safe \in BOOLEAN
  PROVE  /\ RecoveredState(s, safe) \in RunStates
         /\ RecoveredState(s, safe) # s => s \in Owning
  BY DEF RunStates, RecoveredState, Owning, Waiting

LEMMA RunsBoot == ASSUME TypeOK, TypeOK', OwnerInv, RunsInv, Boot PROVE RunsInv' /\ LifeStep
<1> DEFINE open == {r \in Run : state[r] \notin Terminal \cup {"absent"}}
<1>0. /\ phase = "down" /\ active = NoRun /\ memQueue = <<>> /\ Actor.pc = "idle"
      /\ \A s \in Run : turn[s].pc = "none"
      /\ UNCHANGED <<turn, active, memQueue, job>>
  BY RunAssumption DEF Boot, OwnerInv, PhaseInv, TurnInv, Quiet, RunsInv, QueueInv
<1>1. \A s \in Run :
        \/ s \notin open /\ state'[s] = state[s] /\ todo'[s] = "done"
        \/ /\ state'[s] = RecoveredState(state[s], SafeToReplay(s)) /\ state[s] \in RunStates
  BY DEF TypeOK, Boot
<1>2. ASSUME NEW s \in Run
      PROVE  /\ todo'[s] # "done" => state'[s] # "absent"
             /\ state'[s] # state[s] => state[s] \in Owning /\ state'[s] \in RunStates
  <2>1. SafeToReplay(s) \in BOOLEAN
    BY DEF SafeToReplay, HasTool, Replayable
  <2> QED BY <1>1, <2>1, Recovered DEF RunStates
<1>3. ActiveInv' /\ WorkInv' /\ QueueInv'
  <2>1. Actor'.pc = "idle"
    BY <1>0 DEF Actor
  <2> QED BY <1>0, <1>2, <2>1, RunAssumption
          DEF ActiveInv, WorkInv, QueueInv, Enqueued, Controlling, Replaying
<1>4. LifeStep
  <2>1. CASE \A s \in Run : state'[s] = state[s]
    BY <2>1 DEF LifeStep, Status
  <2>2. CASE \E s \in Run : state'[s] # state[s]
    <3>1. PICK q \in Run : state'[q] # state[q]
      BY <2>2
    <3>2. \A s \in Run : s # q => state'[s] = state[s]
      BY <1>2, <3>1 DEF OwnerInv, Alone, Claimant
    <3>3. Lawful(q)
      BY <1>2, <3>1, <3>2 DEF Lawful
    <3> QED BY <3>3, LawfulLife
  <2> QED BY <2>1, <2>2
<1> QED BY <1>3, <1>4 DEF RunsInv

(* Steps that write no run's record and leave the actor's job alone. *)
LEMMA RunsSame ==
  ASSUME TypeOK, OwnerInv, RunsInv, UNCHANGED <<state, active, memQueue, job>>,
         \A s \in Run : /\ turn'[s].pc = "none" <=> turn[s].pc = "none"
                        /\ todo'[s] # "done" => todo[s] # "done",
         phase' = phase \/ phase' \notin {"down", "recovering"}
  PROVE  RunsInv' /\ LifeStep
<1>1. Actor' = Actor
  BY DEF Actor
<1>2. ActiveInv' /\ WorkInv' /\ QueueInv'
  BY <1>1 DEF RunsInv, ActiveInv, WorkInv, QueueInv, Enqueued
<1> QED BY <1>2 DEF RunsInv, LifeStep, Status

LEMMA RunsRecovery ==
  ASSUME TypeOK, TypeOK', OwnerInv, RunsInv, Recovery PROVE RunsInv' /\ LifeStep
<1>0. /\ job \in [Worker -> JobRecord] /\ state \in [Run -> RunStates \cup {"absent"}]
      /\ todo \in [Run -> RecoveryActions \cup {"drain", "done"}]
  BY DEF TypeOK
<1>1. ASSUME NEW q \in Run, RecoverRejects(q) PROVE RunsInv' /\ LifeStep
  <2>1. /\ \A s \in Run : s # q => state'[s] = state[s]
        /\ state'[q] = "failed" /\ state[q] \in RunStates
        /\ \A s \in Run : todo'[s] # "done" => todo[s] # "done"
        /\ Actor'.pc = "idle" /\ UNCHANGED <<active, memQueue, turn, phase>>
    BY <1>0, <1>1 DEF RecoverRejects, Write, ActorIdle, Actor, RunsInv, WorkInv
  <2>2. ~\E s \in Run : Enqueued(s)
    BY <1>1 DEF RecoverRejects, RunsInv, QueueInv, Enqueued
  <2>3. RunsInv'
    BY <2>1, <2>2, RunsKept DEF Unstarted, Controlling
  <2>4. Lawful(q)
    BY <2>1 DEF Lawful, Terminal
  <2> QED BY <2>3, <2>4, LawfulLife
<1>2. ASSUME NEW q \in Run, RecoverLater(q) PROVE RunsInv' /\ LifeStep
  <2>1. \A s \in Run : todo'[s] # "done" => todo[s] # "done"
    BY <1>0, <1>2 DEF RecoverLater, Recovers
  <2> QED BY <1>2, <2>1, RunsSame DEF RecoverLater
<1>3. CASE RecoverDone
  BY <1>3, RunsSame DEF RecoverDone
<1>4. CASE RecoverDrain
  <2>1. Actor'.pc = "return"
    BY <1>0, <1>4 DEF RecoverDrain, Actor, Worker, IdleJob
  <2>2. \A s \in Run : todo'[s] = "done"
    BY <1>4 DEF RecoverDrain
  <2> QED BY <1>4, <2>1, <2>2, RunsKept DEF RecoverDrain, Controlling, LifeStep, Status
<1>5. ASSUME NEW q \in Run, NEW action \in Restoring, Recovers(q, action)
      PROVE  /\ \A s \in Run : todo'[s] # "done" => todo[s] # "done"
             /\ state[q] = RestoredState[action] /\ Actor.pc = "idle"
  BY <1>0, <1>5 DEF Recovers, Restoring, OwnerInv, PhaseInv
<1>6. ASSUME NEW q \in Run, RecoverReplay(q) PROVE RunsInv' /\ LifeStep
  <2>1. /\ \A s \in Run : todo'[s] # "done" => todo[s] # "done"
        /\ state[q] = "preparing"
    BY <1>5, <1>6 DEF RecoverReplay, Restoring, RestoredState
  <2>2. Actor'.pc = "replay" /\ Actor'.run = q
    BY <1>0, <1>6 DEF RecoverReplay, Actor, Worker, IdleJob
  <2> QED BY <1>6, <2>1, <2>2, RunsKept
          DEF RecoverReplay, Controlling, Unstarted, Owning, LifeStep, Status
<1>7. ASSUME NEW q \in Run, RecoverApproval(q) PROVE RunsInv' /\ LifeStep
  <2>1. /\ \A s \in Run : todo'[s] # "done" => todo[s] # "done"
        /\ Actor.pc = "idle"
    BY <1>5, <1>7 DEF RecoverApproval, Restoring
  <2>2. Actor'.pc \in {"idle", "claim"}
    BY <1>0, <1>7, <2>1 DEF RecoverApproval, Actor, Worker
  <2> QED BY <1>7, <2>1, <2>2, RunsKept DEF RecoverApproval, Controlling, LifeStep, Status
<1>8. ASSUME NEW q \in Run, RecoverInteraction(q) PROVE RunsInv' /\ LifeStep
  <2>1. /\ \A s \in Run : todo'[s] # "done" => todo[s] # "done"
        /\ Actor.pc = "idle"
    BY <1>5, <1>8 DEF RecoverInteraction, Restoring
  <2>2. Actor'.pc \in {"idle", "claimAnswer"}
    BY <1>0, <1>8, <2>1 DEF RecoverInteraction, Actor, Worker
  <2> QED BY <1>8, <2>1, <2>2, RunsKept DEF RecoverInteraction, Controlling, LifeStep, Status
<1> QED BY <1>1, <1>2, <1>3, <1>4, <1>6, <1>7, <1>8, RunsBoot DEF Recovery

-----------------------------------------------------------------------------
(* The turn of a run.                                                      *)

LEMMA RunsTurns ==
  ASSUME TypeOK, TypeOK', OwnerInv, RunsInv, NEW r \in Run, turn[r].pc # "none",
         UNCHANGED <<active, memQueue, todo, phase, job>>,
         \A s \in Run : s # r => state'[s] = state[s] /\ turn'[s] = turn[s],
         turn'[r].pc # "none",
         \/ state'[r] = state[r]
         \/ /\ CanTransition(state[r], state'[r])
            /\ state'[r] \in Waiting \cup {"streaming_model", "executing_tool"} \cup Outcome
  PROVE  RunsInv' /\ LifeStep
<1>1. /\ active = r /\ Actor' = Actor /\ Actor.pc \notin Controlling
      /\ state[r] \notin Unstarted /\ state[r] \in RunStates
  <2>1. active = r /\ Actor' = Actor /\ state[r] \notin Unstarted
    BY DEF OwnerInv, TurnInv, Actor, RunsInv, WorkInv
  <2>2. Actor.pc \notin Controlling
    BY <2>1, RunAssumption DEF OwnerInv, ActorInv
  <2>3. state[r] \in RunStates
    BY <2>1 DEF TypeOK, Unstarted
  <2> QED BY <2>1, <2>2, <2>3
<1>2. ~Enqueued(r)
  BY <1>1 DEF RunsInv, QueueInv, Unstarted
<1>3. state'[r] = state[r] \/ state'[r] \notin Unstarted
  BY DEF Unstarted, Waiting, Outcome
<1>4. RunsInv'
  <2>1. /\ \A s \in Run :
             /\ state'[s] \in Unstarted => state[s] \in Unstarted
             /\ state'[s] = "absent" => state[s] = "absent"
             /\ Enqueued(s) => state'[s] = state[s]
             /\ turn'[s].pc = "none" <=> turn[s].pc = "none"
             /\ todo'[s] # "done" => todo[s] # "done"
        /\ UNCHANGED <<active, memQueue>>
    BY <1>2, <1>3 DEF Unstarted
  <2> QED BY <1>1, <2>1, RunsKept
<1>5. Lawful(r)
  <2>1. CASE state'[r] = state[r]
    BY <2>1 DEF Lawful
  <2>2. CASE /\ CanTransition(state[r], state'[r])
             /\ state'[r] \in Waiting \cup {"streaming_model", "executing_tool"}
    <3>1. state[r] \in Owning /\ state'[r] \in RunStates
      BY <1>1, <2>2, LawfulWrite DEF RunStates, Waiting
    <3> QED BY <3>1 DEF Lawful
  <2>3. CASE state'[r] \in {"completed", "failed"}
    BY <1>1, <2>3 DEF Lawful, Terminal
  <2>4. CASE state'[r] = "interrupted" /\ state[r] \in Owning
    BY <2>4 DEF Lawful, RunStates
  <2>5. CASE state'[r] = "interrupted" /\ state[r] \in Parked
    BY <2>5 DEF Lawful, Parked
  <2>6. /\ state[r] \in Owning \cup Parked \cup Terminal
        /\ CanTransition(state[r], "interrupted") => state[r] \notin Terminal
    BY <1>1 DEF RunStates, Owning, Waiting, Parked, Terminal, Unstarted, CanTransition, Successors
  <2> QED BY <2>1, <2>2, <2>3, <2>4, <2>5, <2>6 DEF Outcome
<1> QED BY <1>4, <1>5, LawfulLife

LEMMA RunsTurnWrites ==
  ASSUME TypeOK, TypeOK', OwnerInv, RunsInv, NEW r \in Run, turn[r].pc # "none",
         UNCHANGED <<active, memQueue, todo, phase, job>>,
         NEW to \in Waiting \cup {"streaming_model", "executing_tool"}, NEW newTool,
         NEW pc, pc # "none", TurnWrites(r, to, newTool, pc)
  PROVE  RunsInv' /\ LifeStep
<1>1. turn \in [Run -> TurnRecord] /\ state \in [Run -> RunStates \cup {"absent"}]
  BY DEF TypeOK
<1>2. CASE CanTransition(state[r], to)
  <2>1. /\ \A s \in Run : s # r => state'[s] = state[s] /\ turn'[s] = turn[s]
        /\ state'[r] = to /\ turn'[r].pc = pc
    BY <1>1, <1>2 DEF TurnWrites, Write, TurnRecord
  <2> QED BY <1>2, <2>1, RunsTurns
<1>3. CASE ~CanTransition(state[r], to)
  BY <1>1, <1>3, Gone, RunsTurns DEF TurnWrites
<1> QED BY <1>2, <1>3

LEMMA RunsGoto ==
  ASSUME TypeOK, TypeOK', OwnerInv, RunsInv, NEW r \in Run, turn[r].pc # "none",
         UNCHANGED <<state, active, memQueue, todo, phase, job>>,
         NEW pc, pc # "none", Goto(r, pc)
  PROVE  RunsInv' /\ LifeStep
  BY Gone, RunsTurns

LEMMA RunsAsk ==
  ASSUME TypeOK, TypeOK', OwnerInv, RunsInv, NEW r \in Run, turn[r].pc # "none",
         UNCHANGED <<active, memQueue, todo, phase, job>>,
         NEW c, NEW newTool, NEW pc, pc # "none", Ask(r, c, newTool, pc)
  PROVE  RunsInv' /\ LifeStep
<1>1. turn \in [Run -> TurnRecord] /\ state \in [Run -> RunStates \cup {"absent"}]
  BY DEF TypeOK
<1>2. CASE CanTransition(state[r], "waiting_interaction")
  <2>1. /\ \A s \in Run : s # r => state'[s] = state[s] /\ turn'[s] = turn[s]
        /\ state'[r] = "waiting_interaction" /\ turn'[r].pc = pc
    BY <1>1, <1>2 DEF Ask, Write, TurnRecord
  <2> QED BY <1>2, <2>1, RunsTurns DEF Waiting
<1>3. CASE ~CanTransition(state[r], "waiting_interaction")
  BY <1>3, RunsGoto DEF Ask
<1> QED BY <1>2, <1>3

LEMMA RunsTurnStep ==
  ASSUME TypeOK, TypeOK', OwnerInv, RunsInv, NEW r \in Run, TurnStep(r)
  PROVE  RunsInv' /\ LifeStep
<1>0. turn \in [Run -> TurnRecord] /\ state \in [Run -> RunStates \cup {"absent"}]
  BY DEF TypeOK
<1>1. CASE Admit(r)
  <2>1. CASE CanTransition(state[r], "streaming_model")
    <3>1. /\ \A s \in Run : s # r => state'[s] = state[s] /\ turn'[s] = turn[s]
          /\ state'[r] = "streaming_model" /\ turn'[r].pc = "model"
      BY <1>0, <1>1, <2>1 DEF Admit, TurnRecord
    <3> QED BY <1>1, <2>1, <3>1, RunsTurns DEF Admit
  <2>2. CASE ~CanTransition(state[r], "streaming_model")
    BY <1>1, <2>2, RunsGoto DEF Admit
  <2> QED BY <2>1, <2>2
<1>2. CASE AskInteraction(r)
  BY <1>2, RunsAsk DEF AskInteraction
<1>3. CASE Dispatch(r)
  BY <1>3, RunsGoto DEF Dispatch
<1>4. CASE Elicit(r)
  BY <1>4, RunsAsk DEF Elicit
<1>5. CASE Answered(r)
  <2>1. PICK pc \in {"interrupted", "model"} : TurnWrites(r, "streaming_model", NoTool, pc)
    BY <1>5 DEF Answered
  <2> QED BY <1>5, <2>1, RunsTurnWrites DEF Answered
<1>6. CASE Finish(r)
  <2>1. /\ \A s \in Run : s # r => state'[s] = state[s] /\ turn'[s] = turn[s]
        /\ turn'[r].pc = "settled"
        /\ \/ state'[r] = state[r]
           \/ CanTransition(state[r], state'[r]) /\ state'[r] \in Outcome
    BY <1>0, <1>6, Gone DEF Finish
  <2> QED BY <1>6, <2>1, RunsTurns DEF Finish, Outcome
<1>7. CASE Settled(r)
  <2>1. /\ Actor' = Actor /\ active' = NoRun
        /\ UNCHANGED <<state, memQueue, todo, phase>>
        /\ \A s \in Run : turn'[s] = turn[s] \/ turn'[s].pc = "none"
    BY <1>0, <1>7 DEF Settled, NoTurn, Actor
  <2>2. ActiveInv' /\ WorkInv' /\ QueueInv'
    BY <2>1, RunAssumption DEF RunsInv, ActiveInv, WorkInv, QueueInv, Enqueued
  <2> QED BY <2>1, <2>2 DEF RunsInv, LifeStep, Status
<1>8. ASSUME NEW outcome \in Outcome, ModelEnds(r, outcome) PROVE RunsInv' /\ LifeStep
  BY <1>8, RunsGoto DEF ModelEnds, Outcome
<1>9. ASSUME NEW class, AskApproval(r, class) PROVE RunsInv' /\ LifeStep
  BY <1>9, RunsTurnWrites DEF AskApproval, NextCall, Waiting
<1>10. ASSUME NEW class, AllowTool(r, class) PROVE RunsInv' /\ LifeStep
  BY <1>10, RunsTurnWrites DEF AllowTool, NextCall
<1>11. ASSUME NEW decision \in {"decline", "cancel"}, ApprovalExpires(r, decision)
       PROVE  RunsInv' /\ LifeStep
  BY <1>11, RunsSame DEF ApprovalExpires
<1>12. ASSUME NEW refused \in BOOLEAN, ApprovalSettled(r, refused) PROVE RunsInv' /\ LifeStep
  <2>1. turn[r].pc # "none" /\ UNCHANGED <<active, memQueue, todo, phase, job>>
    BY <1>12 DEF ApprovalSettled
  <2>2. \/ Ask(r, turn[r].tool.call, turn[r].tool, "waitAnswer")
        \/ TurnWrites(r, "executing_tool", turn[r].tool, "dispatch")
        \/ \E pc \in {"interrupted", "model"} : TurnWrites(r, "streaming_model", NoTool, pc)
    BY <1>12, Zenon DEF ApprovalSettled
  <2> QED BY <2>1, <2>2, RunsAsk, RunsTurnWrites
<1>13. CASE ApprovalHookFails(r)
  BY <1>13, RunsGoto DEF ApprovalHookFails
<1>14. ASSUME NEW pc \in {"model", "interrupted"}, ToolReturns(r, pc) PROVE RunsInv' /\ LifeStep
  BY <1>14, RunsTurnWrites DEF ToolReturns
<1>15. ASSUME NEW c \in Call, AnswerAborted(r, c) PROVE RunsInv' /\ LifeStep
  <2>1. \A s \in Run : turn'[s].pc = turn[s].pc
    BY <1>0, <1>15 DEF AnswerAborted, TurnRecord
  <2> QED BY <1>15, <2>1, RunsSame DEF AnswerAborted
<1> QED
  BY <1>1, <1>2, <1>3, <1>4, <1>5, <1>6, <1>7, <1>8, <1>9, <1>10, <1>11, <1>12, <1>13, <1>14,
     <1>15 DEF TurnStep

-----------------------------------------------------------------------------

LEMMA RunsInit == Init => RunsInv
  BY RunAssumption
  DEF Init, Idle, RunsInv, ActiveInv, WorkInv, QueueInv, Enqueued, NoTurn, IdleJob, Actor, Worker,
      Controlling, Replaying, Unstarted

LEMMA RunsNext ==
  ASSUME TypeOK, TypeOK', OwnerInv, RunsInv, [Next]_vars, "automation" \notin Faults
  PROVE  RunsInv' /\ LifeStep
<1>1. ASSUME NEW r \in Run, NEW c \in Call, AutomationAnswer(r, c) PROVE FALSE
  BY <1>1 DEF AutomationAnswer
<1>2. CASE UNCHANGED vars
  BY <1>2, RunsSame DEF vars
<1> QED
  BY <1>1, <1>2, RunsCommand, RunsTask, RunsJobStep, RunsTurnStep, RunsRecovery, RunsCrash
  DEF Next

LEMMA RunsAlways ==
  ASSUME "automation" \notin Faults PROVE Spec => [](TypeOK /\ OwnerInv /\ RunsInv)
<1>1. Init => OwnerInv /\ RunsInv
  BY OwnerInit, RunsInit
<1>2. TypeOK /\ TypeOK' /\ OwnerInv /\ RunsInv /\ [Next]_vars => (OwnerInv /\ RunsInv)'
  BY OwnerNext, RunsNext
<1> QED BY <1>1, <1>2, TypeCorrect, PTL DEF Spec

(* A run in an active state is somebody's: a turn executes it, the actor's *)
(* job works on it, a recovered request waits for its answer, or recovery  *)
(* has yet to come to it (recover, activeTurns, continueRecoveredWait).    *)
THEOREM NoneForgotten == ASSUME "automation" \notin Faults PROVE Spec => []NobodyForgotten
<1>1. OwnerInv /\ RunsInv => NobodyForgotten
  <2> SUFFICES ASSUME OwnerInv, RunsInv, NEW r \in Run, state[r] \in Owning PROVE Attended(r)
    BY DEF NobodyForgotten
  <2>1. CASE Named(r)
    <3>1. active = r => turn[r].pc # "none"
      BY DEF RunsInv, ActiveInv
    <3> QED BY <2>1, <3>1 DEF Named, Attended, Actor, Worker, Controlling, Restoring
  <2>2. CASE ~Named(r)
    <3>1. Recontinues(r) \/ phase \in {"down", "broken"}
      BY <2>2 DEF OwnerInv, Unnamed
    <3> QED BY <3>1 DEF Recontinues, Attended, Actor, Worker
  <2> QED BY <2>1, <2>2
<1> QED BY <1>1, RunsAlways, PTL

(* The thread implements the life cycle of RunLifecycle: no run is made    *)
(* active while another is, only a restart puts one back in the queue, and *)
(* none leaves a final state, whatever the table of transitions is asked   *)
(* for and whoever asks (assertRunTransition, runs.prepare,                *)
(* recoverOpenRuns), unless alarms answer behind the actor's back.         *)
THEOREM LivesLawfully == ASSUME "automation" \notin Faults PROVE Spec => ImplementsLifecycle
<1>1. Init => Lifecycle!Init
  <2> SUFFICES ASSUME Init PROVE \A r \in Run : StatusOf(state[r]) = "new"
    BY DEF Lifecycle!Init
  <2>1. StatusOf("absent") = "new"
    BY StatusIs
  <2> QED BY <2>1 DEF Init
<1>2. ASSUME TypeOK, TypeOK', OwnerInv, RunsInv, [Next]_vars PROVE [Lifecycle!Next]_Status
  BY <1>2, RunsNext DEF LifeStep
<1>3. [Lifecycle!Next]_Status => [Lifecycle!Next]_[r \in Run |-> StatusOf(state[r])]
  BY DEF Status
<1> QED BY <1>1, <1>2, <1>3, RunsAlways, PTL DEF Spec, ImplementsLifecycle, Lifecycle!Spec

-----------------------------------------------------------------------------
(* Recovered requests, when nothing but manual input disturbs the thread.  *)

LEMMA MarksNone ==
  ASSUME approvalMark'.run = NoRun, interactionMark'.run = NoRun, "keep" \notin Actor'.then
  PROVE  MarkInv'
  BY RunAssumption DEF MarkInv

(* The job that continues a recovered approval works on, or returns. *)
LEMMA MarksWork ==
  ASSUME MarkInv, Actor.pc \in Controlling,
         Actor'.pc \in (Controlling \ {"markDone"}) \cup {"return"},
         Actor'.run = Actor.run, Actor'.call = Actor.call, Actor'.then = Actor.then,
         UNCHANGED markVars, \A r \in Run : env[r] => env'[r]
  PROVE  MarkInv'
<1>1. \A r \in Run : interactionMark.run # r
  BY DEF MarkInv, Controlling
<1>2. \A r \in Run : approvalMark.run = r =>
        env[r] /\ approvalMark.call \in Call /\ Finishing(r, approvalMark.call)
  BY DEF MarkInv, Controlling
<1> QED BY <1>1, <1>2 DEF MarkInv, Finishing

(* A turn executes the run the job has started. *)
LEMMA MarksTurn ==
  ASSUME OwnerInv, MarkInv, active # NoRun, UNCHANGED <<env, job, markVars>>
  PROVE  MarkInv'
<1>1. \A r \in Run : interactionMark.run # r
  BY DEF MarkInv, Running
<1>2. \A r \in Run : approvalMark.run = r =>
        /\ env[r] /\ approvalMark.call \in Call /\ Finishing(r, approvalMark.call)
        /\ Actor.pc \in (Controlling \ {"markDone"}) \cup {"return"}
  BY DEF MarkInv, Running
<1> QED BY <1>1, <1>2 DEF MarkInv, Finishing, Actor

(* What a mark waits for stays as it is, or is decided. *)
Waits ==
  /\ approvalMark'.run = approvalMark.run /\ approvalMark'.call = approvalMark.call
  /\ interactionMark' = interactionMark
  /\ Running' = Running
  /\ \A r \in Run : approvalMark.run = r \/ interactionMark.run = r =>
       state'[r] = state[r] /\ env'[r] = env[r]
  /\ \A r \in Run, c \in Call :
       /\ approval'[r][c] = "none" <=> approval[r][c] = "none"
       /\ Decided(r, c) => Decided(r, c)'

LEMMA MarksKept == ASSUME MarkInv, Waits, Actor' = Actor PROVE MarkInv'
<1>1. ASSUME NEW r \in Run, approvalMark'.run = r, approvalMark.call \in Call,
             IsLatestApproval(r, approvalMark.call)
      PROVE  IsLatestApproval(r, approvalMark.call)'
  BY <1>1 DEF Waits, IsLatestApproval
<1>2. ASSUME NEW r \in Run, NEW c \in Call, Decided(r, c) PROVE Decided(r, c)'
  BY <1>2 DEF Waits
<1>3. ASSUME NEW r \in Run, approvalMark.run = r
      PROVE  /\ env'[r] /\ approvalMark'.call \in Call
             /\ \/ /\ ~Running' /\ state'[r] = "waiting_approval"
                   /\ approval'[r][approvalMark'.call] # "none"
                   /\ IsLatestApproval(r, approvalMark.call)'
                   /\ \/ Actor'.pc = "idle"
                      \/ Actor'.pc \in {"wait", "return"} /\ "finish" \notin Actor'.then
                      \/ /\ Actor'.pc = "claim" /\ Finishing(r, approvalMark.call)'
                         /\ Decided(r, approvalMark.call)'
                \/ /\ Finishing(r, approvalMark.call)'
                   /\ Actor'.pc \in (Controlling \ {"markDone"}) \cup {"return"}
  <2>1. /\ env'[r] /\ approvalMark.call \in Call /\ approvalMark'.call = approvalMark.call
        /\ state'[r] = state[r] /\ Running' = Running
    BY <1>3 DEF MarkInv, Waits
  <2>2. CASE /\ ~Running /\ state[r] = "waiting_approval"
             /\ approval[r][approvalMark.call] # "none"
             /\ IsLatestApproval(r, approvalMark.call)
             /\ \/ Actor.pc = "idle"
                \/ Actor.pc \in {"wait", "return"} /\ "finish" \notin Actor.then
                \/ /\ Actor.pc = "claim" /\ Finishing(r, approvalMark.call)
                   /\ Decided(r, approvalMark.call)
    <3>1. approval'[r][approvalMark.call] # "none"
      BY <2>1, <2>2 DEF Waits
    <3>2. IsLatestApproval(r, approvalMark.call)'
      BY <1>3, <2>1, <2>2, <1>1 DEF Waits
    <3>3. Decided(r, approvalMark.call) => Decided(r, approvalMark.call)'
      BY <2>1 DEF Waits, Decided
    <3>4. Finishing(r, approvalMark.call) => Finishing(r, approvalMark.call)'
      BY <2>1 DEF Finishing
    <3> QED BY <2>1, <2>2, <3>1, <3>2, <3>3, <3>4
  <2>3. CASE /\ Finishing(r, approvalMark.call)
             /\ Actor.pc \in (Controlling \ {"markDone"}) \cup {"return"}
    BY <2>1, <2>3 DEF Finishing
  <2> QED BY <1>3, <2>2, <2>3 DEF MarkInv
<1>4. \A r \in Run : interactionMark'.run = r =>
        /\ env'[r] /\ ~Running' /\ state'[r] = "waiting_interaction"
        /\ Actor'.pc \in {"idle", "wait", "return", "claimAnswer"}
  BY DEF MarkInv, Waits
<1>5. \A r \in Run : approvalMark'.run = r => approvalMark.run = r
  BY DEF Waits
<1> QED BY <1>3, <1>4, <1>5 DEF MarkInv

(* A job that works on nothing yet begins, or ends. *)
LEMMA MarksRest ==
  ASSUME MarkInv, Waits, Actor.pc \in {"idle", "wait", "return"},
         Actor.pc = "idle" \/ "finish" \notin Actor.then,
         Actor'.pc = "idle" \/ (Actor'.pc \in {"wait", "return"} /\ "finish" \notin Actor'.then),
         "keep" \notin Actor'.then
  PROVE  MarkInv'
<1>1. ASSUME NEW r \in Run, approvalMark'.run = r, approvalMark.call \in Call,
             IsLatestApproval(r, approvalMark.call)
      PROVE  IsLatestApproval(r, approvalMark.call)'
  BY <1>1 DEF Waits, IsLatestApproval
<1>2. ASSUME NEW r \in Run, approvalMark.run = r
      PROVE  /\ env'[r] /\ approvalMark'.call \in Call
             /\ ~Running' /\ state'[r] = "waiting_approval"
             /\ approval'[r][approvalMark'.call] # "none"
             /\ IsLatestApproval(r, approvalMark.call)'
  <2>1. /\ env[r] /\ approvalMark.call \in Call /\ approvalMark'.call = approvalMark.call
        /\ state'[r] = state[r] /\ env'[r] = env[r] /\ Running' = Running
    BY <1>2 DEF MarkInv, Waits
  <2>2. /\ ~Running /\ state[r] = "waiting_approval"
        /\ approval[r][approvalMark.call] # "none"
        /\ IsLatestApproval(r, approvalMark.call)
    BY <1>2 DEF MarkInv, Finishing, Controlling
  <2>3. approval'[r][approvalMark.call] # "none"
    BY <2>1, <2>2 DEF Waits
  <2>4. IsLatestApproval(r, approvalMark.call)'
    BY <1>1, <1>2, <2>1, <2>2 DEF Waits
  <2> QED BY <2>1, <2>2, <2>3, <2>4
<1>3. \A r \in Run : interactionMark'.run = r =>
        env'[r] /\ ~Running' /\ state'[r] = "waiting_interaction"
  BY DEF MarkInv, Waits
<1>4. \A r \in Run : approvalMark'.run = r => approvalMark.run = r
  BY DEF Waits
<1> QED BY <1>2, <1>3, <1>4 DEF MarkInv

LEMMA MarksCommand ==
  ASSUME TypeOK, OwnerInv, MarkInv, Command, Faults \subseteq {"manual"} PROVE MarkInv'
<1>0. /\ Actor.pc = "idle" /\ job \in [Worker -> JobRecord]
      /\ state \in [Run -> RunStates \cup {"absent"}] /\ turn \in [Run -> TurnRecord]
      /\ approvalMark.run \in Run \cup {NoRun} /\ interactionMark.run \in Run \cup {NoRun}
  BY DEF TypeOK, ApprovalMark, AnswerMark, Command, Submit, Enqueue, RemoveQueued, Resume,
         ResolveUncertain, ApprovalResponse, InteractionResponse, Interrupt, Admitted, ActorIdle, Actor
<1>1. \A r \in Run : approvalMark.run = r \/ interactionMark.run = r => state[r] \in Waiting
  BY <1>0 DEF MarkInv, Controlling, Waiting
<1>2. ASSUME NEW q \in Run, Submit(q) \/ Resume(q) PROVE MarkInv'
  <2>1. Actor'.then = {}
    BY <1>0, <1>2 DEF Submit, Resume, StartRun, Actor, Worker
  <2> QED BY <1>2, <2>1, MarksNone DEF Submit, Resume, Busy
<1>3. ASSUME NEW q \in Run, NEW resolution \in {"fail", "mark_done", "retry"},
             ResolveUncertain(q, resolution)
      PROVE  MarkInv'
  <2>1. Actor' = Actor \/ Actor'.then = {}
    BY <1>0, <1>3 DEF ResolveUncertain, Actor, Worker, IdleJob
  <2>2. "keep" \notin Actor'.then
    BY <2>1 DEF MarkInv
  <2> QED BY <1>3, <2>2, MarksNone DEF ResolveUncertain, Busy
<1>4. ASSUME NEW q \in Run, Enqueue(q) \/ RemoveQueued(q) PROVE MarkInv'
  <2>1. /\ state[q] \notin Waiting /\ \A s \in Run : s # q => state'[s] = state[s]
        /\ UNCHANGED <<approvalMark, interactionMark, active, replay, env, approval, job>>
    BY <1>0, <1>4 DEF Enqueue, RemoveQueued, Waiting
  <2>2. Waits
    BY <1>1, <2>1 DEF Waits, Running, Decided
  <2> QED BY <2>1, <2>2, MarksKept DEF Actor
<1>5. CASE Interrupt
  <2>1. Waits
    BY <1>5 DEF Interrupt, Waits, Running, Decided
  <2> QED BY <1>5, <2>1, MarksKept DEF Interrupt, Actor
<1>6. ASSUME NEW q \in Run, NEW c \in Call, NEW decision \in Decision,
             ApprovalResponse(q, c, decision)
      PROVE  MarkInv'
  <2>1. approval[q][c] = "pending" /\ (ApprovalWaiter(q, c) \/ ApprovalMarked(q, c))
    BY <1>6 DEF ApprovalResponse
  <2>2. Waits
    <3>1. approval \in [Run -> [Call -> {"none", "pending"} \cup Decision]]
      BY DEF TypeOK
    <3>2. \A r \in Run, d \in Call :
            /\ approval'[r][d] = "none" <=> approval[r][d] = "none"
            /\ approval[r][d] \in Decision => approval'[r][d] \in Decision
      BY <1>6, <2>1, <3>1 DEF ApprovalResponse, Decision
    <3> QED BY <1>6, <3>2 DEF ApprovalResponse, Waits, Running, Decided
  <2>3. \/ Actor' = Actor
        \/ Actor'.pc = "wait" /\ Actor'.then = {"drain"}
    BY <1>0, <1>6, <2>1 DEF ApprovalResponse, Actor, Worker
  <2> QED BY <1>0, <2>2, <2>3, MarksKept, MarksRest
<1>7. ASSUME NEW q \in Run, NEW c \in Call, InteractionResponse(q, c) PROVE MarkInv'
  <2>1. AnswerWaiter(q, c) \/ AnswerMarked(q, c)
    BY <1>7 DEF InteractionResponse
  <2>2. Waits
    BY <1>7 DEF InteractionResponse, Answer, Waits, Running, Decided
  <2>3. \/ Actor' = Actor
        \/ Actor'.pc = "wait" /\ Actor'.then = {}
    BY <1>0, <1>7, <2>1 DEF InteractionResponse, Answer, Actor, Worker
  <2> QED BY <1>0, <2>2, <2>3, MarksKept, MarksRest
<1> QED BY <1>2, <1>3, <1>4, <1>5, <1>6, <1>7 DEF Command

LEMMA MarksTask ==
  ASSUME TypeOK, OwnerInv, MarkInv, ActorTask \/ PauseThread PROVE MarkInv'
<1>0. job \in [Worker -> JobRecord]
  BY DEF TypeOK
<1>1. ASSUME NEW name \in {"drain", "afterTurn"}, RunTask(name) PROVE MarkInv'
  <2>1. /\ Actor.pc = "idle" /\ Actor'.pc \in {"wait", "return"} /\ Actor'.then = {"drain"}
        /\ UNCHANGED <<approvalMark, interactionMark, active, replay, state, env, approval>>
    BY <1>0, <1>1 DEF RunTask, Task, ActorIdle, Actor, Worker, IdleJob
  <2>2. Waits
    BY <2>1 DEF Waits, Running, Decided
  <2> QED BY <2>1, <2>2, MarksRest
<1>2. ASSUME NEW decision \in Decision, DecideMarked(decision), MarkWaits, ActorIdle,
             UNCHANGED <<approvalMark, interactionMark, active, replay, state, env>>
      PROVE  MarkInv'
  <2>1. Actor.pc = "idle" /\ Actor'.pc = "wait" /\ Actor'.then = {"drain"}
    BY <1>0, <1>2 DEF DecideMarked, ActorIdle, Actor, Worker, IdleJob
  <2>2. Waits
    <3>1. approval \in [Run -> [Call -> {"none", "pending"} \cup Decision]]
      BY DEF TypeOK
    <3>2. \A r \in Run, d \in Call :
            /\ approval'[r][d] = "none" <=> approval[r][d] = "none"
            /\ approval[r][d] \in Decision => approval'[r][d] \in Decision
      BY <1>2, <3>1 DEF DecideMarked, MarkWaits, ApprovalMarked, Decision
    <3> QED BY <1>2, <3>2 DEF Waits, Running, Decided
  <2> QED BY <2>1, <2>2, MarksRest
<1>3. CASE PauseApproval
  <2>1. CASE approvalMark.cancel /\ MarkWaits
    BY <1>2, <1>3, <2>1 DEF PauseApproval, Task, Decision
  <2>2. CASE ~(approvalMark.cancel /\ MarkWaits)
    <3>1. Waits
      BY <1>3, <2>2 DEF PauseApproval, Waits, Running, Decided
    <3> QED BY <1>3, <2>2, <3>1, MarksKept DEF PauseApproval, Actor
  <2> QED BY <2>1, <2>2
<1>4. CASE RecoveredApprovalTimeout
  BY <1>2, <1>4 DEF RecoveredApprovalTimeout, Decision
<1>5. CASE PauseThread
  <2>1. /\ approvalMark'.run = approvalMark.run /\ approvalMark'.call = approvalMark.call
        /\ replay'.run = replay.run
    BY <1>5 DEF TypeOK, PauseThread, ApprovalMark, ReplayRecord
  <2>2. Waits
    BY <1>5, <2>1 DEF PauseThread, Waits, Running, Decided
  <2> QED BY <1>5, <2>2, MarksKept DEF PauseThread, Actor
<1> QED BY <1>1, <1>3, <1>4, <1>5 DEF ActorTask

(* Which marks there may be while the actor's job is past its beginning. *)
LEMMA MarksAt ==
  ASSUME TypeOK, OwnerInv, MarkInv
  PROVE  /\ approvalMark.run \in Run \cup {NoRun} /\ interactionMark.run \in Run \cup {NoRun}
         /\ Actor.pc \in Controlling \cup {"claim"} => interactionMark.run = NoRun
         /\ Actor.pc \in {"markDone", "claimAnswer"} => approvalMark.run = NoRun
         /\ Actor.pc \in Controlling /\ approvalMark.run # NoRun =>
              Finishing(approvalMark.run, approvalMark.call) /\ env[approvalMark.run]
         /\ Actor.pc \in {"return", "wait"} /\ approvalMark.run # NoRun =>
              \/ "finish" \notin Actor.then
              \/ Actor.pc = "return" /\ Finishing(approvalMark.run, approvalMark.call)
         /\ Actor.pc \in {"wait", "claim"} /\ approvalMark.run # NoRun =>
              interactionMark.run = NoRun
<1>1. approvalMark.run \in Run \cup {NoRun} /\ interactionMark.run \in Run \cup {NoRun}
  BY DEF TypeOK, ApprovalMark, AnswerMark
<1>2. interactionMark.run # NoRun => Actor.pc \in {"idle", "wait", "return", "claimAnswer"}
  BY <1>1 DEF MarkInv
<1>3. approvalMark.run # NoRun =>
        /\ env[approvalMark.run]
        /\ \/ Actor.pc = "idle"
           \/ Actor.pc \in {"wait", "return"} /\ "finish" \notin Actor.then
           \/ Actor.pc = "claim"
           \/ /\ Finishing(approvalMark.run, approvalMark.call)
              /\ Actor.pc \in (Controlling \ {"markDone"}) \cup {"return"}
  BY <1>1 DEF MarkInv
<1>4. Actor.pc \in {"wait", "claim"} /\ approvalMark.run # NoRun => interactionMark.run = NoRun
  <2> SUFFICES ASSUME Actor.pc \in {"wait", "claim"},
                      approvalMark.run # NoRun, interactionMark.run # NoRun
               PROVE  FALSE
    OBVIOUS
  <2>1. state[approvalMark.run] = "waiting_approval"
    BY <1>1 DEF MarkInv, Controlling
  <2>2. state[interactionMark.run] = "waiting_interaction"
    BY <1>1 DEF MarkInv
  <2>3. approvalMark.run = interactionMark.run
    BY <1>1 DEF OwnerInv, Alone, Claimant, Named
  <2> QED BY <2>1, <2>2, <2>3
<1>5. "idle" \notin Controlling /\ "wait" \notin Controlling /\ "return" \notin Controlling
      /\ "claim" \notin Controlling /\ "claimAnswer" \notin Controlling
  BY DEF Controlling
<1> QED BY <1>1, <1>2, <1>3, <1>4, <1>5

LEMMA MarksStart ==
  ASSUME TypeOK, OwnerInv, MarkInv, Faults \subseteq {"manual"},
         \/ StartFails("actor") \/ StartPrepares("actor") \/ Launch("actor")
         \/ Claimed("actor") \/ MarkDone("actor")
  PROVE  MarkInv'
<1>0. /\ Actor.pc \in Controlling /\ UNCHANGED markVars /\ env \in [Run -> BOOLEAN]
      /\ Actor.run \in Run
  BY DEF StartFails, StartPrepares, Launch, Claimed, MarkDone, Actor, Controlling, OwnerInv,
         ActorInv, TypeOK
<1>1. ASSUME \/ \E pc \in (Controlling \ {"markDone"}) \cup {"return"} : Step("actor", pc)
             \/ ResumeRun("actor"),
             \A r \in Run : env[r] => env'[r]
      PROVE  MarkInv'
  <2>1. /\ Actor'.pc \in (Controlling \ {"markDone"}) \cup {"return"}
        /\ Actor'.run = Actor.run /\ Actor'.call = Actor.call /\ Actor'.then = Actor.then
    BY <1>1, ActorSteps, ActorResumes DEF Controlling
  <2> QED BY <1>0, <1>1, <2>1, MarksWork
<1>2. CASE StartFails("actor")
  <2>1. ~env[Actor.run] /\ Actor'.then = {}
    BY <1>2, ActorThrows DEF StartFails, EnvMissing, Actor, IdleJob
  <2>2. approvalMark.run = NoRun /\ interactionMark.run = NoRun
    BY <1>0, <2>1, MarksAt DEF Finishing
  <2> QED BY <1>0, <2>1, <2>2, MarksNone
<1>3. CASE StartPrepares("actor")
  <2>1. \A r \in Run : env[r] => env'[r]
    BY <1>0, <1>3 DEF StartPrepares, Actor
  <2> QED BY <1>1, <1>3, <2>1 DEF StartPrepares, Controlling
<1>4. CASE Launch("actor")
  BY <1>1, <1>4 DEF Launch
<1>5. CASE Claimed("actor")
  BY <1>1, <1>5 DEF Claimed, Controlling
<1>6. CASE MarkDone("actor")
  <2>1. HasTool(Actor.run)
    BY <1>6 DEF MarkDone, OwnerInv, ActorInv, Actor
  <2> QED BY <1>1, <1>6, <2>1 DEF MarkDone, Actor
<1> QED BY <1>2, <1>3, <1>4, <1>5, <1>6

LEMMA MarksReplay ==
  ASSUME TypeOK, OwnerInv, MarkInv,
         \/ Replay("actor") \/ Validate("actor") \/ ReplayDispatch("actor")
         \/ ReplaySettles("actor") \/ ReplayTimeout("actor") \/ Quarantine("actor")
  PROVE  MarkInv'
<1>1. /\ Actor.pc \in Controlling /\ UNCHANGED <<markVars, env>>
      /\ \/ \E pc \in {"return", "validate", "dispatch", "replaying", "quarantine"} :
              Step("actor", pc)
         \/ ResumeRun("actor")
  BY DEF Replay, Validate, ReplayDispatch, ReplaySettles, ReplayTimeout, Quarantine, Actor,
         Controlling
<1>2. /\ Actor'.pc \in (Controlling \ {"markDone"}) \cup {"return"}
      /\ Actor'.run = Actor.run /\ Actor'.call = Actor.call /\ Actor'.then = Actor.then
  BY <1>1, ActorSteps, ActorResumes DEF Controlling
<1> QED BY <1>1, <1>2, MarksWork

LEMMA MarksReturn ==
  ASSUME TypeOK, OwnerInv, MarkInv, Return("actor") PROVE MarkInv'
<1>0. /\ Actor.pc = "return" /\ job \in [Worker -> JobRecord]
      /\ UNCHANGED <<interactionMark, active, replay, state, env, approval>>
  BY DEF TypeOK, Return, Actor
<1>1. \/ Actor' = IdleJob
      \/ /\ Actor'.then \subseteq {"boot"}
         /\ interactionMark.run = NoRun /\ (approvalMark.run = NoRun \/ Releases("actor"))
  <2>1. \/ job' = [job EXCEPT !["actor"] = IdleJob]
        \/ /\ interactionMark.run = NoRun /\ (approvalMark.run = NoRun \/ Releases("actor"))
           /\ \E next : StartRun("actor", next, FALSE, Actor.then \cap {"boot"})
    BY Zenon DEF Return, Actor
  <2>2. ASSUME NEW next, StartRun("actor", next, FALSE, Actor.then \cap {"boot"})
        PROVE  Actor'.then \subseteq {"boot"}
    BY <1>0, <2>2 DEF StartRun, Actor, Worker
  <2>3. ASSUME job' = [job EXCEPT !["actor"] = IdleJob] PROVE Actor' = IdleJob
    BY <1>0, <2>3 DEF Actor, Worker
  <2> QED BY <2>1, <2>2, <2>3
<1>2. CASE approvalMark'.run = NoRun
  <2>1. CASE Actor' = IdleJob /\ interactionMark.run # NoRun
    <3>1. Actor'.pc = "idle" /\ "keep" \notin Actor'.then
      BY <2>1 DEF IdleJob
    <3>2. ~Running' <=> ~Running
      BY <1>0 DEF Running
    <3> QED BY <1>0, <1>2, <3>1, <3>2, RunAssumption DEF MarkInv
  <2>2. CASE interactionMark.run = NoRun
    BY <1>0, <1>1, <1>2, <2>2, MarksNone DEF IdleJob
  <2> QED BY <1>1, <2>1, <2>2
<1>3. CASE approvalMark'.run # NoRun
  <2>1. approvalMark' = approvalMark /\ ~Releases("actor") /\ approvalMark.run # NoRun
    BY <1>3 DEF Return, NoMark
  <2>2. "finish" \notin Actor.then
    BY <1>0, <2>1, MarksAt DEF Releases, ApprovalMarked, Finishing, Actor
  <2>3. Actor'.pc = "idle" /\ "keep" \notin Actor'.then
    BY <1>1, <2>1 DEF IdleJob
  <2>4. Waits
    BY <1>0, <2>1 DEF Waits, Running, Decided
  <2>5. /\ Actor.pc \in {"idle", "wait", "return"}
        /\ Actor.pc = "idle" \/ "finish" \notin Actor.then
        /\ \/ Actor'.pc = "idle"
           \/ Actor'.pc \in {"wait", "return"} /\ "finish" \notin Actor'.then
    BY <1>0, <2>2, <2>3
  <2> QED BY <2>3, <2>4, <2>5, MarksRest
<1> QED BY <1>2, <1>3

LEMMA MarksWait ==
  ASSUME TypeOK, OwnerInv, MarkInv, Wait("actor") PROVE MarkInv'
<1>0. /\ Actor.pc = "wait" /\ job \in [Worker -> JobRecord] /\ Actor.then \subseteq {"drain"}
      /\ UNCHANGED <<markVars, active, replay, state, env, approval>>
      /\ Actor \in JobRecord
  BY DEF TypeOK, Wait, Actor, OwnerInv, ActorInv, Worker
<1>1. CASE ApprovalReady
  <2>1. /\ Actor'.pc = "claim" /\ Actor'.run = approvalMark.run
        /\ Actor'.call = approvalMark.call /\ Actor'.then = Actor.then \cup {"finish"}
    BY <1>0, <1>1 DEF Wait, ApprovalReady, AnswerReady, Actor, Worker, JobRecord
  <2>2. interactionMark.run = NoRun
    BY <1>0, <1>1, MarksAt DEF ApprovalReady
  <2>3. PICK r, c : r = approvalMark.run /\ c = approvalMark.call
    OBVIOUS
  <2>4. r \in Run
    BY <1>1, <2>3, MarksAt DEF ApprovalReady
  <2>5. /\ env[r] /\ c \in Call /\ ~Running /\ state[r] = "waiting_approval"
        /\ approval[r][c] # "none" /\ IsLatestApproval(r, c) /\ Decided(r, c)
    BY <1>0, <1>1, <2>3, <2>4 DEF MarkInv, Controlling, ApprovalReady
  <2>6. ~Running' /\ IsLatestApproval(r, c)' /\ Decided(r, c)' /\ Finishing(r, c)'
    BY <1>0, <2>1, <2>3, <2>5 DEF Running, IsLatestApproval, Decided, Finishing
  <2>7. "keep" \notin Actor'.then
    BY <1>0, <2>1
  <2> QED BY <1>0, <2>1, <2>2, <2>3, <2>5, <2>6, <2>7, RunAssumption DEF MarkInv
<1>2. CASE AnswerReady
  <2>1. Actor'.pc = "claimAnswer" /\ Actor'.then = Actor.then
    BY <1>0, <1>2 DEF Wait, ApprovalReady, AnswerReady, Actor, Worker, JobRecord
  <2>2. approvalMark'.run = NoRun /\ (Running' <=> Running)
    BY <1>0, <1>2 DEF AnswerReady, Running
  <2> QED BY <1>0, <2>1, <2>2, RunAssumption DEF MarkInv
<1>3. CASE ~ApprovalReady /\ ~AnswerReady
  <2>1. Actor'.pc = "return" /\ Actor'.then = Actor.then
    BY <1>3, ActorSteps DEF Wait
  <2>2. Waits
    BY <1>0 DEF Waits, Running, Decided
  <2> QED BY <1>0, <2>1, <2>2, MarksRest
<1> QED BY <1>1, <1>2, <1>3

LEMMA MarksClaim ==
  ASSUME TypeOK, OwnerInv, MarkInv, Claim("actor") PROVE MarkInv'
<1>0. /\ Actor.pc = "claim" /\ job \in [Worker -> JobRecord] /\ Actor \in JobRecord
      /\ UNCHANGED <<interactionMark, active, replay, env, approval>>
      /\ interactionMark.run = NoRun /\ "keep" \notin Actor.then
  BY MarksAt DEF TypeOK, Claim, Actor, Worker, MarkInv
<1> DEFINE r == Actor.run
           c == Actor.call
           claimable == ~Running /\ Decided(r, c) /\ IsLatestApproval(r, c)
                          /\ state[r] = "waiting_approval"
<1>1. \/ claimable /\ Step("actor", "claimed") /\ UNCHANGED approvalMark
      \/ /\ ~claimable /\ UNCHANGED approvalMark
         /\ job' = [job EXCEPT !["actor"].pc = "return", !["actor"].then = @ \ {"finish"}]
  BY <1>0, Zenon DEF Claim, Actor
<1>2. CASE approvalMark.run = NoRun
  <2>1. "keep" \notin Actor'.then
    BY <1>0, <1>1, ActorSteps DEF Actor, Worker, JobRecord
  <2> QED BY <1>0, <1>1, <1>2, <2>1, MarksNone
<1>3. CASE approvalMark.run # NoRun
  <2>1. PICK q, d : q = approvalMark.run /\ d = approvalMark.call
    OBVIOUS
  <2>2. q \in Run
    BY <1>3, <2>1, MarksAt
  <2>3. /\ env[q] /\ d \in Call /\ Finishing(q, d)
        /\ ~Running /\ state[q] = "waiting_approval" /\ IsLatestApproval(q, d) /\ Decided(q, d)
    BY <1>0, <2>1, <2>2 DEF MarkInv, Controlling
  <2>4. claimable
    BY <2>3 DEF Finishing
  <2>5. /\ Actor'.pc = "claimed" /\ Actor'.run = Actor.run /\ Actor'.call = Actor.call
        /\ Actor'.then = Actor.then /\ UNCHANGED approvalMark
    BY <1>1, <2>4, ActorSteps
  <2>6. Finishing(q, d)'
    BY <2>3, <2>5 DEF Finishing
  <2> QED BY <1>0, <2>1, <2>2, <2>3, <2>5, <2>6, RunAssumption DEF MarkInv, Controlling
<1> QED BY <1>2, <1>3

LEMMA MarksClaimAnswer ==
  ASSUME TypeOK, OwnerInv, MarkInv, ClaimAnswer("actor") PROVE MarkInv'
<1>0. /\ Actor.pc = "claimAnswer" /\ "keep" \notin Actor.then
      /\ UNCHANGED <<approvalMark, active, replay, env, approval>> /\ approvalMark.run = NoRun
  BY MarksAt DEF ClaimAnswer, Actor, MarkInv
<1>1. \/ interactionMark' = NoAnswerMark /\ ResumeRun("actor")
      \/ interactionMark' = interactionMark /\ Step("actor", "return") /\ state' = state
  BY <1>0, Zenon DEF ClaimAnswer, Actor
<1>2. CASE interactionMark' = NoAnswerMark /\ ResumeRun("actor")
  BY <1>0, <1>2, ActorResumes, MarksNone DEF NoAnswerMark
<1>3. CASE interactionMark' = interactionMark /\ Step("actor", "return") /\ state' = state
  <2>1. Actor'.pc = "return" /\ Actor'.then = Actor.then /\ (Running' <=> Running)
    BY <1>0, <1>3, ActorSteps DEF Running
  <2> QED BY <1>0, <1>3, <2>1, RunAssumption DEF MarkInv
<1> QED BY <1>1, <1>2, <1>3

LEMMA MarksJobStep ==
  ASSUME TypeOK, OwnerInv, MarkInv, NEW w \in Worker, JobStep(w), Faults \subseteq {"manual"}
  PROVE  MarkInv'
<1>1. w = "actor"
  <2>1. job["auto"].pc = "idle"
    BY DEF OwnerInv, ActorInv
  <2>2. job[w].pc # "idle"
    BY DEF JobStep, StartFails, StartPrepares, Launch, Return, Wait, Claim, Claimed, ClaimAnswer,
           MarkDone, Replay, Validate, ReplayDispatch, ReplaySettles, ReplayTimeout, Quarantine
  <2> QED BY <2>1, <2>2 DEF Worker
<1> QED
  BY <1>1, MarksStart, MarksReplay, MarksReturn, MarksWait, MarksClaim, MarksClaimAnswer
  DEF JobStep

-----------------------------------------------------------------------------

(* Recovery goes on without touching a marked run. *)
LEMMA MarksPass ==
  ASSUME MarkInv, UNCHANGED <<approvalMark, interactionMark, active, replay, env, approval, job>>,
         \A r \in Run : approvalMark.run = r \/ interactionMark.run = r => state'[r] = state[r]
  PROVE  MarkInv'
<1>1. Waits /\ Actor' = Actor
  BY DEF Waits, Running, Decided, Actor
<1> QED BY <1>1, MarksKept

LEMMA MarksRecovery ==
  ASSUME TypeOK, TypeOK', OwnerInv, MarkInv, Recovery, Faults \subseteq {"manual"}
  PROVE  MarkInv'
<1>0. /\ job \in [Worker -> JobRecord] /\ state \in [Run -> RunStates \cup {"absent"}]
      /\ "keep" \notin Actor.then
  BY DEF TypeOK, MarkInv
<1>1. ASSUME NEW q \in Run, RecoverRejects(q) PROVE MarkInv'
  <2>1. approvalMark.run # q /\ interactionMark.run # q
    BY <1>1 DEF RecoverRejects, MarkInv
  <2>2. \A s \in Run : s # q => state'[s] = state[s]
    BY <1>0, <1>1 DEF RecoverRejects, Write
  <2> QED BY <1>1, <2>1, <2>2, MarksPass DEF RecoverRejects
<1>2. ASSUME NEW q \in Run, RecoverLater(q) PROVE MarkInv'
  BY <1>2, MarksPass DEF RecoverLater
<1>3. CASE RecoverDone
  BY <1>3, MarksPass DEF RecoverDone
<1>4. CASE RecoverDrain
  <2>1. Actor.pc = "idle" /\ Actor'.pc = "return" /\ Actor'.then = {"boot", "drain"}
    BY <1>0, <1>4 DEF RecoverDrain, ActorIdle, Actor, Worker, IdleJob
  <2>2. Waits
    BY <1>4 DEF RecoverDrain, Waits, Running, Decided
  <2> QED BY <2>1, <2>2, MarksRest
<1>5. ASSUME NEW q \in Run, NEW action \in Restoring, Recovers(q, action)
      PROVE  Quiet /\ Actor.pc = "idle" /\ state[q] = RestoredState[action]
  BY <1>5 DEF Recovers, OwnerInv, PhaseInv
<1>6. ASSUME NEW q \in Run, RecoverReplay(q) PROVE MarkInv'
  <2>1. Quiet
    BY <1>5, <1>6 DEF RecoverReplay, Restoring
  <2>2. Actor'.then = {"boot"}
    BY <1>0, <1>6 DEF RecoverReplay, Actor, Worker, IdleJob
  <2> QED BY <1>6, <2>1, <2>2, MarksNone DEF RecoverReplay, Quiet
<1>7. ASSUME NEW q \in Run, RecoverApproval(q) PROVE MarkInv'
  <2>1. Quiet /\ Actor.pc = "idle" /\ state[q] = "waiting_approval"
    BY <1>5, <1>7 DEF RecoverApproval, Restoring, RestoredState
  <2>2. PICK c \in Call :
          /\ approval[q][c] # "none" /\ IsLatestApproval(q, c)
          /\ \/ /\ job' = [job EXCEPT !["actor"] = [pc |-> "claim", run |-> q, call |-> c,
                                                    resume |-> FALSE, then |-> {"boot"}]]
                /\ UNCHANGED approvalMark
             \/ /\ approvalMark' = [run |-> q, call |-> c, cancel |-> FALSE]
                /\ UNCHANGED <<approval, job>>
    BY <1>7 DEF RecoverApproval
  <2>3. env'[q] /\ ~Running' /\ state'[q] = "waiting_approval" /\ interactionMark'.run = NoRun
    BY <1>7, <2>1 DEF RecoverApproval, Quiet, Running
  <2>4. CASE /\ job' = [job EXCEPT !["actor"] = [pc |-> "claim", run |-> q, call |-> c,
                                                 resume |-> FALSE, then |-> {"boot"}]]
             /\ UNCHANGED approvalMark
    <3>1. Actor'.then = {"boot"}
      BY <1>0, <2>4 DEF Actor, Worker
    <3> QED BY <2>1, <2>3, <2>4, <3>1, MarksNone DEF Quiet
  <2>5. CASE /\ approvalMark' = [run |-> q, call |-> c, cancel |-> FALSE]
             /\ UNCHANGED <<approval, job>>
    <3>1. Actor' = Actor /\ approvalMark'.run = q /\ approvalMark'.call = c
      BY <2>5 DEF Actor
    <3>2. IsLatestApproval(q, c)' /\ approval'[q][c] # "none"
      BY <2>2, <2>5 DEF IsLatestApproval
    <3>3. \A r \in Run : interactionMark'.run # r
      BY <2>3, RunAssumption
    <3> QED BY <1>0, <2>1, <2>3, <3>1, <3>2, <3>3 DEF MarkInv
  <2> QED BY <2>2, <2>4, <2>5
<1>8. ASSUME NEW q \in Run, RecoverInteraction(q) PROVE MarkInv'
  <2>1. Quiet /\ Actor.pc = "idle" /\ state[q] = "waiting_interaction"
    BY <1>5, <1>8 DEF RecoverInteraction, Restoring, RestoredState
  <2>2. PICK c \in Call :
          \/ /\ job' = [job EXCEPT !["actor"] = [pc |-> "claimAnswer", run |-> q, call |-> c,
                                                 resume |-> FALSE, then |-> {"boot"}]]
             /\ UNCHANGED interactionMark
          \/ /\ interactionMark' = [run |-> q, call |-> c]
             /\ UNCHANGED job
    BY <1>8 DEF RecoverInteraction
  <2>3. env'[q] /\ ~Running' /\ state'[q] = "waiting_interaction" /\ approvalMark'.run = NoRun
    BY <1>8, <2>1 DEF RecoverInteraction, Quiet, Running
  <2>4. CASE /\ job' = [job EXCEPT !["actor"] = [pc |-> "claimAnswer", run |-> q, call |-> c,
                                                 resume |-> FALSE, then |-> {"boot"}]]
             /\ UNCHANGED interactionMark
    <3>1. Actor'.then = {"boot"}
      BY <1>0, <2>4 DEF Actor, Worker
    <3> QED BY <2>1, <2>3, <2>4, <3>1, MarksNone DEF Quiet
  <2>5. CASE interactionMark' = [run |-> q, call |-> c] /\ UNCHANGED job
    <3>1. Actor' = Actor /\ interactionMark'.run = q
      BY <2>5 DEF Actor
    <3>2. \A r \in Run : approvalMark'.run # r
      BY <2>3, RunAssumption
    <3> QED BY <1>0, <2>1, <2>3, <3>1, <3>2 DEF MarkInv
  <2> QED BY <2>2, <2>4, <2>5
<1>9. CASE Boot
  <2>1. Quiet /\ UNCHANGED <<markVars, job>>
    BY <1>9 DEF Boot, OwnerInv, PhaseInv
  <2> QED BY <1>0, <2>1, MarksNone DEF Quiet, Actor
<1> QED BY <1>1, <1>2, <1>3, <1>4, <1>6, <1>7, <1>8, <1>9 DEF Recovery

LEMMA MarksTurnStep ==
  ASSUME OwnerInv, MarkInv, NEW r \in Run, TurnStep(r) PROVE MarkInv'
<1>1. CASE \E c \in Call : AnswerAborted(r, c)
  BY <1>1, MarksPass DEF AnswerAborted
<1>2. CASE ~\E c \in Call : AnswerAborted(r, c)
  <2> DEFINE Acts == turn[r].pc # "none" /\ UNCHANGED <<env, job, markVars>>
  <2>1. /\ Admit(r) => Acts
        /\ Dispatch(r) => Acts
        /\ Elicit(r) => Acts
        /\ Answered(r) => Acts
        /\ Finish(r) => Acts
        /\ Settled(r) => Acts
    BY DEF Admit, Dispatch, Elicit, Answered, Finish, Settled, Outcome
  <2>2. AskInteraction(r) \/ ApprovalHookFails(r) => Acts
    BY DEF AskInteraction, ApprovalHookFails
  <2>3. \A pc : ModelEnds(r, pc) \/ ToolReturns(r, pc) \/ ApprovalExpires(r, pc) => Acts
    BY DEF ModelEnds, ToolReturns, ApprovalExpires, ApprovalWaiter
  <2>4. \A class : AskApproval(r, class) \/ AllowTool(r, class) => Acts
    BY DEF AskApproval, AllowTool, NextCall
  <2>5. \A refused : ApprovalSettled(r, refused) => Acts
    BY DEF ApprovalSettled
  <2>6. Acts
    BY <1>2, <2>1, <2>2, <2>3, <2>4, <2>5, Zenon DEF TurnStep
  <2> QED BY <2>6, MarksTurn, RunAssumption DEF OwnerInv, TurnInv
<1> QED BY <1>1, <1>2

LEMMA MarksInit == Init => MarkInv
  BY RunAssumption DEF Init, Idle, MarkInv, NoMark, NoAnswerMark, IdleJob, Actor, Worker

LEMMA MarksNext ==
  ASSUME TypeOK, TypeOK', OwnerInv, MarkInv, [Next]_vars, Faults \subseteq {"manual"}
  PROVE  MarkInv'
<1>1. ASSUME NEW r \in Run, NEW c \in Call, AutomationAnswer(r, c) PROVE FALSE
  BY <1>1 DEF AutomationAnswer
<1>2. CASE UNCHANGED vars
  BY <1>2, MarksPass DEF vars
<1>3. CASE Crash
  <2>1. /\ approvalMark'.run = NoRun /\ interactionMark'.run = NoRun
        /\ Actor'.then = {}
    BY <1>3 DEF Crash, Actor, Worker, IdleJob, NoMark, NoAnswerMark
  <2> QED BY <2>1, MarksNone
<1> QED
  BY <1>1, <1>2, <1>3, MarksCommand, MarksTask, MarksJobStep, MarksTurnStep, MarksRecovery
  DEF Next

(* A recovered approval keeps the thread busy only while its run waits for *)
(* it or the job that finishRecoveredApproval will end is continuing it,   *)
(* and a recovered question only while its run waits for the answer, when  *)
(* no request of a thread's automation, no failing storage and no decision *)
(* that overtakes its own pause disturbs the worker: in whatever order the *)
(* user answers, interrupts, lets time out, queues and restarts.           *)
THEOREM MarksLetGo == ASSUME Faults \subseteq {"manual"} PROVE Spec => []MarksReleased
<1>1. Init => OwnerInv /\ MarkInv
  BY OwnerInit, MarksInit
<1>2. TypeOK /\ TypeOK' /\ OwnerInv /\ MarkInv /\ [Next]_vars => (OwnerInv /\ MarkInv)'
  BY OwnerNext, MarksNext
<1>3. TypeOK /\ MarkInv => MarksReleased
  <2>1. ASSUME TypeOK, MarkInv, NEW r \in Run, approvalMark.run = r
        PROVE  \/ state[r] = "waiting_approval"
               \/ \E w \in Worker : "finish" \in job[w].then /\ job[w].run = r
    BY <2>1 DEF MarkInv, Finishing, Actor, Worker
  <2>2. ASSUME TypeOK, MarkInv, NEW r \in Run, interactionMark.run = r
        PROVE  state[r] = "waiting_interaction"
    BY <2>2 DEF MarkInv
  <2>3. TypeOK => approvalMark.run \in Run \cup {NoRun} /\ interactionMark.run \in Run \cup {NoRun}
    BY DEF TypeOK, ApprovalMark, AnswerMark
  <2> QED BY <2>1, <2>2, <2>3 DEF MarksReleased
<1> QED BY <1>1, <1>2, <1>3, TypeCorrect, PTL DEF Spec

-----------------------------------------------------------------------------
(***************************************************************************)
(* The tool calls of a thread, with every fault but automation: a call     *)
(* that was asked about is executed only if it was accepted, and a write   *)
(* is not sent again unless the user says so.                              *)
(***************************************************************************)
(* The call of r's record may be executed: nobody was asked about it, or   *)
(* it was accepted.                                                        *)
Fit(r) == tool[r].call \in Call => approval[r][tool[r].call] \in {"none", "accept"}

(* A call yet to be made is undecided, and may be sent. *)
FreshInv ==
  \A r \in Run, c \in Call :
    /\ licence[r][c] >= 0
    /\ c > calls[r] => approval[r][c] = "none" /\ licence[r][c] >= 1

(* What is asked about is the newest call, which was never sent; what      *)
(* executes, or may have been executed, is fit.                            *)
RecordInv ==
  \A r \in Run :
    /\ state[r] = "waiting_approval" =>
         /\ tool[r].call = calls[r] /\ approval[r][calls[r]] # "none"
         /\ licence[r][calls[r]] >= 1
    /\ state[r] \in {"executing_tool", "paused_uncertain"} => Fit(r)

(* A turn that is about to send its call may. *)
TurnCallInv ==
  \A r \in Run :
    /\ turn[r].pc \in {"waitApproval", "dispatch"} =>
         turn[r].tool.call \in Call /\ licence[r][turn[r].tool.call] >= 1
    /\ turn[r].pc = "dispatch" => state[r] # "waiting_approval"

(* So may the actor's job, and the recovery that is to start it.           *)
Replays == {"replay", "validate", "dispatch", "replaying"}

JobCallInv ==
  LET r == Actor.run IN
  /\ Actor.pc = "claimed" => tool[r].call = Actor.call /\ licence[r][Actor.call] >= 1
  /\ Actor.pc \in Replays => Fit(r)
  /\ Actor.pc \in Replays \ {"replaying"} /\ HasTool(r) /\ tool[r].class = "write" =>
       licence[r][tool[r].call] >= 1
  /\ Actor.pc \in {"dispatch", "replaying"} => state[r] = "executing_tool"

TodoCallInv ==
  \A r \in Run : todo[r] = "replay_tool" => Fit(r) /\ tool[r].class # "write"

CallInv == FreshInv /\ RecordInv /\ TurnCallInv /\ JobCallInv /\ TodoCallInv

-----------------------------------------------------------------------------
(* Decisions, once given, stay.                                            *)
Decides ==
  \A r \in Run, c \in Call :
    \/ approval'[r][c] = approval[r][c]
    \/ approval[r][c] = "pending" /\ approval'[r][c] \in Decision

LEMMA FitKept ==
  ASSUME NEW r \in Run, Fit(r), Decides, tool'[r] = tool[r] \/ tool'[r] = NoTool
  PROVE  Fit(r)'
  BY DEF Fit, Decides, NoTool, Call

(* What the job and recovery know about the run they work on. *)
LEMMA WhoWorks ==
  ASSUME OwnerInv
  PROVE  /\ Actor.pc \in Replays \cup {"claimed"} =>
              /\ Actor.run \in Run /\ active = NoRun
              /\ \A s \in Run : turn[s].pc = "none" /\ todo[s] # "replay_tool"
         /\ \A s \in Run : todo[s] = "replay_tool" =>
              /\ state[s] = "preparing" /\ Actor.pc = "idle"
              /\ \A q \in Run : turn[q].pc = "none"
         /\ \A s \in Run : state[s] = "waiting_approval" => HasTool(s)
<1>1. Actor.pc \in Replays \cup {"claimed"} => Actor.pc \in Controlling /\ Actor.pc # "idle"
  BY DEF Replays, Controlling
<1>2. active = NoRun => \A s \in Run : turn[s].pc = "none"
  BY RunAssumption DEF OwnerInv, TurnInv
<1>3. \A s \in Run : todo[s] = "replay_tool" =>
        state[s] = "preparing" /\ Actor.pc = "idle" /\ active = NoRun
  BY DEF OwnerInv, PhaseInv, Quiet, Restoring, RestoredState
<1>4. \A s \in Run : state[s] = "waiting_approval" => HasTool(s)
  BY DEF OwnerInv, ToolInv
<1> QED BY <1>1, <1>2, <1>3, <1>4 DEF OwnerInv, ActorInv

LEMMA RecordsKept ==
  ASSUME TypeOK, OwnerInv, FreshInv, RecordInv, UNCHANGED <<licence, calls>>, Decides,
         \A s \in Run :
           \/ state'[s] = state[s] /\ tool'[s] = tool[s]
           \/ state'[s] \notin {"waiting_approval", "executing_tool", "paused_uncertain"}
           \/ state'[s] # "waiting_approval" /\ tool'[s] = tool[s] /\ Fit(s)
  PROVE  FreshInv' /\ RecordInv'
<1>1. FreshInv'
  BY DEF FreshInv, Decides
<1>2. ASSUME NEW s \in Run, state'[s] = "waiting_approval"
      PROVE  /\ tool'[s].call = calls'[s] /\ approval'[s][calls'[s]] # "none"
             /\ licence'[s][calls'[s]] >= 1
  <2>1. /\ state[s] = "waiting_approval" /\ tool'[s] = tool[s] /\ tool[s].call = calls[s]
        /\ approval[s][calls[s]] # "none" /\ licence[s][calls[s]] >= 1
    BY <1>2 DEF RecordInv
  <2>2. calls[s] \in Call
    BY <2>1, WhoWorks, BoundAssumption DEF HasTool, TypeOK, Call
  <2> QED BY <2>1, <2>2 DEF Decides, Decision
<1>3. ASSUME NEW s \in Run, state'[s] \in {"executing_tool", "paused_uncertain"}
      PROVE  Fit(s)'
  BY <1>3, FitKept DEF RecordInv
<1> QED BY <1>1, <1>2, <1>3 DEF RecordInv

(* Steps after which no job works on the runs whose records they touch.    *)
LEMMA CallKept ==
  ASSUME TypeOK, OwnerInv, CallInv, UNCHANGED <<licence, calls>>, Decides,
         \A s \in Run :
           /\ turn'[s].pc \in {"waitApproval", "dispatch"} =>
                turn'[s].pc = turn[s].pc /\ turn'[s].tool = turn[s].tool
           /\ todo'[s] = "replay_tool" => todo[s] = "replay_tool",
         \A s \in Run :
           \/ state'[s] = state[s] /\ tool'[s] = tool[s]
           \/ /\ \/ state'[s] \notin {"waiting_approval", "executing_tool", "paused_uncertain"}
                 \/ state'[s] # "waiting_approval" /\ tool'[s] = tool[s] /\ Fit(s)
              /\ todo'[s] # "replay_tool",
         \/ Actor'.pc \notin Replays \cup {"claimed"}
         \/ /\ Actor'.pc = Actor.pc /\ Actor'.run = Actor.run /\ Actor'.call = Actor.call
            /\ UNCHANGED <<state, tool>>
  PROVE  CallInv'
<1> USE DEF CallInv
<1>1. FreshInv' /\ RecordInv'
  <2>1. \A s \in Run :
           \/ state'[s] = state[s] /\ tool'[s] = tool[s]
           \/ state'[s] \notin {"waiting_approval", "executing_tool", "paused_uncertain"}
           \/ state'[s] # "waiting_approval" /\ tool'[s] = tool[s] /\ Fit(s)
    OBVIOUS
  <2> QED BY <2>1, RecordsKept
<1>2. TurnCallInv'
  BY DEF TurnCallInv
<1>3. JobCallInv'
  <2>1. CASE Actor'.pc \notin Replays \cup {"claimed"}
    BY <2>1 DEF JobCallInv, Replays
  <2>2. CASE /\ Actor'.pc \in Replays \cup {"claimed"}
             /\ Actor'.pc = Actor.pc /\ Actor'.run = Actor.run /\ Actor'.call = Actor.call
             /\ UNCHANGED <<state, tool>>
    <3>1. PICK q \in Run : q = Actor.run
      BY <2>2, WhoWorks
    <3>2. Actor'.run = q /\ (Fit(q) => Fit(q)')
      BY <2>2, <3>1, FitKept
    <3>3. Fit(q)' => Fit(Actor.run)'
      BY <3>2 DEF Fit
    <3>4. Fit(Actor.run) => Fit(q)
      BY <3>1 DEF Fit
    <3> QED BY <2>2, <3>1, <3>2, <3>3, <3>4 DEF JobCallInv, HasTool, Replays
  <2> QED BY <2>1, <2>2
<1>4. TodoCallInv'
  <2>1. \A s \in Run : todo'[s] = "replay_tool" => todo[s] = "replay_tool" /\ tool'[s] = tool[s]
    OBVIOUS
  <2>2. \A s \in Run : todo'[s] = "replay_tool" => Fit(s)'
    BY <2>1, FitKept DEF TodoCallInv
  <2> QED BY <2>1, <2>2 DEF TodoCallInv
<1> QED BY <1>1, <1>2, <1>3, <1>4

(* Steps of the actor that bring the call of its run nearer to being sent. *)
LEMMA CallJobs ==
  ASSUME TypeOK, OwnerInv, CallInv, NEW r \in Run, Actor'.run = r,
         \A s \in Run : turn'[s].pc = "none" /\ todo'[s] # "replay_tool",
         FreshInv', RecordInv',
         Actor'.pc = "claimed" => tool'[r].call = Actor'.call /\ licence'[r][Actor'.call] >= 1,
         Actor'.pc \in Replays => Fit(r)',
         Actor'.pc \in Replays \ {"replaying"} /\ HasTool(r)' /\ tool'[r].class = "write" =>
           licence'[r][tool'[r].call] >= 1,
         Actor'.pc \in {"dispatch", "replaying"} => state'[r] = "executing_tool"
  PROVE  CallInv'
<1>1. TurnCallInv' /\ TodoCallInv'
  BY DEF TurnCallInv, TodoCallInv
<1>2. Fit(r)' => Fit(Actor.run)'
  BY DEF Fit
<1>3. JobCallInv'
  BY <1>2 DEF JobCallInv, HasTool
<1> QED BY <1>1, <1>3 DEF CallInv
-----------------------------------------------------------------------------
(* Commands and the engine's own tasks.                                    *)

(* With the thread free no turn executes, and recovery is over.            *)
LEMMA FreeThread ==
  ASSUME OwnerInv, Admitted
  PROVE  /\ Actor.pc = "idle" /\ \A s \in Run : todo[s] # "replay_tool"
         /\ ~Busy => \A s \in Run : turn[s].pc = "none"
  BY RunAssumption DEF OwnerInv, PhaseInv, TurnInv, Admitted, ActorIdle, Actor, Busy, Running

LEMMA CallResolve ==
  ASSUME TypeOK, OwnerInv, CallInv, NEW q \in Run, NEW resolution \in {"fail", "mark_done", "retry"},
         ResolveUncertain(q, resolution)
  PROVE  CallInv'
<1> USE DEF Worker
<1>0. /\ Actor.pc = "idle" /\ state[q] = "paused_uncertain" /\ HasTool(q) /\ Fit(q)
      /\ UNCHANGED <<tool, calls, approval, todo, turn>>
      /\ \A s \in Run : turn[s].pc = "none" /\ todo[s] # "replay_tool"
      /\ job \in [Worker -> JobRecord] /\ state \in [Run -> RunStates \cup {"absent"}]
  BY FreeThread DEF TypeOK, ResolveUncertain, OwnerInv, ToolInv, CallInv, RecordInv
<1>a. Decides
  BY <1>0 DEF Decides
<1>b. /\ \A s \in Run : s # q => state'[s] = state[s]
      /\ state'[q] \in {"failed", "preparing"}
  BY <1>0 DEF ResolveUncertain
<1>1. CASE resolution = "fail" /\ UNCHANGED <<job, licence, retries>>
  BY <1>0, <1>a, <1>b, <1>1, CallKept DEF Actor, Replays
<1>2. CASE /\ job' = [job EXCEPT !["actor"] = [IdleJob EXCEPT !.pc = "markDone", !.run = q]]
           /\ UNCHANGED <<licence, retries>>
  <2>1. Actor'.pc = "markDone"
    BY <1>0, <1>2 DEF Actor, IdleJob
  <2> QED BY <1>0, <1>a, <1>b, <1>2, <2>1, CallKept DEF Replays
<1>3. CASE /\ job' = [job EXCEPT !["actor"] = [IdleJob EXCEPT !.pc = "replay", !.run = q]]
           /\ licence' = IF HasTool(q) THEN [licence EXCEPT ![q][tool[q].call] = @ + 1] ELSE licence
  <2>1. Actor'.pc = "replay" /\ Actor'.run = q
    BY <1>0, <1>3 DEF Actor, IdleJob
  <2>2. tool[q].call \in Call
    BY <1>0, BoundAssumption DEF HasTool, TypeOK, PreparedTool, Call
  <2>3. /\ \A s \in Run, c \in Call : licence'[s][c] \in {licence[s][c], licence[s][c] + 1}
        /\ licence'[q][tool[q].call] = licence[q][tool[q].call] + 1
        /\ \A s \in Run, c \in Call : licence[s][c] \in Int
    BY <1>0, <1>3, <2>2 DEF TypeOK
  <2>4. FreshInv'
    BY <1>0, <2>3 DEF CallInv, FreshInv
  <2>5. RecordInv'
    <3>1. ASSUME NEW s \in Run, state'[s] = "waiting_approval"
          PROVE  /\ tool'[s].call = calls'[s] /\ approval'[s][calls'[s]] # "none"
                 /\ licence'[s][calls'[s]] >= 1
      <4>1. /\ state[s] = "waiting_approval" /\ tool[s].call = calls[s]
            /\ approval[s][calls[s]] # "none" /\ licence[s][calls[s]] >= 1
        BY <1>b, <3>1 DEF CallInv, RecordInv
      <4>2. calls[s] \in Call
        BY <4>1, WhoWorks, BoundAssumption DEF HasTool, TypeOK, Call
      <4> QED BY <1>0, <2>3, <4>1, <4>2
    <3>2. \A s \in Run : state'[s] \in {"executing_tool", "paused_uncertain"} => Fit(s)'
      BY <1>0, <1>b DEF CallInv, RecordInv, Fit
    <3> QED BY <3>1, <3>2 DEF RecordInv
  <2>6. licence'[q][tool[q].call] >= 1
    BY <2>2, <2>3 DEF CallInv, FreshInv
  <2>7. Fit(q)'
    BY <1>0 DEF Fit
  <2> QED BY <1>0, <2>1, <2>4, <2>5, <2>6, <2>7, CallJobs
<1> QED BY <1>1, <1>2, <1>3 DEF ResolveUncertain

LEMMA CallCommand == ASSUME TypeOK, OwnerInv, CallInv, Command PROVE CallInv'
<1> USE DEF Worker
<1>0. /\ job \in [Worker -> JobRecord] /\ state \in [Run -> RunStates \cup {"absent"}]
      /\ turn \in [Run -> TurnRecord]
      /\ approval \in [Run -> [Call -> {"none", "pending"} \cup Decision]]
      /\ (UNCHANGED approval => Decides)
  BY DEF TypeOK, Decides
<1>1. ASSUME NEW q \in Run, Submit(q) PROVE CallInv'
  <2>1. Actor'.pc = "start" /\ \A s \in Run : turn[s].pc = "none" /\ todo[s] # "replay_tool"
    BY <1>0, <1>1, FreeThread DEF Submit, StartRun, Actor
  <2>2. state'[q] = "queued" /\ \A s \in Run : s # q => state'[s] = state[s]
    BY <1>0, <1>1 DEF Submit
  <2> QED BY <1>0, <1>1, <2>1, <2>2, CallKept DEF Submit, Replays
<1>2. ASSUME NEW q \in Run, Enqueue(q) PROVE CallInv'
  <2>1. /\ Actor' = Actor /\ Actor.pc = "idle" /\ \A s \in Run : todo[s] # "replay_tool"
    BY <1>0, <1>2, FreeThread DEF Enqueue, Actor, CallInv, TurnCallInv
  <2>2. state'[q] = "queued" /\ \A s \in Run : s # q => state'[s] = state[s]
    BY <1>0, <1>2 DEF Enqueue
  <2> QED BY <1>0, <1>2, <2>1, <2>2, CallKept DEF Enqueue, Replays
<1>3. ASSUME NEW q \in Run, RemoveQueued(q) PROVE CallInv'
  <2>1. /\ Actor' = Actor /\ Actor.pc = "idle" /\ \A s \in Run : todo[s] # "replay_tool"
    BY <1>0, <1>3, FreeThread DEF RemoveQueued, Actor, CallInv, TurnCallInv
  <2>2. state'[q] = "interrupted" /\ \A s \in Run : s # q => state'[s] = state[s]
    BY <1>0, <1>3 DEF RemoveQueued
  <2> QED BY <1>0, <1>3, <2>1, <2>2, CallKept DEF RemoveQueued, Replays
<1>4. ASSUME NEW q \in Run, Resume(q) PROVE CallInv'
  <2>1. Actor'.pc = "start"
    BY <1>0, <1>4 DEF Resume, StartRun, Actor
  <2> QED BY <1>0, <1>4, <2>1, CallKept DEF Resume, Replays
<1>5. ASSUME NEW q \in Run, NEW c \in Call, NEW decision \in Decision,
             ApprovalResponse(q, c, decision)
      PROVE  CallInv'
  <2>1. Actor.pc = "idle" /\ (Actor' = Actor \/ Actor'.pc \in {"wait", "claim"})
    <3>1. Actor.pc = "idle"
      BY <1>5, FreeThread DEF ApprovalResponse
    <3>2. CASE ApprovalWaiter(q, c)
      BY <1>5, <3>1, <3>2 DEF ApprovalResponse, Actor
    <3>3. CASE ~ApprovalWaiter(q, c) /\ ApprovalMarked(q, c)
      BY <1>0, <1>5, <3>1, <3>3 DEF ApprovalResponse, Actor
    <3>4. CASE ~ApprovalWaiter(q, c) /\ ~ApprovalMarked(q, c)
      BY <1>0, <1>5, <3>1, <3>4 DEF ApprovalResponse, Actor
    <3> QED BY <3>2, <3>3, <3>4
  <2>2. Decides
    BY <1>0, <1>5 DEF ApprovalResponse, Decides
  <2> QED BY <1>5, <2>1, <2>2, CallKept DEF ApprovalResponse, Replays
<1>6. ASSUME NEW q \in Run, NEW c \in Call, InteractionResponse(q, c) PROVE CallInv'
  <2>1. Actor.pc = "idle" /\ (Actor' = Actor \/ Actor'.pc \in {"wait", "claimAnswer"})
    <3>1. Actor.pc = "idle"
      BY <1>6, FreeThread DEF InteractionResponse
    <3>2. CASE AnswerWaiter(q, c)
      BY <1>6, <3>1, <3>2 DEF InteractionResponse, Answer, Actor
    <3>3. CASE ~AnswerWaiter(q, c) /\ AnswerMarked(q, c)
      BY <1>0, <1>6, <3>1, <3>3 DEF InteractionResponse, Answer, Actor
    <3>4. CASE ~AnswerWaiter(q, c) /\ ~AnswerMarked(q, c)
      BY <1>0, <1>6, <3>1, <3>4 DEF InteractionResponse, Answer, Actor
    <3> QED BY <3>2, <3>3, <3>4
  <2>2. \A s \in Run : turn'[s].pc = turn[s].pc /\ turn'[s].tool = turn[s].tool
    BY <1>0, <1>6 DEF InteractionResponse, Answer, TurnRecord
  <2> QED BY <1>0, <1>6, <2>1, <2>2, CallKept DEF InteractionResponse, Answer, Replays
<1>7. CASE Interrupt
  <2>1. \A s \in Run : turn'[s].pc = turn[s].pc /\ turn'[s].tool = turn[s].tool
    BY <1>0, <1>7 DEF Interrupt, TurnRecord
  <2> QED BY <1>0, <1>7, <2>1, CallKept DEF Interrupt, Actor
<1> QED BY <1>1, <1>2, <1>3, <1>4, <1>5, <1>6, <1>7, CallResolve DEF Command

LEMMA CallTask == ASSUME TypeOK, OwnerInv, CallInv, ActorTask \/ PauseThread PROVE CallInv'
<1> USE DEF Worker
<1>0. /\ job \in [Worker -> JobRecord] /\ turn \in [Run -> TurnRecord]
      /\ approval \in [Run -> [Call -> {"none", "pending"} \cup Decision]]
      /\ (UNCHANGED approval => Decides)
  BY DEF TypeOK, Decides
<1>1. ASSUME NEW name \in {"drain", "afterTurn"}, RunTask(name) PROVE CallInv'
  <2>1. Actor'.pc \in {"wait", "return"}
    BY <1>0, <1>1 DEF RunTask, IdleJob, Actor
  <2> QED BY <1>0, <1>1, <2>1, CallKept DEF RunTask, Replays
<1>2. ASSUME NEW decision \in Decision, MarkWaits, DecideMarked(decision)
      PROVE  Decides /\ Actor'.pc = "wait"
  <2>1. PICK r \in Run, c \in Call : ApprovalMarked(r, c) /\ approval[r][c] = "pending"
    BY <1>2 DEF MarkWaits
  <2>2. approval' = [approval EXCEPT ![r][c] = decision]
    BY <1>2, <2>1 DEF DecideMarked, ApprovalMarked
  <2> QED BY <1>0, <1>2, <2>1, <2>2 DEF Decides, DecideMarked, Actor, IdleJob
<1>3. CASE PauseApproval
  <2>1. Decides /\ (Actor'.pc = "wait" \/ Actor' = Actor)
    BY <1>0, <1>2, <1>3 DEF PauseApproval, Decision, Actor
  <2> QED BY <1>3, <2>1, CallKept DEF PauseApproval, Replays
<1>4. CASE RecoveredApprovalTimeout
  <2>1. Decides /\ Actor'.pc = "wait"
    BY <1>2, <1>4 DEF RecoveredApprovalTimeout, Decision
  <2> QED BY <1>4, <2>1, CallKept DEF RecoveredApprovalTimeout, Replays
<1>5. CASE PauseThread
  <2>1. \A s \in Run : turn'[s].pc = turn[s].pc /\ turn'[s].tool = turn[s].tool
    BY <1>0, <1>5 DEF PauseThread, TurnRecord
  <2> QED BY <1>0, <1>5, <2>1, CallKept DEF PauseThread, Actor
<1> QED BY <1>1, <1>3, <1>4, <1>5 DEF ActorTask
-----------------------------------------------------------------------------
(* The actor's job.                                                        *)

(* A job writes the record of its run and goes on to something else than   *)
(* sending the call.                                                       *)
LEMMA CallLetsGo ==
  ASSUME TypeOK, OwnerInv, CallInv, NEW r \in Run,
         Actor'.pc \notin Replays \cup {"claimed"},
         UNCHANGED <<licence, calls, approval, todo>>,
         \A s \in Run : /\ turn[s].pc = "none" /\ todo[s] # "replay_tool"
                        /\ turn'[s].pc \in {"none", "admit"},
         \A s \in Run : s # r => state'[s] = state[s] /\ tool'[s] = tool[s],
         \/ state'[r] = state[r] /\ tool'[r] = tool[r]
         \/ state'[r] \notin {"waiting_approval", "executing_tool", "paused_uncertain"}
         \/ state'[r] = "paused_uncertain" /\ tool'[r] = tool[r] /\ Fit(r)
  PROVE  CallInv'
<1>1. Decides
  BY DEF Decides
<1> QED BY <1>1, CallKept

(* It may send it with the next step. *)
LEMMA CallGoesOn ==
  ASSUME TypeOK, OwnerInv, CallInv, NEW r \in Run, r = Actor.run,
         Actor.pc \in Replays, NEW pc \in Replays, Step("actor", pc),
         UNCHANGED <<licence, calls, approval, turn, todo>>, Fit(r),
         HasTool(r) /\ tool[r].class = "write" => licence[r][tool[r].call] >= 1,
         \/ Write(r, "executing_tool", tool[r])
         \/ UNCHANGED <<state, tool>> /\ pc \notin {"dispatch", "replaying"}
  PROVE  CallInv'
<1>0. /\ \A s \in Run : turn'[s].pc = "none" /\ todo'[s] # "replay_tool"
      /\ Actor'.pc = pc /\ Actor'.run = r /\ Decides
  BY WhoWorks, ActorSteps DEF Decides
<1>1. /\ \A s \in Run : /\ tool'[s] = tool[s]
                        /\ state'[s] = state[s] \/ (s = r /\ state'[s] = "executing_tool")
      /\ pc \in {"dispatch", "replaying"} => state'[r] = "executing_tool"
  BY DEF TypeOK, Write
<1>2. FreshInv' /\ RecordInv'
  BY <1>0, <1>1, RecordsKept DEF CallInv
<1>3. Fit(r)'
  BY <1>0, <1>1, FitKept
<1>4. pc # "claimed"
  BY DEF Replays
<1> QED BY <1>0, <1>1, <1>2, <1>3, <1>4, CallJobs DEF HasTool

(* tool.execute is called for a call that may be sent.                     *)
LEMMA CallSent ==
  ASSUME TypeOK, OwnerInv, FreshInv, RecordInv, NEW r \in Run, NEW prepared \in PreparedTool,
         Send(r, prepared), prepared.call <= calls[r], prepared.call # 0,
         prepared.class = "write" => licence[r][prepared.call] >= 1,
         state[r] # "waiting_approval", UNCHANGED <<state, tool, approval, calls>>
  PROVE  FreshInv' /\ RecordInv'
<1>0. /\ licence \in [Run -> [Call -> Int]] /\ calls \in [Run -> 0 .. MaxCalls]
      /\ prepared.call \in Call
  BY BoundAssumption DEF TypeOK, PreparedTool, Call
<1>1. \A s \in Run, c \in Call :
        \/ licence'[s][c] = licence[s][c]
        \/ /\ s = r /\ c = prepared.call /\ licence[s][c] >= 1
           /\ licence'[s][c] = licence[s][c] - 1
  BY <1>0 DEF Send, FreshInv
<1>a. \A s \in Run, c \in Call :
        licence[s][c] \in Int /\ c \in Int /\ calls[s] \in Int /\ calls'[s] = calls[s]
  BY <1>0, BoundAssumption DEF Call
<1>2. FreshInv'
  BY <1>1, <1>a DEF FreshInv
<1>3. ASSUME NEW s \in Run, state'[s] = "waiting_approval"
      PROVE  /\ tool'[s].call = calls'[s] /\ approval'[s][calls'[s]] # "none"
             /\ licence'[s][calls'[s]] >= 1
  <2>1. s # r /\ tool[s].call = calls[s] /\ tool[s].call # 0
    BY <1>3, WhoWorks DEF HasTool, RecordInv
  <2>2. calls[s] \in Call
    BY <1>0, <2>1, BoundAssumption DEF Call
  <2> QED BY <1>1, <1>3, <2>1, <2>2 DEF RecordInv
<1>4. \A s \in Run : state'[s] \in {"executing_tool", "paused_uncertain"} => Fit(s)'
  BY DEF RecordInv, Fit
<1> QED BY <1>2, <1>3, <1>4 DEF RecordInv

(* What is known of the run whose record a job works on.                   *)
LEMMA JobKnows ==
  ASSUME OwnerInv, Actor.pc \in Controlling
  PROVE  /\ Actor.run \in Run
         /\ \A s \in Run : turn[s].pc = "none" /\ todo[s] # "replay_tool"
  BY RunAssumption DEF OwnerInv, ActorInv, PhaseInv, TurnInv, Controlling, Restoring

LEMMA CallStarts ==
  ASSUME TypeOK, OwnerInv, CallInv,
         StartFails("actor") \/ StartPrepares("actor") \/ Launch("actor") \/ MarkDone("actor")
  PROVE  CallInv'
<1> DEFINE r == Actor.run
<1>0. /\ r \in Run /\ \A s \in Run : turn[s].pc = "none" /\ todo[s] # "replay_tool"
      /\ state \in [Run -> RunStates \cup {"absent"}] /\ tool \in [Run -> PreparedTool]
      /\ turn \in [Run -> TurnRecord]
  BY JobKnows DEF TypeOK, StartFails, StartPrepares, Launch, MarkDone, Actor, Controlling
<1>1. CASE StartFails("actor")
  <2>1. Actor'.pc = "idle"
    BY <1>1, ActorThrows DEF StartFails, IdleJob
  <2>2. /\ \A s \in Run : s # r => state'[s] = state[s]
        /\ state'[r] = state[r] \/ state'[r] = "failed"
    BY <1>0, <1>1 DEF StartFails, Actor
  <2> QED BY <1>0, <1>1, <2>1, <2>2, CallLetsGo DEF StartFails, Replays
<1>2. CASE StartPrepares("actor")
  <2>1. Actor'.pc = "launch"
    BY <1>2, ActorSteps DEF StartPrepares
  <2>2. /\ \A s \in Run : s # r => state'[s] = state[s]
        /\ state'[r] = state[r] \/ state'[r] = "preparing"
    BY <1>0, <1>2 DEF StartPrepares, Actor
  <2> QED BY <1>0, <1>2, <2>1, <2>2, CallLetsGo DEF StartPrepares, Replays
<1>3. CASE Launch("actor")
  <2>1. Actor'.pc = "return"
    BY <1>3, ActorSteps DEF Launch
  <2>2. \A s \in Run : turn'[s].pc \in {"none", "admit"}
    BY <1>0, <1>3 DEF Launch, Actor, NoTurn
  <2> QED BY <1>0, <1>3, <2>1, <2>2, CallLetsGo DEF Launch, Replays
<1>4. CASE MarkDone("actor")
  <2>1. Write(r, "streaming_model", NoTool) /\ ResumeRun("actor")
    BY <1>4 DEF MarkDone, OwnerInv, ActorInv, Actor
  <2>2. /\ \A s \in Run : s # r => state'[s] = state[s] /\ tool'[s] = tool[s]
        /\ state'[r] = "streaming_model" /\ Actor'.pc = "start"
    BY <1>0, <2>1, ActorResumes DEF Write
  <2> QED BY <1>0, <1>4, <2>2, CallLetsGo DEF MarkDone, Replays
<1> QED BY <1>1, <1>2, <1>3, <1>4

LEMMA CallWaits ==
  ASSUME TypeOK, OwnerInv, CallInv, Return("actor") \/ Wait("actor") \/ ClaimAnswer("actor")
  PROVE  CallInv'
<1> USE DEF Worker
<1> DEFINE r == Actor.run
<1>0. /\ job \in [Worker -> JobRecord]
      /\ state \in [Run -> RunStates \cup {"absent"}] /\ tool \in [Run -> PreparedTool]
      /\ (UNCHANGED approval => Decides)
  BY DEF TypeOK, Decides
<1>1. CASE Return("actor")
  <2>1. Actor'.pc \in {"idle", "start"}
    <3>1. \/ job' = [job EXCEPT !["actor"] = IdleJob]
          \/ \E next : StartRun("actor", next, FALSE, Actor.then \cap {"boot"})
      BY <1>1, Zenon DEF Return, Actor
    <3> QED BY <1>0, <3>1 DEF StartRun, IdleJob, Actor
  <2> QED BY <1>0, <1>1, <2>1, CallKept DEF Return, Replays
<1>2. CASE Wait("actor")
  <2>1. Actor'.pc \in {"claim", "claimAnswer", "return"}
    BY <1>0, <1>2 DEF Wait, Step, Actor, JobRecord
  <2> QED BY <1>0, <1>2, <2>1, CallKept DEF Wait, Replays
<1>3. CASE ClaimAnswer("actor")
  <2>1. Actor.pc = "claimAnswer" /\ r \in Run
    BY <1>3 DEF ClaimAnswer, Actor, OwnerInv, ActorInv
  <2>2. \/ /\ ~Running /\ Write(r, "streaming_model", NoTool) /\ ResumeRun("actor")
           /\ state[r] = "waiting_interaction"
        \/ UNCHANGED <<state, tool>> /\ Step("actor", "return")
    BY <1>3, Zenon DEF ClaimAnswer, Actor
  <2>3. CASE /\ ~Running /\ Write(r, "streaming_model", NoTool) /\ ResumeRun("actor")
             /\ state[r] = "waiting_interaction"
    <3>1. /\ \A s \in Run : s # r => state'[s] = state[s] /\ tool'[s] = tool[s]
          /\ state'[r] = "streaming_model" /\ Actor'.pc = "start"
      BY <1>0, <2>1, <2>3, ActorResumes DEF Write
    <3>2. todo[r] # "replay_tool"
      BY <2>1, <2>3, WhoWorks
    <3> QED BY <1>0, <1>3, <2>1, <3>1, <3>2, CallKept DEF ClaimAnswer, Replays
  <2>4. CASE UNCHANGED <<state, tool>> /\ Step("actor", "return")
    <3>1. Actor'.pc = "return"
      BY <2>4, ActorSteps
    <3> QED BY <1>0, <1>3, <2>4, <3>1, CallKept DEF ClaimAnswer, Replays
  <2> QED BY <2>2, <2>3, <2>4
<1> QED BY <1>1, <1>2, <1>3
(* The claimed decision is the one about the newest call, which is the one *)
(* the record names.                                                       *)
LEMMA CallClaim == ASSUME TypeOK, OwnerInv, CallInv, Claim("actor") PROVE CallInv'
<1> USE DEF Worker
<1>0. PICK r, c : r = Actor.run /\ c = Actor.call
  OBVIOUS
<1> DEFINE claimable == ~Running /\ Decided(r, c) /\ IsLatestApproval(r, c)
                          /\ state[r] = "waiting_approval"
<1>1. /\ r \in Run /\ c \in 0 .. MaxCalls /\ Decides /\ Actor.pc = "claim"
      /\ job \in [Worker -> JobRecord] /\ state \in [Run -> RunStates \cup {"absent"}]
  BY <1>0 DEF Claim, Actor, OwnerInv, ActorInv, TypeOK, JobRecord, Decides
<1>2. \/ /\ claimable /\ Step("actor", "claimed")
         /\ state' = [state EXCEPT ![r] = AfterDecision[approval[r][c]]]
      \/ /\ ~claimable /\ UNCHANGED state
         /\ job' = [job EXCEPT !["actor"].pc = "return", !["actor"].then = @ \ {"finish"}]
  BY <1>0, Zenon DEF Claim, Actor
<1>3. CASE /\ ~claimable /\ UNCHANGED state
           /\ job' = [job EXCEPT !["actor"].pc = "return", !["actor"].then = @ \ {"finish"}]
  <2>1. Actor'.pc = "return"
    BY <1>1, <1>3 DEF Actor, JobRecord
  <2> QED BY <1>1, <1>3, <2>1, CallKept DEF Claim, Replays
<1>4. CASE /\ claimable /\ Step("actor", "claimed")
           /\ state' = [state EXCEPT ![r] = AfterDecision[approval[r][c]]]
  <2>1. /\ Actor'.pc = "claimed" /\ Actor'.run = r /\ Actor'.call = c
        /\ UNCHANGED <<tool, calls, approval, licence, turn, todo>>
    BY <1>0, <1>4, ActorSteps DEF Claim
  <2>2. /\ tool[r].call = calls[r] /\ approval[r][calls[r]] # "none" /\ licence[r][calls[r]] >= 1
        /\ calls[r] \in Call
    <3>1. calls[r] \in 0 .. MaxCalls /\ tool[r].call # 0
      BY <1>1, <1>4, WhoWorks DEF TypeOK, HasTool
    <3> QED BY <1>1, <1>4, <3>1, BoundAssumption DEF CallInv, RecordInv, Call
  <2>3. c = calls[r]
    <3>1. CASE c < calls[r]
      BY <1>1, <1>4, <2>2, <3>1 DEF IsLatestApproval
    <3>2. CASE c > calls[r]
      <4>1. c \in Call
        BY <1>1, <2>2, <3>2, BoundAssumption DEF Call
      <4> QED BY <1>1, <1>4, <3>2, <4>1 DEF CallInv, FreshInv, Decided, Decision
    <3> QED BY <1>1, <2>2, <3>1, <3>2, BoundAssumption DEF Call
  <2>4. /\ \A s \in Run : turn[s].pc = "none" /\ todo[s] # "replay_tool"
        /\ \A s \in Run : s # r => state'[s] = state[s]
        /\ state'[r] = AfterDecision[approval[r][c]]
    <3>1. active = NoRun /\ phase # "down" /\ Actor.pc # "idle"
      BY <1>1, <1>4 DEF Running, OwnerInv, PhaseInv
    <3>2. \A s \in Run : turn[s].pc = "none"
      BY <3>1, RunAssumption DEF OwnerInv, TurnInv
    <3> QED BY <1>1, <1>4, <3>1, <3>2, WhoWorks
  <2>5. \/ state'[r] \notin {"waiting_approval", "executing_tool", "paused_uncertain"}
        \/ state'[r] = "executing_tool" /\ Fit(r)
    BY <1>4, <2>2, <2>3, <2>4 DEF Decided, Decision, AfterDecision, Fit
  <2>6. FreshInv' /\ RecordInv'
    BY <1>1, <2>1, <2>4, <2>5, RecordsKept DEF CallInv
  <2> QED BY <1>1, <2>1, <2>2, <2>3, <2>4, <2>6, CallJobs DEF Replays
<1> QED BY <1>2, <1>3, <1>4

LEMMA CallClaimed == ASSUME TypeOK, OwnerInv, CallInv, Claimed("actor") PROVE CallInv'
<1>0. PICK r : r = Actor.run
  OBVIOUS
<1> DEFINE decision == approval[r][Actor.call]
<1>1. /\ r \in Run /\ \A s \in Run : turn[s].pc = "none" /\ todo[s] # "replay_tool"
      /\ Actor.pc = "claimed" /\ tool[r].call = Actor.call /\ licence[r][tool[r].call] >= 1
      /\ decision \in Decision /\ state[r] = AfterDecision[decision]
      /\ tool \in [Run -> PreparedTool]
  BY <1>0, WhoWorks
  DEF Claimed, Actor, CallInv, JobCallInv, OwnerInv, ActorInv, Decided, TypeOK
<1>a. UNCHANGED <<state, licence, calls, approval, todo, turn>>
  BY DEF Claimed
<1>2. CASE Throw("actor") /\ UNCHANGED tool
  <2>1. Actor'.pc = "idle"
    BY <1>2, ActorThrows DEF IdleJob
  <2> QED BY <1>1, <1>2, <1>a, <2>1, CallLetsGo DEF Replays
<1>3. CASE decision = "accept" /\ Step("actor", "replay") /\ UNCHANGED <<phase, tool>>
  <2>1. Fit(r) /\ Decides
    BY <1>1, <1>3, <1>a DEF Fit, Decides
  <2>2. FreshInv' /\ RecordInv'
    BY <1>3, <1>a, <2>1, RecordsKept DEF CallInv
  <2>3. Fit(r)'
    BY <1>1, <1>3, <2>1, FitKept
  <2>4. Actor'.pc = "replay" /\ Actor'.run = r
    BY <1>0, <1>3, ActorSteps
  <2> QED BY <1>1, <1>3, <1>a, <2>2, <2>3, <2>4, CallJobs
<1>4. CASE /\ decision \in {"decline", "cancel"} /\ tool' = [tool EXCEPT ![r] = NoTool]
           /\ ResumeRun("actor") \/ Step("actor", "return")
  <2>1. Actor'.pc \in {"start", "return"}
    BY <1>4, ActorResumes, ActorSteps
  <2>2. /\ \A s \in Run : s # r => state'[s] = state[s] /\ tool'[s] = tool[s]
        /\ state'[r] \notin {"waiting_approval", "executing_tool", "paused_uncertain"}
    BY <1>1, <1>4, <1>a DEF AfterDecision
  <2> QED BY <1>1, <1>a, <2>1, <2>2, CallLetsGo DEF Replays
<1>5. \/ Throw("actor") /\ UNCHANGED tool
      \/ decision = "accept" /\ Step("actor", "replay") /\ UNCHANGED <<phase, tool>>
      \/ /\ decision \in {"decline", "cancel"} /\ tool' = [tool EXCEPT ![r] = NoTool]
         /\ ResumeRun("actor") \/ Step("actor", "return")
  BY <1>0, Zenon DEF Claimed, Actor
<1> QED BY <1>2, <1>3, <1>4, <1>5

LEMMA CallReplaySteps ==
  ASSUME TypeOK, OwnerInv, CallInv,
         \/ Replay("actor") \/ Validate("actor") \/ ReplayDispatch("actor")
         \/ ReplaySettles("actor") \/ ReplayTimeout("actor") \/ Quarantine("actor")
  PROVE  CallInv'
<1>0. PICK r : r = Actor.run
  OBVIOUS
<1>1. /\ r \in Run /\ \A s \in Run : turn[s].pc = "none" /\ todo[s] # "replay_tool"
      /\ state \in [Run -> RunStates \cup {"absent"}] /\ tool \in [Run -> PreparedTool]
      /\ UNCHANGED <<calls, approval, turn, todo>>
  BY <1>0, JobKnows
  DEF TypeOK, Replay, Validate, ReplayDispatch, ReplaySettles, ReplayTimeout, Quarantine, Actor,
      Controlling
<1>2. ASSUME NEW to \in {"failed", "interrupted", "streaming_model", "paused_uncertain"},
             NEW newTool, Write(r, to, newTool), UNCHANGED licence,
             to = "paused_uncertain" => newTool = tool[r] /\ Fit(r),
             \E pc \in {"return", "quarantine"} : Step("actor", pc) \/ ResumeRun("actor")
      PROVE  CallInv'
  <2>1. Actor'.pc \in {"return", "quarantine", "start"}
    BY <1>2, ActorSteps, ActorResumes
  <2>2. /\ \A s \in Run : s # r => state'[s] = state[s] /\ tool'[s] = tool[s]
        /\ state'[r] = to /\ tool'[r] = newTool
    BY <1>1, <1>2 DEF Write
  <2> QED BY <1>1, <1>2, <2>1, <2>2, CallLetsGo DEF Replays
<1>3. Actor.pc \in Replays =>
        /\ Fit(r)
        /\ Actor.pc # "replaying" /\ HasTool(r) /\ tool[r].class = "write" =>
             licence[r][tool[r].call] >= 1
  BY <1>0 DEF CallInv, JobCallInv
<1>4. CASE Replay("actor")
  <2>1. Actor.pc = "replay" /\ Actor.pc \in Replays /\ UNCHANGED licence
    BY <1>4 DEF Replay, Actor, Replays
  <2>2. CASE Write(r, "failed", NoTool) /\ Step("actor", "return")
    BY <1>2, <2>1, <2>2
  <2>3. CASE Write(r, "streaming_model", NoTool) /\ ResumeRun("actor")
    BY <1>2, <2>1, <2>3
  <2>4. CASE Step("actor", "validate") /\ UNCHANGED <<state, tool>>
    BY <1>0, <1>1, <1>3, <2>1, <2>4, CallGoesOn DEF Replays
  <2> QED BY <1>0, <1>4, <2>2, <2>3, <2>4 DEF Replay, Actor
<1>5. CASE Validate("actor")
  <2>1. Actor.pc = "validate" /\ Actor.pc \in Replays /\ UNCHANGED licence
    BY <1>5 DEF Validate, Actor, Replays
  <2>2. CASE Write(r, "interrupted", NoTool) /\ Step("actor", "return")
    BY <1>2, <2>1, <2>2
  <2>3. CASE Write(r, "streaming_model", NoTool) /\ ResumeRun("actor")
    BY <1>2, <2>1, <2>3
  <2>4. CASE Write(r, "executing_tool", tool[r]) /\ Step("actor", "dispatch")
    BY <1>0, <1>1, <1>3, <2>1, <2>4, CallGoesOn DEF Replays
  <2> QED BY <1>0, <1>5, <2>2, <2>3, <2>4 DEF Validate, Actor
<1>6. CASE ReplayDispatch("actor")
  <2>1. Actor.pc = "dispatch" /\ Actor.pc \in Replays
    BY <1>6 DEF ReplayDispatch, Actor, Replays
  <2>2. CASE Write(r, "interrupted", NoTool) /\ Step("actor", "return") /\ UNCHANGED licence
    BY <1>2, <2>2
  <2>3. CASE Send(r, tool[r]) /\ Step("actor", "replaying") /\ UNCHANGED <<state, tool>>
    <3>1. /\ state[r] = "executing_tool" /\ tool[r] \in PreparedTool
          /\ tool[r].call <= calls[r] /\ tool[r].call # 0
      BY <1>0, <1>1, <2>1 DEF CallInv, JobCallInv, OwnerInv, ActorInv, ToolInv, HasTool
    <3>2. FreshInv' /\ RecordInv'
      BY <1>1, <1>3, <2>1, <2>3, <3>1, CallSent DEF CallInv, HasTool
    <3>3. Actor'.pc = "replaying" /\ Actor'.run = r
      BY <1>0, <2>3, ActorSteps
    <3>4. Fit(r)'
      BY <1>1, <1>3, <2>1, <2>3 DEF Fit
    <3> QED BY <1>1, <2>3, <3>1, <3>2, <3>3, <3>4, CallJobs
  <2> QED BY <1>0, <1>6, <2>2, <2>3 DEF ReplayDispatch, Actor
<1>7. CASE ReplaySettles("actor")
  <2>1. Actor.pc = "replaying" /\ Actor.pc \in Replays /\ UNCHANGED licence
    BY <1>7 DEF ReplaySettles, Actor, Replays
  <2>2. CASE Write(r, "streaming_model", NoTool) /\ ResumeRun("actor")
    BY <1>2, <2>1, <2>2
  <2>3. CASE /\ Write(r, "paused_uncertain", tool[r]) \/ Write(r, "interrupted", NoTool)
             /\ Step("actor", "return")
    BY <1>2, <1>3, <2>1, <2>3
  <2> QED BY <1>0, <1>7, <2>2, <2>3 DEF ReplaySettles, Actor
<1>8. CASE ReplayTimeout("actor")
  <2>1. Actor.pc = "replaying" /\ Actor.pc \in Replays /\ UNCHANGED licence
    BY <1>8 DEF ReplayTimeout, Actor, Replays
  <2>2. CASE /\ Write(r, "paused_uncertain", tool[r]) \/ Write(r, "failed", NoTool)
             /\ Step("actor", "quarantine")
    BY <1>2, <1>3, <2>1, <2>2
  <2> QED BY <1>0, <1>8, <2>2 DEF ReplayTimeout, Actor
<1>9. CASE Quarantine("actor")
  <2>1. Actor'.pc = "return" /\ UNCHANGED <<state, tool, licence>>
    BY <1>9, ActorSteps DEF Quarantine
  <2> QED BY <1>1, <2>1, CallLetsGo DEF Replays
<1> QED BY <1>4, <1>5, <1>6, <1>7, <1>8, <1>9

LEMMA CallJobStep ==
  ASSUME TypeOK, OwnerInv, CallInv, NEW w \in Worker, JobStep(w) PROVE CallInv'
<1>1. w = "actor"
  <2>1. job["auto"].pc = "idle"
    BY DEF OwnerInv, ActorInv
  <2>2. job[w].pc # "idle"
    BY DEF JobStep, StartFails, StartPrepares, Launch, Return, Wait, Claim, Claimed, ClaimAnswer,
           MarkDone, Replay, Validate, ReplayDispatch, ReplaySettles, ReplayTimeout, Quarantine
  <2> QED BY <2>1, <2>2 DEF Worker
<1> QED
  BY <1>1, CallStarts, CallWaits, CallClaim, CallClaimed, CallReplaySteps DEF JobStep
-----------------------------------------------------------------------------
(* Crashes and restarts.                                                   *)

LEMMA CallCrash == ASSUME TypeOK, OwnerInv, CallInv, Crash PROVE CallInv'
<1>1. /\ Actor'.pc = "idle" /\ \A s \in Run : turn'[s].pc = "none" /\ todo'[s] = "done"
      /\ UNCHANGED <<state, tool, calls, approval, licence>>
  BY DEF Crash, Actor, Worker, IdleJob, NoTurn
<1>2. Decides
  BY <1>1 DEF Decides
<1> QED BY <1>1, <1>2, CallKept DEF Replays

(* A call that was executing is only replayed when it may be sent twice.   *)
LEMMA RestoresCalls ==
  ASSUME NEW s \in RunStates, NEW safe \in BOOLEAN
  PROVE  /\ RecoveredState(s, safe) = "waiting_approval" => s = "waiting_approval"
         /\ RecoveredState(s, safe) # "executing_tool"
         /\ RecoveredState(s, safe) = "paused_uncertain" =>
              s \in {"executing_tool", "paused_uncertain"}
         /\ RecoveryAction(s, safe) = "replay_tool" => s = "executing_tool" /\ safe
  BY DEF RunStates, RecoveryAction, RecoveredState

LEMMA CallBoot == ASSUME TypeOK, OwnerInv, CallInv, Boot PROVE CallInv'
<1> DEFINE open == {r \in Run : state[r] \notin Terminal \cup {"absent"}}
<1>0. /\ Actor.pc = "idle" /\ Actor' = Actor /\ Decides
      /\ UNCHANGED <<tool, calls, approval, licence, turn>>
      /\ \A s \in Run : turn[s].pc = "none"
  BY RunAssumption DEF Boot, OwnerInv, PhaseInv, TurnInv, Quiet, Actor, Decides
<1>1. \A s \in Run :
        \/ s \notin open /\ state'[s] = state[s] /\ todo'[s] = "done"
        \/ /\ state'[s] = RecoveredState(state[s], SafeToReplay(s)) /\ state[s] \in RunStates
           /\ \/ todo'[s] = RecoveryAction(state[s], SafeToReplay(s))
              \/ todo'[s] = "drain"
  BY DEF TypeOK, Boot
<1>2. ASSUME NEW s \in Run
      PROVE  /\ \/ state'[s] = state[s] /\ tool'[s] = tool[s]
                \/ state'[s] \notin {"waiting_approval", "executing_tool", "paused_uncertain"}
                \/ state'[s] # "waiting_approval" /\ tool'[s] = tool[s] /\ Fit(s)
             /\ todo'[s] = "replay_tool" => Fit(s) /\ SafeToReplay(s)
  <2>1. SafeToReplay(s) \in BOOLEAN
    BY DEF SafeToReplay, HasTool, Replayable
  <2>2. CASE s \notin open /\ state'[s] = state[s] /\ todo'[s] = "done"
    BY <1>0, <2>2
  <2>3. CASE /\ state'[s] = RecoveredState(state[s], SafeToReplay(s)) /\ state[s] \in RunStates
             /\ \/ todo'[s] = RecoveryAction(state[s], SafeToReplay(s))
                \/ todo'[s] = "drain"
    BY <1>0, <2>1, <2>3, RestoresCalls DEF CallInv, RecordInv
  <2> QED BY <1>1, <2>2, <2>3
<1>3. FreshInv' /\ RecordInv'
  BY <1>0, <1>2, RecordsKept DEF CallInv
<1>4. TurnCallInv' /\ JobCallInv'
  BY <1>0 DEF TurnCallInv, JobCallInv, Replays
<1>5. TodoCallInv'
  BY <1>0, <1>2 DEF TodoCallInv, SafeToReplay, Replayable, Fit
<1> QED BY <1>3, <1>4, <1>5 DEF CallInv

LEMMA CallRecovery ==
  ASSUME TypeOK, OwnerInv, CallInv,
         \/ Boot \/ RecoverDrain \/ RecoverDone
         \/ \E r \in Run : \/ RecoverRejects(r) \/ RecoverLater(r) \/ RecoverReplay(r)
                           \/ RecoverApproval(r) \/ RecoverInteraction(r)
  PROVE  CallInv'
<1> USE DEF Worker
<1>0. /\ job \in [Worker -> JobRecord]
      /\ approval \in [Run -> [Call -> {"none", "pending"} \cup Decision]]
      /\ (UNCHANGED approval => Decides)
      /\ todo \in [Run -> RecoveryActions \cup {"drain", "done"}]
  BY DEF TypeOK, Decides
<1>1. CASE RecoverDrain
  <2>1. Actor'.pc = "return" /\ \A s \in Run : todo'[s] # "replay_tool"
    BY <1>0, <1>1 DEF RecoverDrain, Actor, IdleJob
  <2> QED BY <1>0, <1>1, <2>1, CallKept DEF RecoverDrain, Replays
<1>2. CASE RecoverDone
  BY <1>0, <1>2, CallKept DEF RecoverDone, Actor
<1>3. ASSUME NEW q \in Run, RecoverRejects(q) PROVE CallInv'
  <2>1. /\ Actor.pc = "idle" /\ Actor' = Actor
        /\ \A s \in Run : s # q => state'[s] = state[s] /\ tool'[s] = tool[s] /\ todo'[s] = todo[s]
        /\ state'[q] = "failed" /\ todo'[q] = "done"
    BY <1>3 DEF TypeOK, RecoverRejects, Write, ActorIdle, Actor
  <2> QED BY <1>0, <1>3, <2>1, CallKept DEF RecoverRejects, Replays
<1>4. ASSUME NEW q \in Run, RecoverLater(q) PROVE CallInv'
  <2>1. \A s \in Run : todo'[s] = "replay_tool" => todo[s] = "replay_tool"
    BY <1>0, <1>4 DEF RecoverLater, Recovers
  <2> QED BY <1>0, <1>4, <2>1, CallKept DEF RecoverLater, Actor
<1>5. ASSUME NEW q \in Run, RecoverReplay(q) PROVE CallInv'
  <2>1. /\ Actor'.pc = "replay" /\ Actor'.run = q /\ todo[q] = "replay_tool" /\ todo'[q] = "done"
        /\ \A s \in Run : s # q => todo'[s] = todo[s]
        /\ UNCHANGED <<state, tool, calls, approval, licence, turn>>
    BY <1>0, <1>5 DEF RecoverReplay, Recovers, Actor, IdleJob
  <2>2. /\ \A s \in Run : turn[s].pc = "none"
        /\ Fit(q) /\ tool[q].class # "write"
    BY <2>1, WhoWorks DEF CallInv, TodoCallInv
  <2>3. \A s \in Run : todo'[s] # "replay_tool"
    BY <2>1 DEF OwnerInv, Alone, Claimant, Named, Restoring
  <2>4. FreshInv' /\ RecordInv' /\ Fit(q)'
    BY <1>0, <2>1, <2>2, RecordsKept DEF CallInv, Fit
  <2> QED BY <2>1, <2>2, <2>3, <2>4, CallJobs DEF Replays
<1>6. ASSUME NEW q \in Run, RecoverApproval(q) PROVE CallInv'
  <2>1. \A s \in Run : todo'[s] = "replay_tool" => todo[s] = "replay_tool"
    BY <1>0, <1>6 DEF RecoverApproval, Recovers
  <2>2. Actor.pc = "idle"
    BY <1>6 DEF RecoverApproval, Recovers, ActorIdle, Actor
  <2>3. Actor'.pc \in {"claim", "idle"} /\ Decides
    <3>1. PICK c \in Call :
            \/ /\ job' = [job EXCEPT !["actor"] = [pc |-> "claim", run |-> q, call |-> c,
                                                   resume |-> FALSE, then |-> {"boot"}]]
               /\ approval' = [approval EXCEPT ![q][c] = IF @ = "pending" THEN "decline" ELSE @]
            \/ UNCHANGED <<approval, job>>
      BY <1>6 DEF RecoverApproval
    <3>2. CASE /\ job' = [job EXCEPT !["actor"] = [pc |-> "claim", run |-> q, call |-> c,
                                                   resume |-> FALSE, then |-> {"boot"}]]
               /\ approval' = [approval EXCEPT ![q][c] = IF @ = "pending" THEN "decline" ELSE @]
      <4>1. Actor'.pc = "claim"
        BY <1>0, <3>2 DEF Actor
      <4>2. Decides
        BY <1>0, <3>2 DEF Decides, Decision
      <4> QED BY <4>1, <4>2
    <3>3. CASE UNCHANGED <<approval, job>>
      BY <1>0, <2>2, <3>3 DEF Actor
    <3> QED BY <3>1, <3>2, <3>3
  <2> QED BY <1>0, <1>6, <2>1, <2>3, CallKept DEF RecoverApproval, Replays
<1>7. ASSUME NEW q \in Run, RecoverInteraction(q) PROVE CallInv'
  <2>1. \A s \in Run : todo'[s] = "replay_tool" => todo[s] = "replay_tool"
    BY <1>0, <1>7 DEF RecoverInteraction, Recovers
  <2>2. Actor'.pc \in {"claimAnswer", "idle"}
    <3>1. PICK c \in Call :
            \/ job' = [job EXCEPT !["actor"] = [pc |-> "claimAnswer", run |-> q, call |-> c,
                                                resume |-> FALSE, then |-> {"boot"}]]
            \/ UNCHANGED job
      BY <1>7 DEF RecoverInteraction
    <3> QED BY <1>0, <1>7, <3>1 DEF RecoverInteraction, Recovers, ActorIdle, Actor
  <2> QED BY <1>0, <1>7, <2>1, <2>2, CallKept DEF RecoverInteraction, Replays
<1> QED BY <1>1, <1>2, <1>3, <1>4, <1>5, <1>6, <1>7, CallBoot
-----------------------------------------------------------------------------
(* The turn of the run in activeTurns.                                     *)

(* No job works on a record while a turn executes. *)
LEMMA CallTurns ==
  ASSUME TypeOK, OwnerInv, NEW r \in Run, active = r, UNCHANGED <<job, todo>>,
         FreshInv', RecordInv', \A s \in Run : s # r => turn'[s] = turn[s],
         turn'[r].pc \in {"waitApproval", "dispatch"} =>
           turn'[r].tool.call \in Call /\ licence'[r][turn'[r].tool.call] >= 1,
         turn'[r].pc = "dispatch" => state'[r] # "waiting_approval"
  PROVE  CallInv'
<1>1. /\ Actor'.pc \notin Replays \cup {"claimed"}
      /\ \A s \in Run : todo'[s] # "replay_tool"
      /\ \A s \in Run : s # r => turn'[s].pc = "none"
  BY RunAssumption
  DEF OwnerInv, ActorInv, PhaseInv, TurnInv, Quiet, Actor, Controlling, Replays, Restoring
<1>2. TurnCallInv'
  BY <1>1 DEF TurnCallInv
<1> QED BY <1>1, <1>2 DEF CallInv, JobCallInv, TodoCallInv, Replays

(* A turn writes its run's record, perhaps for a new call. *)
LEMMA RecordsTurned ==
  ASSUME TypeOK, OwnerInv, FreshInv, RecordInv, NEW r \in Run, UNCHANGED licence,
         \A s \in Run : s # r => /\ state'[s] = state[s] /\ tool'[s] = tool[s]
                                 /\ calls'[s] = calls[s] /\ approval'[s] = approval[s],
         calls'[r] = calls[r] \/ (calls'[r] = calls[r] + 1 /\ calls'[r] \in Call),
         \A c \in Call : approval'[r][c] = approval[r][c]
                           \/ (c = calls'[r] /\ calls'[r] = calls[r] + 1),
         \/ state'[r] \notin {"waiting_approval", "executing_tool", "paused_uncertain"}
         \/ state'[r] = state[r] /\ state[r] # "waiting_approval" /\ Fit(r)'
         \/ /\ state'[r] = "waiting_approval" /\ tool'[r].call = calls'[r]
            /\ calls'[r] = calls[r] + 1 /\ approval'[r][calls'[r]] = "pending"
         \/ state'[r] = "executing_tool" /\ Fit(r)'
         \/ /\ state'[r] = state[r] /\ tool'[r] = tool[r]
            /\ calls'[r] = calls[r] /\ approval'[r] = approval[r]
  PROVE  FreshInv' /\ RecordInv'
<1>0. /\ calls[r] \in Int /\ calls'[r] >= calls[r] /\ calls'[r] \in Int
      /\ \A c \in Call : c \in Int
  BY BoundAssumption DEF TypeOK, Call
<1>1. FreshInv'
  <2>1. \A c \in Call : /\ licence'[r][c] >= 0
                        /\ c > calls'[r] => approval'[r][c] = "none" /\ licence'[r][c] >= 1
    BY <1>0 DEF FreshInv
  <2> QED BY <2>1 DEF FreshInv
<1>2. ASSUME NEW s \in Run, s # r
      PROVE  /\ state'[s] = "waiting_approval" =>
                  /\ tool'[s].call = calls'[s] /\ approval'[s][calls'[s]] # "none"
                  /\ licence'[s][calls'[s]] >= 1
             /\ state'[s] \in {"executing_tool", "paused_uncertain"} => Fit(s)'
  BY <1>2 DEF RecordInv, Fit
<1>3. state'[r] = "waiting_approval" =>
        /\ tool'[r].call = calls'[r] /\ approval'[r][calls'[r]] # "none"
        /\ licence'[r][calls'[r]] >= 1
  <2>1. calls'[r] = calls[r] + 1 => licence[r][calls'[r]] >= 1
    BY <1>0 DEF FreshInv
  <2> QED BY <2>1 DEF RecordInv
<1>4. state'[r] \in {"executing_tool", "paused_uncertain"} => Fit(r)'
  BY DEF RecordInv, Fit
<1>5. RecordInv'
  BY <1>2, <1>3, <1>4 DEF RecordInv
<1> QED BY <1>1, <1>5

(* The next call is new: nobody was asked about it, and it may be sent. *)
LEMMA CallNew ==
  ASSUME TypeOK, OwnerInv, CallInv, NEW r \in Run, NEW class, NextCall(r, class)
  PROVE  /\ active = r /\ state[r] # "waiting_approval"
         /\ calls[r] + 1 \in Call /\ calls'[r] = calls[r] + 1
         /\ NewTool(r, class).call = calls[r] + 1
         /\ approval[r][calls[r] + 1] = "none" /\ licence[r][calls[r] + 1] >= 1
         /\ \A s \in Run : s # r => calls'[s] = calls[s]
<1>1. calls \in [Run -> 0 .. MaxCalls]
  BY DEF TypeOK
<1>2. /\ active = r /\ state[r] # "waiting_approval"
      /\ calls[r] + 1 \in Call /\ calls'[r] = calls[r] + 1 /\ calls[r] + 1 > calls[r]
      /\ NewTool(r, class).call = calls[r] + 1
      /\ \A s \in Run : s # r => calls'[s] = calls[s]
  BY <1>1, BoundAssumption DEF NextCall, NewTool, Call, OwnerInv, TurnInv, Owning, Waiting
<1> QED BY <1>2 DEF CallInv, FreshInv

LEMMA CallAsks ==
  ASSUME TypeOK, OwnerInv, CallInv, NEW r \in Run, NEW class \in ToolClasses,
         AskApproval(r, class) \/ AllowTool(r, class)
  PROVE  CallInv'
<1>0. /\ approval \in [Run -> [Call -> {"none", "pending"} \cup Decision]]
      /\ UNCHANGED <<licence, job, todo>>
      /\ state \in [Run -> RunStates \cup {"absent"}]
  BY DEF TypeOK, AskApproval, AllowTool
<1>1. /\ active = r /\ state[r] # "waiting_approval"
      /\ calls[r] + 1 \in Call /\ calls'[r] = calls[r] + 1
      /\ NewTool(r, class).call = calls[r] + 1
      /\ approval[r][calls[r] + 1] = "none" /\ licence[r][calls[r] + 1] >= 1
      /\ \A s \in Run : s # r => calls'[s] = calls[s]
  BY CallNew DEF AskApproval, AllowTool
<1>2. ASSUME NEW to \in {"waiting_approval", "executing_tool"},
             NEW pc \in {"waitApproval", "dispatch"},
             pc = "dispatch" => to = "executing_tool",
             TurnWrites(r, to, NewTool(r, class), pc),
             \A s \in Run : s # r => approval'[s] = approval[s],
             \A c \in Call : c # calls[r] + 1 => approval'[r][c] = approval[r][c],
             CanTransition(state[r], to) =>
               approval'[r][calls[r] + 1] = IF to = "waiting_approval" THEN "pending" ELSE "none",
             ~CanTransition(state[r], to) => UNCHANGED approval
      PROVE  CallInv'
  <2>1. /\ \A s \in Run : s # r => turn'[s] = turn[s] /\ state'[s] = state[s] /\ tool'[s] = tool[s]
        /\ \/ /\ CanTransition(state[r], to)
              /\ state'[r] = to /\ tool'[r].call = calls[r] + 1
              /\ turn'[r].pc = pc /\ turn'[r].tool.call = calls[r] + 1
           \/ /\ ~CanTransition(state[r], to)
              /\ state'[r] = state[r] /\ tool'[r] = tool[r] /\ turn'[r].pc = "failed"
    <3>1. CASE CanTransition(state[r], to)
      BY <1>1, <1>2, <3>1 DEF TypeOK, TurnWrites, Write, TurnRecord
    <3>2. CASE ~CanTransition(state[r], to)
      BY <1>1, <1>2, <3>2 DEF TypeOK, TurnWrites, Goto, TurnRecord
    <3> QED BY <3>1, <3>2
  <2>2. FreshInv' /\ RecordInv'
    <3>1. CASE state'[r] = to /\ tool'[r].call = calls[r] + 1 /\ CanTransition(state[r], to)
      <4>1. to = "executing_tool" => Fit(r)'
        BY <1>2, <3>1 DEF Fit
      <4> QED BY <1>0, <1>1, <1>2, <2>1, <3>1, <4>1, RecordsTurned DEF CallInv
    <3>2. CASE state'[r] = state[r] /\ tool'[r] = tool[r] /\ ~CanTransition(state[r], to)
      <4>1. state[r] \in {"executing_tool", "paused_uncertain"} => Fit(r)'
        BY <1>2, <3>2 DEF Fit, CallInv, RecordInv
      <4> QED BY <1>0, <1>1, <1>2, <2>1, <3>2, <4>1, RecordsTurned DEF CallInv
    <3> QED BY <2>1, <3>1, <3>2
  <2> QED BY <1>0, <1>1, <1>2, <2>1, <2>2, CallTurns
<1>3. CASE AskApproval(r, class)
  <2>1. /\ TurnWrites(r, "waiting_approval", NewTool(r, class), "waitApproval")
        /\ approval' = IF CanTransition(state[r], "waiting_approval")
                       THEN [approval EXCEPT ![r][calls[r] + 1] = "pending"] ELSE approval
    BY <1>3 DEF AskApproval
  <2>2. /\ \A s \in Run : s # r => approval'[s] = approval[s]
        /\ \A c \in Call : c # calls[r] + 1 => approval'[r][c] = approval[r][c]
        /\ CanTransition(state[r], "waiting_approval") => approval'[r][calls[r] + 1] = "pending"
        /\ ~CanTransition(state[r], "waiting_approval") => UNCHANGED approval
    BY <1>0, <1>1, <2>1
  <2> QED BY <1>2, <2>1, <2>2
<1>4. CASE AllowTool(r, class)
  <2>1. TurnWrites(r, "executing_tool", NewTool(r, class), "dispatch") /\ UNCHANGED approval
    BY <1>4 DEF AllowTool
  <2> QED BY <1>1, <1>2, <2>1
<1> QED BY <1>3, <1>4

(* A turn writes a record that says neither that it waits for an approval  *)
(* nor that its call executes, or leaves the record alone.                 *)
LEMMA CallPasses ==
  ASSUME TypeOK, OwnerInv, CallInv, NEW r \in Run, active = r,
         UNCHANGED <<licence, approval, job, todo>>,
         \A s \in Run : s # r => /\ turn'[s] = turn[s] /\ calls'[s] = calls[s]
                                 /\ state'[s] = state[s] /\ tool'[s] = tool[s],
         turn'[r].pc \notin {"waitApproval", "dispatch"},
         \/ calls'[r] = calls[r]
         \/ calls'[r] = calls[r] + 1 /\ calls'[r] \in Call /\ state[r] # "waiting_approval",
         \/ state'[r] \notin {"waiting_approval", "executing_tool", "paused_uncertain"}
         \/ state'[r] = state[r] /\ tool'[r] = tool[r]
  PROVE  CallInv'
<1>1. FreshInv' /\ RecordInv'
  <2>1. CASE state'[r] \notin {"waiting_approval", "executing_tool", "paused_uncertain"}
    BY <2>1, RecordsTurned DEF CallInv
  <2>2. CASE state'[r] = state[r] /\ tool'[r] = tool[r] /\ calls'[r] = calls[r]
    BY <2>2, RecordsTurned DEF CallInv
  <2>3. CASE /\ state'[r] = state[r] /\ tool'[r] = tool[r] /\ state[r] # "waiting_approval"
             /\ state'[r] \in {"executing_tool", "paused_uncertain"}
    <3>1. Fit(r)'
      BY <2>3 DEF Fit, CallInv, RecordInv
    <3> QED BY <2>3, <3>1, RecordsTurned DEF CallInv
  <2> QED BY <2>1, <2>2, <2>3
<1> QED BY <1>1, CallTurns

(* A question is put, or its refusal fails the turn. *)
LEMMA CallAsked ==
  ASSUME TypeOK, OwnerInv, CallInv, NEW r \in Run, active = r,
         UNCHANGED <<licence, approval, job, todo>>,
         NEW c \in Call, NEW newTool, NEW pc \in {"waitAnswer", "running"}, Ask(r, c, newTool, pc),
         \A s \in Run : s # r => calls'[s] = calls[s],
         \/ calls'[r] = calls[r]
         \/ calls'[r] = calls[r] + 1 /\ calls'[r] \in Call /\ state[r] # "waiting_approval"
  PROVE  CallInv'
<1>1. CASE ~CanTransition(state[r], "waiting_interaction")
  BY <1>1, Gone, CallPasses DEF Ask
<1>2. CASE CanTransition(state[r], "waiting_interaction")
  <2>1. /\ \A s \in Run : s # r => turn'[s] = turn[s] /\ state'[s] = state[s] /\ tool'[s] = tool[s]
        /\ state'[r] = "waiting_interaction" /\ turn'[r].pc = pc
    BY <1>2 DEF TypeOK, Ask, Write, TurnRecord
  <2> QED BY <2>1, CallPasses
<1> QED BY <1>1, <1>2

(* What the turn goes on with, once it has a result. *)
LEMMA CallSettles ==
  ASSUME TypeOK, OwnerInv, CallInv, NEW r \in Run, active = r,
         UNCHANGED <<licence, calls, approval, job, todo>>,
         NEW pc \in {"model", "interrupted"}, TurnWrites(r, "streaming_model", NoTool, pc)
  PROVE  CallInv'
  BY TurnWritten, CallPasses

(* An accepted call executes. *)
LEMMA CallAccepted ==
  ASSUME TypeOK, OwnerInv, CallInv, NEW r \in Run, active = r,
         UNCHANGED <<licence, calls, approval, job, todo>>, turn[r].pc = "waitApproval",
         approval[r][turn[r].tool.call] = "accept",
         TurnWrites(r, "executing_tool", turn[r].tool, "dispatch")
  PROVE  CallInv'
<1>1. turn[r].tool.call \in Call /\ licence[r][turn[r].tool.call] >= 1
  BY DEF CallInv, TurnCallInv
<1>2. \A s \in Run : s # r => turn'[s] = turn[s] /\ state'[s] = state[s] /\ tool'[s] = tool[s]
  BY TurnWritten
<1>3. CASE /\ state'[r] = "executing_tool" /\ tool'[r] = turn[r].tool
           /\ turn'[r].pc = "dispatch" /\ turn'[r].tool = turn[r].tool
  <2>1. Fit(r)'
    BY <1>3 DEF Fit
  <2>2. FreshInv' /\ RecordInv'
    BY <1>2, <1>3, <2>1, RecordsTurned DEF CallInv
  <2> QED BY <1>1, <1>2, <1>3, <2>2, CallTurns
<1>4. CASE state'[r] = state[r] /\ tool'[r] = tool[r] /\ turn'[r].pc = "failed"
  BY <1>2, <1>4, CallPasses
<1> QED BY <1>3, <1>4, TurnWritten

LEMMA CallTurnStep == ASSUME TypeOK, OwnerInv, CallInv, NEW r \in Run, TurnStep(r) PROVE CallInv'
<1>0. turn[r].pc # "none" => active = r
  BY DEF OwnerInv, TurnInv
<1>a. (UNCHANGED approval => Decides) /\ turn[r] \in TurnRecord /\ turn \in [Run -> TurnRecord]
  BY DEF Decides, TypeOK
<1>1. CASE Admit(r)
  <2>1. /\ \A s \in Run : s # r => turn'[s] = turn[s] /\ state'[s] = state[s]
        /\ \/ state'[r] = "streaming_model" /\ turn'[r].pc = "model"
           \/ state'[r] = state[r] /\ turn'[r].pc = "failed"
    BY <1>1 DEF TypeOK, Admit, Goto, TurnRecord
  <2> QED BY <1>0, <1>1, <2>1, CallPasses DEF Admit
<1>2. CASE AskInteraction(r)
  <2>1. /\ active = r /\ state[r] # "waiting_approval"
        /\ calls[r] + 1 \in Call /\ calls'[r] = calls[r] + 1
        /\ \A s \in Run : s # r => calls'[s] = calls[s]
    BY <1>2, CallNew DEF AskInteraction
  <2> QED BY <1>2, <2>1, CallAsked DEF AskInteraction
<1>3. CASE Dispatch(r)
  <2>1. /\ turn[r].tool \in PreparedTool /\ turn[r].tool.call \in Call
        /\ licence[r][turn[r].tool.call] >= 1 /\ state[r] # "waiting_approval"
        /\ turn[r].tool.call <= calls[r] /\ turn[r].tool.call # 0
    BY <1>3, <1>a, BoundAssumption
    DEF Dispatch, TurnRecord, CallInv, TurnCallInv, OwnerInv, ToolInv, Call
  <2>2. FreshInv' /\ RecordInv'
    BY <1>3, <2>1, CallSent DEF Dispatch, CallInv
  <2>3. turn'[r].pc = "running" /\ \A s \in Run : s # r => turn'[s] = turn[s]
    BY <1>3, Gone DEF Dispatch
  <2> QED BY <1>0, <1>3, <2>2, <2>3, CallTurns DEF Dispatch
<1>4. CASE Elicit(r)
  <2>1. turn[r].tool.call \in Call
    <3>1. HasTool(r)
      BY <1>4 DEF Elicit, OwnerInv, ToolInv
    <3> QED BY <1>4, <3>1, BoundAssumption DEF Elicit, HasTool, TypeOK, PreparedTool, Call
  <2> QED BY <1>4, <2>1, CallAsked DEF Elicit
<1>5. CASE Answered(r)
  <2>1. CASE turn[r].aborted
    BY <1>0, <1>5, <2>1, CallSettles DEF Answered
  <2>2. CASE ~turn[r].aborted
    BY <1>0, <1>5, <2>2, CallSettles DEF Answered
  <2> QED BY <2>1, <2>2
<1>6. CASE Finish(r)
  <2>1. /\ \A s \in Run : s # r => state'[s] = state[s]
        /\ state'[r] = state[r] \/ state'[r] \in Outcome
    BY <1>6 DEF TypeOK, Finish
  <2>2. turn'[r].pc = "settled" /\ \A s \in Run : s # r => turn'[s] = turn[s]
    BY <1>6, Gone DEF Finish
  <2> QED BY <1>0, <1>6, <2>1, <2>2, CallPasses DEF Finish, Outcome
<1>7. CASE Settled(r)
  <2>1. \A s \in Run : turn'[s] = turn[s] \/ turn'[s].pc = "none"
    BY <1>7, <1>a DEF Settled, NoTurn
  <2> QED BY <1>7, <1>a, <2>1, CallKept DEF Settled, Actor
<1>8. ASSUME NEW outcome \in Outcome, ModelEnds(r, outcome) PROVE CallInv'
  BY <1>0, <1>8, Gone, CallPasses DEF ModelEnds, Outcome
<1>9. ASSUME NEW decision \in {"decline", "cancel"}, ApprovalExpires(r, decision) PROVE CallInv'
  <2>1. Decides
    BY <1>9 DEF TypeOK, ApprovalExpires, ApprovalWaiter, Decides, Decision
  <2> QED BY <1>9, <2>1, CallKept DEF ApprovalExpires, Actor
<1>10. ASSUME NEW refused \in BOOLEAN, ApprovalSettled(r, refused) PROVE CallInv'
  <2>1. /\ active = r /\ turn[r].pc = "waitApproval" /\ turn[r].tool.call \in Call
        /\ UNCHANGED <<licence, calls, approval, job, todo>>
    BY <1>0, <1>10 DEF ApprovalSettled, CallInv, TurnCallInv
  <2>2. \/ Ask(r, turn[r].tool.call, turn[r].tool, "waitAnswer")
        \/ /\ approval[r][turn[r].tool.call] = "accept"
           /\ TurnWrites(r, "executing_tool", turn[r].tool, "dispatch")
        \/ \E pc \in {"interrupted", "model"} : TurnWrites(r, "streaming_model", NoTool, pc)
    BY <1>10, Zenon DEF ApprovalSettled
  <2>3. CASE Ask(r, turn[r].tool.call, turn[r].tool, "waitAnswer")
    BY <2>1, <2>3, CallAsked
  <2>4. CASE /\ approval[r][turn[r].tool.call] = "accept"
             /\ TurnWrites(r, "executing_tool", turn[r].tool, "dispatch")
    BY <2>1, <2>4, CallAccepted
  <2>5. ASSUME NEW pc \in {"interrupted", "model"}, TurnWrites(r, "streaming_model", NoTool, pc)
        PROVE  CallInv'
    BY <2>1, <2>5, CallSettles
  <2> QED BY <2>2, <2>3, <2>4, <2>5
<1>11. CASE ApprovalHookFails(r)
  BY <1>0, <1>11, Gone, CallPasses DEF ApprovalHookFails
<1>12. ASSUME NEW pc \in {"model", "interrupted"}, ToolReturns(r, pc) PROVE CallInv'
  BY <1>0, <1>12, CallSettles DEF ToolReturns
<1>13. ASSUME NEW c \in Call, AnswerAborted(r, c) PROVE CallInv'
  <2>1. \A s \in Run : turn'[s].pc = turn[s].pc /\ turn'[s].tool = turn[s].tool
    BY <1>13, <1>a DEF AnswerAborted, TurnRecord
  <2> QED BY <1>13, <1>a, <2>1, CallKept DEF AnswerAborted, Actor
<1> QED
  BY <1>1, <1>2, <1>3, <1>4, <1>5, <1>6, <1>7, <1>8, <1>9, <1>10, <1>11, <1>12, <1>13, CallAsks
  DEF TurnStep

-----------------------------------------------------------------------------

LEMMA CallInit == Init => CallInv
<1> SUFFICES ASSUME Init PROVE CallInv
  OBVIOUS
<1>1. FreshInv /\ RecordInv
  BY DEF Init, Idle, FreshInv, RecordInv, Fit
<1>2. TurnCallInv /\ JobCallInv /\ TodoCallInv
  BY DEF Init, Idle, TurnCallInv, JobCallInv, TodoCallInv, NoTurn, IdleJob, Actor, Worker, Replays
<1> QED BY <1>1, <1>2 DEF CallInv

LEMMA CallNext ==
  ASSUME TypeOK, OwnerInv, CallInv, [Next]_vars, "automation" \notin Faults PROVE CallInv'
<1>1. ASSUME NEW r \in Run, NEW c \in Call, AutomationAnswer(r, c) PROVE FALSE
  BY <1>1 DEF AutomationAnswer
<1>2. CASE UNCHANGED vars
  <2>1. Decides
    BY <1>2 DEF vars, Decides
  <2> QED BY <1>2, <2>1, CallKept DEF vars, Actor
<1> QED
  BY <1>1, <1>2, CallCommand, CallTask, CallJobStep, CallTurnStep, CallRecovery, CallCrash
  DEF Next, Recovery

(* What both theorems below rest on. *)
LEMMA CallsAlways == ASSUME "automation" \notin Faults PROVE Spec => [](OwnerInv /\ CallInv)
<1>1. Init => OwnerInv /\ CallInv
  BY OwnerInit, CallInit
<1>2. TypeOK /\ OwnerInv /\ CallInv /\ [Next]_vars => (OwnerInv /\ CallInv)'
  BY OwnerNext, CallNext
<1> QED BY <1>1, <1>2, TypeCorrect, PTL DEF Spec

(* No run executes a tool whose approval was asked for and not given, and  *)
(* a run whose tool is executing or of unknown outcome still names it, in  *)
(* whatever order decisions, claims, pauses and restarts come              *)
(* (approvals.createPendingWork, claimDecidedContinuation and              *)
(* replayPreparedTool), unless alarms answer behind the actor's back.      *)
THEOREM ApprovedOnly == ASSUME "automation" \notin Faults PROVE Spec => []OnlyApprovedExecutes
<1>1. OwnerInv /\ CallInv => OnlyApprovedExecutes
  BY DEF OwnerInv, ToolInv, CallInv, RecordInv, Fit, OnlyApprovedExecutes
<1> QED BY <1>1, CallsAlways, PTL

(* A write that may not be retried is sent once, and once more for each    *)
(* time the user asked to: no restart, replay or late decision sends it    *)
(* again (recoverInterruptedRun, resolveUncertain, tool.execute).          *)
THEOREM WritesNotResent == ASSUME "automation" \notin Faults PROVE Spec => []NoSilentResend
<1>1. CallInv => NoSilentResend
  BY DEF CallInv, FreshInv, NoSilentResend
<1> QED BY <1>1, CallsAlways, PTL
=============================================================================
