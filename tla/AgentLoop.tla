------------------------------- MODULE AgentLoop -------------------------------
(* One turn of the agent loop (src/agent/loop.ts) with what it sends the model             *)
(* (src/db/sessionContext.ts, src/providers/anthropic.ts).                                 *)
(*                                                                                         *)
(* The loop gives the model the messages the user adds while it runs, asks it, carries out *)
(* the calls of its answer one after the other and asks again. An interruption, a message  *)
(* of the user and its storing may come at any await. The notices that remind the model of *)
(* its failures are text of a request and are left out.                                    *)
EXTENDS Naturals, Sequences, FiniteSets, SequencesExt

CONSTANTS
  StopAt,      \* CONSECUTIVE_FAILURE_STOP: failures in a row that end the calls
  MaxSteers,   \* bound: messages the user adds
  MaxAnswers,  \* bound: answers of the model
  MaxCalls,    \* bound: calls of one answer
  MaxTogether  \* bound: calls of one answer and messages added, together

ASSUME LoopAssumption ==
  /\ StopAt \in Nat \ {0} /\ MaxSteers \in Nat /\ MaxAnswers \in Nat /\ MaxCalls \in Nat
  /\ MaxTogether \in Nat

VARIABLES
  accepting,  \* acceptingSteer
  aborted,    \* the turn's abort signal
  steers,     \* the added messages in the order of their sequence, with their state
  cutoff,     \* takeSteerCutoff: the messages the next request waits for
  loopAt,     \* where the loop is
  history,    \* the nodes below the turn's first message
  batch, pos, \* the calls of the answer and the one being carried out
  wrote,      \* nodes of the call: toolCallPersisted, escalationToolCallPersisted
  failures,   \* consecutiveFailures
  forced,     \* forcedFinalization: one more answer, without tools
  giveFailed, \* steerMaterializationFailed
  turnReason  \* the stop reason

loopVars == <<accepting, aborted, steers, cutoff, loopAt, history, batch, pos, wrote, failures,
              forced, giveFailed, turnReason>>

callVars == <<batch, pos, wrote, failures>>
steerVars == <<accepting, steers, cutoff, giveFailed>>

SteerState == {"admitting", "stored", "dropped", "given"}
EntryKind == {"steer", "assistant", "call", "ok", "failed", "refused", "notice"}
LoopAt == {"top", "cutting", "giving", "building", "streaming", "recording", "settling", "calls",
           "asking", "cleared", "interacting", "dispatching", "executing", "thrown",
           "askingTrusted", "trusted", "dispatchingTrusted", "acting", "closing", "done"}
Entry(kind, n) == [kind |-> kind, n |-> n]

In(state) == {i \in DOMAIN steers : steers[i] = state}
Answers == Cardinality({i \in DOMAIN history : history[i].kind = "assistant"})

(* ------------------------- what a request says ------------------------- *)

AlwaysJoins(calls, id) == Append(calls, id)
(* buildSessionContext: the calls join the answer they came from, and a call that is tried *)
(* again with another tool keeps its id.                                                   *)
JoinsCall(calls, id) == IF Contains(calls, id) THEN calls ELSE Append(calls, id)

NodeAsMessage(messages, n) ==
  CASE n.kind = "steer" -> Append(messages, [role |-> "user", calls |-> <<>>, results |-> <<>>])
    [] n.kind = "assistant" ->
         Append(messages, [role |-> "assistant", calls |-> <<>>, results |-> <<>>])
    [] n.kind = "call" ->
         LET a == CHOOSE i \in DOMAIN messages :
                    /\ messages[i].role = "assistant"
                    /\ \A j \in DOMAIN messages : messages[j].role = "assistant" => j <= i
         IN [messages EXCEPT ![a].calls = JoinsCall(@, n.n)]
    [] n.kind = "notice" -> messages
    [] OTHER -> Append(messages, [role |-> "result", calls |-> <<>>, results |-> <<n.n>>])

(* toAnthropicMessages: results that follow one another become one message of the user.    *)
WireMessage(wire, m) ==
  IF m.role = "result" /\ wire # <<>> /\ Last(wire).results # <<>>
  THEN [wire EXCEPT ![Len(wire)].results = @ \o m.results]
  ELSE Append(wire, m)

(* Both go through what they are given from its start.                                     *)
Messages(nodes) ==
  LET upTo[k \in 0..Len(nodes)] ==
        IF k = 0 THEN <<>> ELSE NodeAsMessage(upTo[k - 1], nodes[k])
  IN upTo[Len(nodes)]
Wire(messages) ==
  LET upTo[k \in 0..Len(messages)] ==
        IF k = 0 THEN <<>> ELSE WireMessage(upTo[k - 1], messages[k])
  IN upTo[Len(messages)]
WireMessages == Wire(Messages(history))

(* withUniqueToolCallIds: an id the history holds already is replaced by a fresh one.      *)
UsedIds == {history[i].n : i \in {j \in DOMAIN history : history[j].kind = "call"}}
UnusedId(taken) == CHOOSE x \in 1..Cardinality(taken) + 1 : x \notin taken
Rename(done, id, used) ==
  LET taken == used \cup {done[i] : i \in DOMAIN done}
  IN Append(done, IF id \in taken THEN UnusedId(taken \cup {id}) ELSE id)
UniqueIds(ids, used) ==
  LET upTo[k \in 0..Len(ids)] == IF k = 0 THEN <<>> ELSE Rename(upTo[k - 1], ids[k], used)
  IN upTo[Len(ids)]

(* ------------------------- the user ------------------------- *)

(* steer: the message gets its place in the order before it is stored.                     *)
Steer ==
  /\ accepting /\ Len(steers) < MaxSteers /\ Len(steers) + Len(batch) < MaxTogether
  /\ steers' = Append(steers, "admitting")
  /\ UNCHANGED <<accepting, aborted, cutoff, loopAt, history, callVars, forced, giveFailed, turnReason>>

Admitted(i) ==
  /\ steers[i] = "admitting"
  /\ \E s \in {"stored", "dropped"} : steers' = [steers EXCEPT ![i] = s]
  /\ UNCHANGED <<accepting, aborted, cutoff, loopAt, history, callVars, forced, giveFailed, turnReason>>

Interrupt ==
  /\ ~aborted /\ loopAt # "done"
  /\ aborted' = TRUE /\ accepting' = FALSE
  /\ UNCHANGED <<steers, cutoff, loopAt, history, callVars, forced, giveFailed, turnReason>>

(* ------------------------- a request ------------------------- *)

(* The turn's last section begins: no message is accepted any more.                        *)
Close(reason) ==
  /\ loopAt' = "closing" /\ turnReason' = reason /\ accepting' = FALSE

StopAborted(places) ==
  /\ loopAt \in places /\ aborted /\ Close("interrupted")
  /\ UNCHANGED <<aborted, steers, cutoff, history, callVars, forced, giveFailed>>

TakeCutoff ==
  /\ loopAt = "top" /\ ~aborted /\ loopAt' = "cutting"
  /\ cutoff' = In("stored") \cup In("admitting")
  /\ UNCHANGED <<accepting, aborted, steers, history, callVars, forced, giveFailed, turnReason>>

NotAwaited == TRUE
(* All the messages that were being stored have been, or have failed.                      *)
CutoffStored == cutoff \cap In("admitting") = {}
InOrder(S) ==
  CHOOSE s \in [1..Cardinality(S) -> S] : \A i, j \in DOMAIN s : i < j => s[i] < s[j]
GiveSteers(S) ==
  /\ history' = history \o [i \in 1..Cardinality(S) |-> Entry("steer", InOrder(S)[i])]
  /\ steers' = [i \in DOMAIN steers |-> IF i \in S THEN "given" ELSE steers[i]]

Materialize ==
  /\ loopAt = "cutting" /\ CutoffStored
  /\ \/ GiveSteers(cutoff \cap In("stored")) /\ loopAt' = "building"
        /\ UNCHANGED <<accepting, giveFailed, turnReason>>
     \/ /\ cutoff \cap In("stored") # {} /\ Close("error") /\ giveFailed' = TRUE
        /\ UNCHANGED <<history, steers>>
  /\ UNCHANGED <<aborted, cutoff, callVars, forced>>

AskModel ==
  /\ loopAt = "building" /\ ~aborted /\ loopAt' = "streaming"
  /\ UNCHANGED <<aborted, steerVars, history, callVars, forced, turnReason>>

(* The request fails, or its answer cannot be understood.                                  *)
RequestFails ==
  /\ loopAt \in {"building", "streaming"} /\ ~aborted /\ Close("error")
  /\ UNCHANGED <<aborted, steers, cutoff, history, callVars, forced, giveFailed>>

(* The answer, with the ids the model gave its calls.                                      *)
ModelAnswers(ids) ==
  /\ loopAt = "streaming" /\ Answers < MaxAnswers /\ Len(ids) + Len(steers) <= MaxTogether
  /\ forced => ids = <<>>
  /\ batch' = UniqueIds(ids, UsedIds) /\ pos' = 1 /\ loopAt' = "recording"
  /\ UNCHANGED <<aborted, steerVars, history, wrote, failures, forced, turnReason>>

(* The answer is stored. With no calls the loop stops accepting messages, so that it can   *)
(* tell whether any is left; a token budget ends a turn that has calls.                    *)
RecordAnswer ==
  /\ loopAt = "recording" /\ history' = Append(history, Entry("assistant", 0))
  /\ \/ forced /\ Close("error")
     \/ ~forced /\ batch = <<>> /\ loopAt' = "settling" /\ accepting' = FALSE
        /\ UNCHANGED turnReason
     \/ ~forced /\ batch # <<>> /\ Close("budget_pause")
     \/ ~forced /\ batch # <<>> /\ loopAt' = "calls" /\ UNCHANGED <<accepting, turnReason>>
  /\ wrote' = 0
  /\ UNCHANGED <<aborted, steers, cutoff, batch, pos, failures, forced, giveFailed>>

AllStored == In("admitting") = {}
Settle ==
  /\ loopAt = "settling" /\ AllStored
  /\ \/ In("stored") # {} /\ loopAt' = "top" /\ accepting' = TRUE /\ UNCHANGED turnReason
     \/ In("stored") = {} /\ Close("end")
  /\ UNCHANGED <<aborted, steers, cutoff, history, callVars, forced, giveFailed>>

(* ------------------------- the calls of an answer ------------------------- *)

CallEntry == Entry("call", batch[pos])
WithCall == IF wrote > 0 THEN history ELSE Append(history, CallEntry)

(* The call is over and the next one is looked at.                                         *)
CallOver == pos' = pos + 1 /\ wrote' = 0 /\ UNCHANGED batch

(* fail: the call, if it is not written yet, and its result.                               *)
FailCall(counts) ==
  /\ history' = Append(WithCall, Entry(IF counts THEN "failed" ELSE "refused", batch[pos]))
  /\ failures' = IF counts THEN failures + 1 ELSE failures
  /\ CallOver

GoesOn == loopAt' = "calls" /\ UNCHANGED <<accepting, turnReason>>
RestUnchanged == UNCHANGED <<aborted, steers, cutoff, forced, giveFailed>>

(* Five failures in a row: the model is told, and answers once more without tools.         *)
MustStop == failures >= StopAt
ForceFinalization ==
  /\ loopAt = "calls" /\ MustStop /\ (pos > Len(batch) \/ ~aborted)
  /\ history' = Append(history, Entry("notice", 0))
  /\ accepting' = FALSE /\ forced' = TRUE /\ loopAt' = "top"
  /\ UNCHANGED <<aborted, steers, cutoff, callVars, giveFailed, turnReason>>

NextRound ==
  /\ loopAt = "calls" /\ pos > Len(batch) /\ failures < StopAt /\ loopAt' = "top"
  /\ UNCHANGED <<aborted, steerVars, history, callVars, forced, turnReason>>

AtCall == loopAt = "calls" /\ pos <= Len(batch) /\ ~MustStop /\ ~aborted

(* The call is malformed or its target is gone; or it is denied.                           *)
RejectCall(counts) == AtCall /\ FailCall(counts) /\ GoesOn /\ RestUnchanged

AllowCall ==
  /\ AtCall /\ loopAt' = "cleared"
  /\ UNCHANGED <<aborted, steerVars, history, callVars, forced, turnReason>>

AskApproval ==
  /\ AtCall /\ history' = WithCall /\ wrote' = 1 /\ loopAt' = "asking"
  /\ UNCHANGED <<aborted, steerVars, batch, pos, failures, forced, turnReason>>

(* The user decides, for the call or for the trusted input it is tried with; an            *)
(* interruption cancels.                                                                   *)
Approve ==
  /\ ~aborted
  /\ \/ loopAt = "asking" /\ loopAt' = "cleared"
     \/ loopAt = "askingTrusted" /\ loopAt' = "trusted"
  /\ UNCHANGED <<aborted, steerVars, history, callVars, forced, turnReason>>

Decline ==
  /\ loopAt \in {"asking", "askingTrusted"} /\ FailCall(FALSE)
  /\ \/ ~aborted /\ GoesOn
     \/ Close("interrupted")
  /\ RestUnchanged

(* The signal is looked at once before the last check, which takes time.                   *)
Dispatch ==
  /\ ~aborted
  /\ \/ loopAt = "cleared" /\ loopAt' = "dispatching"
     \/ loopAt = "trusted" /\ loopAt' = "dispatchingTrusted"
  /\ UNCHANGED <<aborted, steerVars, history, callVars, forced, turnReason>>

FailInterrupted ==
  /\ loopAt \in {"cleared", "trusted", "thrown"} /\ aborted
  /\ FailCall(FALSE) /\ Close("interrupted") /\ RestUnchanged

(* A question is alone in its answer.                                                      *)
RefuseQuestion ==
  /\ loopAt = "cleared" /\ Len(batch) # 1 /\ FailCall(TRUE) /\ GoesOn /\ RestUnchanged

AskQuestion ==
  /\ loopAt = "cleared" /\ Len(batch) = 1
  /\ history' = WithCall /\ wrote' = 1 /\ loopAt' = "interacting"
  /\ UNCHANGED <<aborted, steerVars, batch, pos, failures, forced, turnReason>>

(* The call returns: its result, and the count of failures starts again.                   *)
Succeed ==
  /\ history' = Append(history, Entry("ok", batch[pos])) /\ failures' = 0 /\ CallOver
  /\ GoesOn /\ RestUnchanged

AnswerQuestion == loopAt = "interacting" /\ ~aborted /\ Succeed
LeaveQuestion ==
  /\ loopAt = "interacting" /\ aborted /\ FailCall(FALSE) /\ Close("interrupted") /\ RestUnchanged

(* The question cannot be built or stored: the turn fails where it is.                     *)
QuestionFails ==
  /\ loopAt \in {"cleared", "interacting"} /\ Len(batch) = 1 /\ Close("error")
  /\ UNCHANGED <<aborted, steers, cutoff, history, callVars, forced, giveFailed>>

(* assertFinalAuthorization: the target has changed, or is not allowed any more. It throws *)
(* to the tool's own handler, which puts an interruption first; a question's has none.     *)
RefuseDispatch ==
  /\ \/ loopAt = "dispatching" /\ ~aborted
     \/ loopAt = "dispatchingTrusted"
     \/ loopAt = "cleared" /\ Len(batch) = 1
  /\ FailCall(TRUE) /\ GoesOn /\ RestUnchanged

Execute ==
  /\ loopAt = "dispatching" /\ history' = WithCall /\ wrote' = 1 /\ loopAt' = "executing"
  /\ UNCHANGED <<aborted, steerVars, batch, pos, failures, forced, turnReason>>

ToolReturns == loopAt \in {"executing", "acting"} /\ Succeed

ToolThrows ==
  /\ loopAt \in {"dispatching", "executing"} /\ (loopAt = "dispatching" => aborted)
  /\ loopAt' = "thrown"
  /\ UNCHANGED <<aborted, steerVars, history, callVars, forced, turnReason>>

(* What the tool threw goes to the model, unless it names the tool to try instead; the     *)
(* other tool's own failure is told as it is, and so is its denial.                        *)
TellFailure ==
  /\ \/ loopAt = "thrown" /\ ~aborted /\ \E counts \in BOOLEAN : FailCall(counts)
     \/ loopAt = "acting" /\ FailCall(TRUE)
  /\ GoesOn /\ RestUnchanged

(* The trusted input is checked and approved as a call of its own, under the same id.      *)
Escalate ==
  /\ loopAt = "thrown" /\ ~aborted
  /\ \/ loopAt' = "trusted" /\ UNCHANGED <<history, wrote>>
     \/ loopAt' = "askingTrusted" /\ history' = Append(history, CallEntry) /\ wrote' = 2
  /\ UNCHANGED <<aborted, steerVars, batch, pos, failures, forced, turnReason>>

ExecuteTrusted ==
  /\ loopAt = "dispatchingTrusted" /\ loopAt' = "acting"
  /\ history' = IF wrote = 2 THEN history ELSE Append(history, CallEntry)
  /\ wrote' = 2
  /\ UNCHANGED <<aborted, steerVars, batch, pos, failures, forced, turnReason>>

(* ------------------------- the end of the turn ------------------------- *)

(* The messages nobody was asked about are put into the thread, in order.                  *)
FinishTurn ==
  /\ loopAt = "closing" /\ AllStored /\ loopAt' = "done"
  /\ \/ /\ (IF giveFailed THEN UNCHANGED <<history, steers>> ELSE GiveSteers(In("stored")))
        /\ turnReason' = (IF giveFailed THEN "interrupted" ELSE turnReason)
        /\ UNCHANGED giveFailed
     \/ /\ ~giveFailed /\ In("stored") # {} /\ giveFailed' = TRUE
        /\ turnReason' = "interrupted" /\ UNCHANGED <<history, steers>>
  /\ UNCHANGED <<accepting, aborted, cutoff, callVars, forced>>

LoopInit ==
  /\ accepting = TRUE /\ aborted = FALSE /\ steers = <<>> /\ cutoff = {} /\ loopAt = "top"
  /\ history = <<>> /\ batch = <<>> /\ pos = 1 /\ wrote = 0 /\ failures = 0
  /\ forced = FALSE /\ giveFailed = FALSE /\ turnReason = "none"

UserSteps == Steer \/ Interrupt \/ \E i \in DOMAIN steers : Admitted(i)
RequestSteps ==
  \/ TakeCutoff \/ Materialize \/ AskModel \/ RequestFails \/ RecordAnswer \/ Settle
  \/ \E k \in 0..MaxCalls : \E ids \in [1..k -> 1..k] :
       /\ \A i \in 1..k : ids[i] <= i      \* ids are told apart by whether they are equal
       /\ ModelAnswers(ids)
CallSteps ==
  \/ ForceFinalization \/ NextRound \/ \E counts \in BOOLEAN : RejectCall(counts)
  \/ AllowCall \/ AskApproval \/ Approve \/ Decline \/ Dispatch \/ FailInterrupted
  \/ RefuseQuestion \/ AskQuestion \/ AnswerQuestion \/ LeaveQuestion \/ QuestionFails
  \/ RefuseDispatch \/ Execute \/ ToolReturns \/ ToolThrows \/ TellFailure \/ Escalate
  \/ ExecuteTrusted
EndSteps ==
  \/ StopAborted({"top", "building", "streaming"})
  \/ pos <= Len(batch) /\ StopAborted({"calls"})
  \/ FinishTurn

LoopNext == UserSteps \/ RequestSteps \/ CallSteps \/ EndSteps
LoopSpec == LoopInit /\ [][LoopNext]_loopVars

(* ------------------------- what holds ------------------------- *)

LoopTypeOK ==
  /\ {accepting, aborted, forced, giveFailed} \subseteq BOOLEAN
  /\ steers \in Seq(SteerState) /\ cutoff \subseteq DOMAIN steers /\ loopAt \in LoopAt
  /\ history \in Seq([kind : EntryKind, n : Nat]) /\ batch \in Seq(Nat)
  /\ pos \in Nat /\ wrote \in 0..2 /\ failures \in Nat
  /\ turnReason \in {"none", "end", "interrupted", "error", "budget_pause"}

(* docs/en/development/agent-engine.md: a message the engine accepted while the turn runs  *)
(* is answered before the turn completes, in the order the messages were accepted, and is  *)
(* never lost by how the turn ends: two awaits decide whether one that is being stored is  *)
(* seen (takeSteerCutoff, and the settling after an answer without calls).                 *)
SteersHeard ==
  /\ \A i, j \in DOMAIN history :
       i < j /\ history[i].kind = "steer" /\ history[j].kind = "steer" =>
         history[i].n < history[j].n
  /\ loopAt = "done" /\ ~giveFailed => In("admitting") \cup In("stored") = {}
  /\ loopAt = "done" /\ turnReason = "end" =>
       \A i \in DOMAIN history : history[i].kind = "steer" =>
         \E a \in DOMAIN history : history[a].kind = "assistant" /\ i < a

(* Every request can be answered by the provider: no two calls share an id, and the        *)
(* message after an answer holds exactly the results of its calls, however the calls were  *)
(* refused, interrupted, asked about or tried again with another tool.                     *)
RequestsWellFormed ==
  loopAt = "streaming" =>
    LET wire == WireMessages
        asks == {i \in DOMAIN wire : wire[i].role = "assistant" /\ wire[i].calls # <<>>}
    IN /\ \A i \in asks : /\ i < Len(wire) /\ wire[i + 1].results = wire[i].calls
                          /\ IsInjective(wire[i].calls)
       /\ \A i, j \in asks : i # j => Range(wire[i].calls) \cap Range(wire[j].calls) = {}
       /\ \A i \in DOMAIN wire : wire[i].results # <<>> => i - 1 \in asks
================================================================================
