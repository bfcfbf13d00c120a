------------------------------ MODULE RunState ------------------------------
(***************************************************************************)
(* The state machine of a durable run record (src/src/engine/runState.ts): *)
(* the eleven states, the table of transitions every write of the record   *)
(* is checked against, and the decision the background worker takes about  *)
(* each open run when it starts again.                                     *)
(***************************************************************************)

RunStates ==
  {"queued", "preparing", "streaming_model", "waiting_approval",
   "waiting_interaction", "executing_tool", "paused_budget",
   "paused_uncertain", "interrupted", "failed", "completed"}

Terminal == {"failed", "completed"}

Waiting == {"waiting_approval", "waiting_interaction"}

(* States in which some execution must be advancing the run, or waiting on *)
(* the user's behalf: two runs of a thread in them would append to the     *)
(* same conversation path.                                                 *)
Owning == {"preparing", "streaming_model", "executing_tool"} \cup Waiting

Successors ==
  [queued              |-> {"preparing", "interrupted", "failed"},
   preparing           |-> {"streaming_model", "executing_tool", "paused_budget",
                            "paused_uncertain", "interrupted", "failed"} \cup Waiting,
   streaming_model     |-> {"executing_tool", "paused_budget", "interrupted",
                            "failed", "completed"} \cup Waiting,
   waiting_approval    |-> {"executing_tool", "streaming_model", "interrupted", "failed"},
   waiting_interaction |-> {"streaming_model", "interrupted", "failed"},
   executing_tool      |-> {"streaming_model", "paused_budget", "paused_uncertain",
                            "interrupted", "failed"} \cup Waiting,
   paused_budget       |-> {"preparing", "interrupted", "failed"},
   paused_uncertain    |-> {"preparing", "interrupted", "failed"},
   interrupted         |-> {"queued", "preparing", "failed"},
   failed              |-> {},
   completed           |-> {}]

(* assertRunTransition: writing the state a run already has is always legal. *)
CanTransition(from, to) == to = from \/ to \in Successors[from]

(* The kinds of tool call the engine's decisions tell apart: its declared  *)
(* effect and recovery policy, and whether it is an interaction, which the *)
(* loop turns into a question instead of executing it.                     *)
ToolClasses == {"read", "retrySafe", "write", "interactive"}

(* effect === 'write' *)
HasWriteEffect(class) == class \in {"retrySafe", "write"}

(* effect === 'read' || recovery === 'retry-safe' *)
Replayable(class) == class # "write"

RecoveryActions ==
  {"resume_run", "restore_approval", "restore_interaction", "replay_tool",
   "request_resolution", "request_resume", "none"}

(* recoverInterruptedRun: `safe' says that the pending tool exists and is  *)
(* Replayable. The two operators give the state the open run is put in and *)
(* what recovery does with it next.                                        *)
MutKeepsStreaming(s, safe) ==
  CASE s \in {"queued", "preparing"} -> "queued"
    [] s = "executing_tool"          -> IF safe THEN "preparing" ELSE "paused_uncertain"
    [] OTHER                         -> s

RecoveredState(s, safe) ==
  CASE s \in {"queued", "preparing"} -> "queued"
    [] s = "executing_tool"          -> IF safe THEN "preparing" ELSE "paused_uncertain"
    [] s = "streaming_model"         -> "interrupted"
    [] OTHER                         -> s


RecoveryAction(s, safe) ==
  CASE s \in {"queued", "preparing"}           -> "resume_run"
    [] s = "waiting_approval"                  -> "restore_approval"
    [] s = "waiting_interaction"               -> "restore_interaction"
    [] s = "executing_tool"                    -> IF safe THEN "replay_tool"
                                                  ELSE "request_resolution"
    [] s \in {"streaming_model", "interrupted"} -> "request_resume"
    [] OTHER                                   -> "none"
=============================================================================
