---------------------------- MODULE ConversationTree ----------------------------
(* The message tree of one thread and the cursor runs write at (src/db/tree.ts,            *)
(* src/db/sessionContext.ts, the branching commands of src/engine/core.ts).                *)
(*                                                                                         *)
(* A node is appended below the cursor and becomes the cursor. Forking moves the cursor up *)
(* before the new turn has written anything; choosing a branch moves it to the newest leaf *)
(* of another branch. A run that was stopped is not tied to the place it stopped at: when  *)
(* it goes on, it writes wherever the cursor is by then. Nor is one that waits: a run whose *)
(* worker stopped before its first node is started again at the cursor it finds.           *)
EXTENDS Naturals, Sequences, FiniteSets

CONSTANTS
  Turn,       \* runs of the thread
  Nobody,     \* no owner
  MaxNodes,   \* bound: nodes of the thread
  MaxStops,   \* bound: worker restarts
  MaxMoves    \* bound: branches chosen

ASSUME TreeAssumption ==
  Nobody \notin Turn /\ MaxNodes \in Nat /\ MaxStops \in Nat /\ MaxMoves \in Nat

VARIABLES
  node,      \* the nodes in the order of their seq; a node's id is its seq
  leafId,    \* the cursor, 0 for none
  runOwner,  \* the run that owns the thread, which makes it busy
  turnAt,    \* where each run is
  fork,      \* the fork a run starts: the message it branches at and the cursor before
  moved,     \* runs whose branch was left while they were stopped
  forkLost,  \* the cursor stands where a fork moved it that never wrote its first node
  deletedThread,
  stops, moves

treeVars == <<node, leafId, runOwner, turnAt, fork, moved, forkLost, deletedThread, stops, moves>>

NodeKind == {"turn_context", "user_message", "assistant_message", "tool_call", "tool_result"}
Id == DOMAIN node
NoFork == [anchor |-> 0, before |-> 0]

(* ------------------------------ the tree ------------------------------ *)

Children(p) == {n \in Id : node[n].parent = p}

(* getPath: from a node to the root.                                                       *)
PathTo(leaf) ==
  LET up[n \in 0..Len(node)] == IF n = 0 THEN {} ELSE {n} \cup up[node[n].parent]
  IN up[leaf]

(* The nearest ancestor that is not a turn's context: where branches of a message meet.    *)
VisibleAncestor(n) ==
  LET up[p \in 0..Len(node)] ==
        IF p = 0 \/ node[p].kind # "turn_context" THEN p ELSE up[node[p].parent]
  IN up[node[n].parent]

(* getLogicalSiblings: the messages below it, seen through the contexts of turns.          *)
LogicalSiblings(n) ==
  {m \in Id : node[m].kind # "turn_context" /\ VisibleAncestor(m) = VisibleAncestor(n)}

Largest(S) == CHOOSE x \in S : \A y \in S : y <= x

(* switchToSibling: from the message down, always to the newest child.                     *)
NewestBelow(n) ==
  LET down[k \in Id] == IF Children(k) = {} THEN k ELSE down[Largest(Children(k))]
  IN down[n]

(* appendNode, for the nodes one transaction writes: each goes below the one before it,    *)
(* and the last becomes the cursor.                                                        *)
AppendKinds(r, kinds) ==
  LET parentOf(i) == IF i = 1 THEN leafId ELSE Len(node) + i - 1
      new == [i \in DOMAIN kinds |-> [kind |-> kinds[i], parent |-> parentOf(i), run |-> r]]
  IN /\ Len(node) + Len(kinds) <= MaxNodes
     /\ node' = node \o new
     /\ leafId' = Len(node) + Len(kinds)

TreeInit ==
  /\ node = <<>> /\ leafId = 0 /\ runOwner = Nobody
  /\ turnAt = [r \in Turn |-> "new"] /\ fork = [r \in Turn |-> NoFork]
  /\ moved = {} /\ forkLost = FALSE /\ deletedThread = FALSE /\ stops = 0 /\ moves = 0

Idle == runOwner = Nobody /\ ~deletedThread
(* A run's id is a fresh one.                                                              *)
Fresh(r) == turnAt[r] = "new" /\ r = CHOOSE x \in Turn : turnAt[x] = "new"

(* ------------------------------ turns ------------------------------ *)

(* turn.submit on an idle thread: the run owns it from here on.                            *)
SubmitTurn(r) ==
  /\ Idle /\ Fresh(r)
  /\ turnAt' = [turnAt EXCEPT ![r] = "starting"] /\ runOwner' = r
  /\ UNCHANGED <<node, leafId, fork, moved, forkLost, deletedThread, stops, moves>>

(* turn.fork: repositionLeafForFork moves the cursor above the message it branches at.     *)
ForkTurn(r, a) ==
  /\ Idle /\ Fresh(r) /\ node[a].kind = "user_message" /\ a \in PathTo(leafId)
  /\ turnAt' = [turnAt EXCEPT ![r] = "starting"] /\ runOwner' = r
  /\ fork' = [fork EXCEPT ![r] = [anchor |-> a, before |-> leafId]]
  /\ leafId' = VisibleAncestor(a)
  /\ moved' = moved \cup {x \in Turn : turnAt[x] \in {"interrupted", "uncertain"}}
  /\ UNCHANGED <<node, forkLost, deletedThread, stops, moves>>

(* turn.enqueue: the run waits, and is started once the thread is idle, at the cursor the  *)
(* thread then has.                                                                        *)
EnqueueTurn(r) ==
  /\ ~deletedThread /\ Fresh(r) /\ turnAt' = [turnAt EXCEPT ![r] = "queued"]
  /\ UNCHANGED <<node, leafId, runOwner, fork, moved, forkLost, deletedThread, stops, moves>>

DrainQueue(r) ==
  /\ Idle /\ turnAt[r] = "queued"
  /\ turnAt' = [turnAt EXCEPT ![r] = "starting"] /\ runOwner' = r
  /\ UNCHANGED <<node, leafId, fork, moved, forkLost, deletedThread, stops, moves>>

(* The provider or the environment cannot be resolved: turn.fork puts the cursor back.     *)
LeaveCursor(r) == leafId' = leafId
RestoreCursor(r) == leafId' = IF fork[r] # NoFork THEN fork[r].before ELSE leafId

FailStart(r) ==
  /\ turnAt[r] = "starting" /\ RestoreCursor(r)
  /\ turnAt' = [turnAt EXCEPT ![r] = "ended"] /\ runOwner' = Nobody
  /\ UNCHANGED <<node, fork, moved, forkLost, deletedThread, stops, moves>>

(* The first nodes of a turn, in one transaction. When it fails, so does the run; the      *)
(* command is over by then, and the cursor stays where the fork moved it.                  *)
BeginTurn(r) ==
  /\ turnAt[r] = "starting" /\ AppendKinds(r, <<"turn_context", "user_message">>)
  /\ turnAt' = [turnAt EXCEPT ![r] = "streaming"] /\ forkLost' = FALSE
  /\ UNCHANGED <<runOwner, fork, moved, deletedThread, stops, moves>>

FailFirstNodes(r) ==
  /\ turnAt[r] = "starting"
  /\ turnAt' = [turnAt EXCEPT ![r] = "ended"] /\ runOwner' = Nobody
  /\ forkLost' = (forkLost \/ fork[r] # NoFork)
  /\ UNCHANGED <<node, leafId, fork, moved, deletedThread, stops, moves>>

(* The answer of the model; it asks for a tool, or ends the turn.                          *)
Answer(r) ==
  /\ turnAt[r] = "streaming" /\ runOwner = r /\ AppendKinds(r, <<"assistant_message">>)
  /\ \/ turnAt' = [turnAt EXCEPT ![r] = "asked"] /\ runOwner' = r
     \/ turnAt' = [turnAt EXCEPT ![r] = "ended"] /\ runOwner' = Nobody
  /\ forkLost' = FALSE /\ UNCHANGED <<fork, moved, deletedThread, stops, moves>>

(* The call is written with its dispatch, and its result when the tool is back; a call     *)
(* that is denied or invalid is written with its result at once.                           *)
CallTool(r) ==
  /\ turnAt[r] = "asked" /\ runOwner = r
  /\ \/ AppendKinds(r, <<"tool_call">>) /\ turnAt' = [turnAt EXCEPT ![r] = "executing"]
     \/ /\ AppendKinds(r, <<"tool_call", "tool_result">>)
        /\ turnAt' = [turnAt EXCEPT ![r] = "streaming"]
  /\ forkLost' = FALSE /\ UNCHANGED <<runOwner, fork, moved, deletedThread, stops, moves>>

ToolResult(r) ==
  /\ turnAt[r] = "executing" /\ runOwner = r /\ AppendKinds(r, <<"tool_result">>)
  /\ turnAt' = [turnAt EXCEPT ![r] = "streaming"] /\ forkLost' = FALSE
  /\ UNCHANGED <<runOwner, fork, moved, deletedThread, stops, moves>>

(* The user stops the turn; its error, cancellation or budget ends it the same way.        *)
StopTurn(r) ==
  /\ runOwner = r /\ turnAt[r] \in {"streaming", "asked"}
  /\ turnAt' = [turnAt EXCEPT ![r] = "interrupted"] /\ runOwner' = Nobody
  /\ UNCHANGED <<node, leafId, fork, moved, forkLost, deletedThread, stops, moves>>

(* The worker stops. A run that was starting and whose record was written waits in the     *)
(* queue again, no longer as a fork: its input is all the record keeps. Without a record   *)
(* it is gone. One that was executing a tool is settled before it goes on.                 *)
RestartWorker ==
  /\ stops < MaxStops /\ stops' = stops + 1
  /\ runOwner # Nobody /\ runOwner' = Nobody
  /\ \E to \in CASE turnAt[runOwner] = "starting" -> {"queued", "ended"}
               [] turnAt[runOwner] = "executing" -> {"uncertain"}
               [] OTHER -> {"interrupted"} :
       turnAt' = [turnAt EXCEPT ![runOwner] = to]
  /\ fork' = [fork EXCEPT ![runOwner] = IF turnAt[runOwner] = "starting" THEN NoFork ELSE @]
  /\ forkLost' = (forkLost \/ (turnAt[runOwner] = "starting" /\ fork[runOwner] # NoFork))
  /\ UNCHANGED <<node, leafId, moved, deletedThread, moves>>

(* run.resume goes on at the cursor; run.resolveUncertain first writes the result the user *)
(* confirmed, or the one of the repeated call, or fails the run.                           *)
ResumeTurn(r) ==
  /\ Idle /\ turnAt[r] = "interrupted"
  /\ turnAt' = [turnAt EXCEPT ![r] = "streaming"] /\ runOwner' = r
  /\ UNCHANGED <<node, leafId, fork, moved, forkLost, deletedThread, stops, moves>>

ResolveTurn(r) ==
  /\ Idle /\ turnAt[r] = "uncertain"
  /\ \/ /\ AppendKinds(r, <<"tool_result">>) /\ forkLost' = FALSE
        /\ turnAt' = [turnAt EXCEPT ![r] = "streaming"] /\ runOwner' = r
     \/ /\ turnAt' = [turnAt EXCEPT ![r] = "ended"]
        /\ UNCHANGED <<node, leafId, runOwner, forkLost>>
  /\ UNCHANGED <<fork, moved, deletedThread, stops, moves>>

(* ------------------------------ branches ------------------------------ *)

SelectAnytime(t) ==
  /\ ~deletedThread /\ moves < MaxMoves /\ moves' = moves + 1
  /\ \E n \in PathTo(leafId) :
       node[n].kind \in {"user_message", "assistant_message"} /\ t \in LogicalSiblings(n) \ {n}
  /\ leafId' = NewestBelow(t)
  /\ UNCHANGED <<node, runOwner, turnAt, fork, moved, forkLost, deletedThread, stops>>
(* thread.selectBranch, in one transaction with its receipt: the page offers the logical   *)
(* siblings of the messages it shows.                                                      *)
SelectBranch(t) ==
  /\ Idle /\ moves < MaxMoves /\ moves' = moves + 1
  /\ \E n \in PathTo(leafId) :
       node[n].kind \in {"user_message", "assistant_message"} /\ t \in LogicalSiblings(n) \ {n}
  /\ leafId' = NewestBelow(t)
  /\ moved' = moved \cup {r \in Turn : turnAt[r] \in {"interrupted", "uncertain"}}
  /\ forkLost' = FALSE /\ UNCHANGED <<node, runOwner, turnAt, fork, deletedThread, stops>>

(* thread.delete interrupts the run, waits for it, and removes everything at once.         *)
DeleteThread ==
  /\ Idle /\ node' = <<>> /\ leafId' = 0 /\ deletedThread' = TRUE
  /\ turnAt' = [r \in Turn |-> "ended"] /\ fork' = [r \in Turn |-> NoFork]
  /\ moved' = {}
  /\ UNCHANGED <<runOwner, forkLost, stops, moves>>

TreeNext ==
  \/ \E r \in Turn :
       \/ SubmitTurn(r) \/ EnqueueTurn(r) \/ DrainQueue(r) \/ FailStart(r) \/ BeginTurn(r)
       \/ FailFirstNodes(r) \/ Answer(r) \/ CallTool(r) \/ ToolResult(r) \/ StopTurn(r)
       \/ ResumeTurn(r) \/ ResolveTurn(r)
       \/ \E a \in Id : ForkTurn(r, a)
  \/ \E t \in Id : SelectBranch(t)
  \/ RestartWorker \/ DeleteThread

TreeSpec == TreeInit /\ [][TreeNext]_treeVars

(* ------------------------------ properties ------------------------------ *)

TreeTypeOK ==
  /\ node \in Seq([kind : NodeKind, parent : 0..MaxNodes, run : Turn]) /\ Len(node) <= MaxNodes
  /\ leafId \in 0..Len(node) /\ runOwner \in Turn \cup {Nobody}
  /\ turnAt \in [Turn -> {"new", "queued", "starting", "streaming", "asked", "executing", "interrupted",
                          "uncertain", "ended"}]
  /\ fork \in [Turn -> [anchor : 0..MaxNodes, before : 0..MaxNodes]]
  /\ moved \subseteq Turn /\ forkLost \in BOOLEAN /\ deletedThread \in BOOLEAN
  /\ stops \in 0..MaxStops /\ moves \in 0..MaxMoves

(* While no run owns the thread, nothing of the conversation hangs below the cursor: what  *)
(* the user reads is a whole branch, after forks that failed to start, choices of branches *)
(* and runs that stopped halfway. A fork whose worker stopped, or whose first transaction  *)
(* failed, before it wrote a node is the one exception, until something is written or a    *)
(* branch is chosen.                                                                       *)
WholeBranchShown == runOwner = Nobody /\ ~forkLost => Children(leafId) = {}

(* A run that owns the thread builds the model's history from all it wrote: nothing of it  *)
(* is on another branch, unless the user left its branch while it was stopped.             *)
HistoryHoldsRun ==
  runOwner # Nobody /\ runOwner \notin moved =>
    \A n \in Id : node[n].run = runOwner => n \in PathTo(leafId)

(* A forked message and the one it was forked at are branches of one another, however deep *)
(* the contexts of earlier turns and forks lie between them. (A fork that is started again *)
(* by a later worker is no longer one: it writes wherever the cursor is by then.)          *)
ForkIsBranch ==
  \A r \in Turn : fork[r] # NoFork =>
    \A u \in Id : node[u].run = r /\ node[u].kind = "user_message" =>
      u \in LogicalSiblings(fork[r].anchor)
(* All three: however messages are forked, branches chosen and runs stopped, the branch    *)
(* under the cursor is the conversation the user and the model go on with.                 *)
BranchesHold == WholeBranchShown /\ HistoryHoldsRun /\ ForkIsBranch
================================================================================
