------------------------------- MODULE McpSession -------------------------------
(* One MCP server in the offscreen document: whose connection it is, and the tool calls on *)
(* it (src/mcp/workerSessions.ts, src/mcp/client.ts, src/mcp/workerClient.ts,              *)
(* entrypoints/mcp-worker/main.ts).                                                        *)
(*                                                                                         *)
(* Every client of the background worker has a connection id of its own; the latest to     *)
(* claim the server owns it, and a handshake that ends later than its lease is closed. The *)
(* calls of a session take turns, because a question the server asks meanwhile belongs to  *)
(* the call at work. Runtime messages arrive in any order: a cancellation may come before  *)
(* the call it cancels, and is then kept.                                                  *)
EXTENDS Naturals, Sequences, SequencesExt, FiniteSets

CONSTANTS
  Connection,   \* the clients the background worker creates
  OpCall,       \* the tool calls, by operation id
  NoOne,        \* no owner, no session, no active call
  MaxCancels    \* bound: calls that are cancelled

ASSUME SessionAssumption == NoOne \notin Connection \cup OpCall /\ MaxCancels \in Nat

VARIABLES
  owner,        \* owners: the connection that claimed the server last, and its generation
  session,      \* sessions: the connection whose client is committed
  handshake,    \* where each connection is in the offscreen document
  lease,        \* the generation each connection claimed
  opCall,       \* where each call is
  callOn,       \* the connection each call was sent on
  opSignal,     \* the calls whose abort signal has fired
  turns,        \* toolCallTail of each connection's client
  atWork,       \* activeToolContext of each connection's client
  cancelAt,     \* where the cancellation of each call is
  tombstones    \* pendingCancellations

sessionVars == <<owner, session, handshake, lease, opCall, callOn, opSignal, turns, atWork,
                 cancelAt, tombstones>>
callVars == <<opCall, callOn, opSignal, turns, atWork, cancelAt, tombstones>>

SessionInit ==
  /\ owner = NoOne /\ session = NoOne
  /\ handshake = [c \in Connection |-> "none"] /\ lease = [c \in Connection |-> 0]
  /\ opCall = [k \in OpCall |-> "none"] /\ callOn = [k \in OpCall |-> NoOne]
  /\ opSignal = {} /\ turns = [c \in Connection |-> <<>>]
  /\ atWork = [c \in Connection |-> NoOne]
  /\ cancelAt = [k \in OpCall |-> "none"] /\ tombstones = {}

Active(k) == opCall[k] \in {"waiting", "running"}

(* clearConnectionOperations: the active calls of a connection are aborted and its         *)
(* cancellations are forgotten.                                                            *)
ClearOperations(c) ==
  /\ opSignal' = opSignal \cup {k \in OpCall : callOn[k] = c /\ Active(k)}
  /\ tombstones' = {k \in tombstones : callOn[k] # c}

(* ------------------------------ connections ------------------------------ *)

(* A connect message is handled: the server is claimed, and the client of the session      *)
(* before it is closed before anything else happens.                                       *)
ClaimConnection(c) ==
  /\ handshake[c] = "none"
  /\ LET generation == (IF owner = NoOne THEN 0 ELSE lease[owner]) + 1
     IN lease' = [lease EXCEPT ![c] = generation]
  /\ owner' = c
  /\ IF session # NoOne
     THEN /\ session' = NoOne /\ ClearOperations(session)
          /\ handshake' = [handshake EXCEPT ![c] = "shaking", ![session] = "closed"]
     ELSE /\ handshake' = [handshake EXCEPT ![c] = "shaking"]
          /\ UNCHANGED <<session, opSignal, tombstones>>
  /\ UNCHANGED <<opCall, callOn, turns, atWork, cancelAt>>

AnyOwner(c) == TRUE
CurrentOwner(c) == owner = c

(* The handshake ends: the client is committed to the lease if it still owns the server,   *)
(* and closed otherwise; or it fails, and the background worker will close.                *)
EndHandshake(c) ==
  /\ handshake[c] = "shaking"
  /\ \/ /\ CurrentOwner(c)
        /\ session' = c /\ handshake' = [handshake EXCEPT ![c] = "open"]
     \/ /\ ~CurrentOwner(c)
        /\ handshake' = [handshake EXCEPT ![c] = "closed"] /\ UNCHANGED session
     \/ handshake' = [handshake EXCEPT ![c] = "failed"] /\ UNCHANGED session
  /\ UNCHANGED <<owner, lease>> /\ UNCHANGED callVars

(* closeConnection: only the owner's close does anything.                                  *)
CloseConnection(c) ==
  /\ handshake[c] \in {"shaking", "open", "failed"} /\ CurrentOwner(c)
  /\ owner' = NoOne /\ session' = IF session = c THEN NoOne ELSE session
  /\ handshake' = [handshake EXCEPT ![c] = IF @ = "shaking" THEN @ ELSE "closed"]
  /\ ClearOperations(c)
  /\ UNCHANGED <<lease, opCall, callOn, turns, atWork, cancelAt>>

(* ------------------------------ tool calls ------------------------------ *)

(* McpWorkerClient.callTool on a client the background worker holds as connected.          *)
SendCall(k, c) ==
  /\ opCall[k] = "none" /\ k = CHOOSE x \in OpCall : opCall[x] = "none"
  /\ handshake[c] \in {"open", "closed"}
  /\ opCall' = [opCall EXCEPT ![k] = "sent"] /\ callOn' = [callOn EXCEPT ![k] = c]
  /\ UNCHANGED <<owner, session, handshake, lease, opSignal, turns, atWork, cancelAt,
                 tombstones>>

(* The run is stopped: its caller gives the call up and the cancellation is sent.          *)
SendCancel(k) ==
  /\ opCall[k] \in {"sent", "waiting", "running"} /\ cancelAt[k] = "none"
  /\ Cardinality({x \in OpCall : cancelAt[x] # "none"}) < MaxCancels
  /\ cancelAt' = [cancelAt EXCEPT ![k] = "sent"]
  /\ UNCHANGED <<owner, session, handshake, lease, opCall, callOn, opSignal, turns, atWork,
                 tombstones>>

(* The call arrives. Without the session it fails; a cancellation that came before it      *)
(* aborts it at once; it takes its turn either way (claimToolCall, callTool).              *)
AdmitCall(k) ==
  /\ opCall[k] = "sent"
  /\ LET c == callOn[k]
     IN IF session # c
        THEN opCall' = [opCall EXCEPT ![k] = "done"] /\ UNCHANGED <<turns, opSignal, tombstones>>
        ELSE /\ turns' = [turns EXCEPT ![c] = Append(@, k)]
             /\ tombstones' = tombstones \ {k}
             /\ opSignal' = IF k \in tombstones THEN opSignal \cup {k} ELSE opSignal
             /\ opCall' = [opCall EXCEPT ![k] = IF k \in tombstones THEN "done" ELSE "waiting"]
  /\ UNCHANGED <<owner, session, handshake, lease, callOn, atWork, cancelAt>>

DropCancel(k) ==
  /\ cancelAt[k] = "sent"
  /\ cancelAt' = [cancelAt EXCEPT ![k] = "seen"]
  /\ opSignal' = IF Active(k) THEN opSignal \cup {k} ELSE opSignal
  /\ UNCHANGED <<tombstones, owner, session, handshake, lease, opCall, callOn, turns, atWork>>

(* cancelToolCall: an active call is aborted, otherwise the cancellation is kept.          *)
AdmitCancel(k) ==
  /\ cancelAt[k] = "sent"
  /\ cancelAt' = [cancelAt EXCEPT ![k] = "seen"]
  /\ IF Active(k)
     THEN opSignal' = opSignal \cup {k} /\ UNCHANGED tombstones
     ELSE tombstones' = tombstones \cup {k} /\ UNCHANGED opSignal
  /\ UNCHANGED <<owner, session, handshake, lease, opCall, callOn, turns, atWork>>

(* A cancellation kept for thirty seconds is dropped: no call is still on its way then.    *)
ExpireCancel(k) ==
  /\ k \in tombstones /\ opCall[k] # "sent"
  /\ tombstones' = tombstones \ {k}
  /\ UNCHANGED <<owner, session, handshake, lease, opCall, callOn, opSignal, turns, atWork,
                 cancelAt>>

GiveUpPlace(k) ==
  /\ opCall[k] = "waiting" /\ k \in opSignal
  /\ opCall' = [opCall EXCEPT ![k] = "done"]
  /\ turns' = [turns EXCEPT ![callOn[k]] = IF Head(@) = k THEN Tail(@) ELSE Tail(Remove(@, k))]
  /\ UNCHANGED <<owner, session, handshake, lease, callOn, opSignal, atWork, cancelAt,
                 tombstones>>

(* waitForTurn: an aborted call gives up at once, and its place is passed on only after    *)
(* the call before it.                                                                     *)
GiveUpWaiting(k) ==
  /\ opCall[k] = "waiting" /\ k \in opSignal
  /\ opCall' = [opCall EXCEPT ![k] = "done"]
  /\ UNCHANGED <<owner, session, handshake, lease, callOn, opSignal, turns, atWork, cancelAt,
                 tombstones>>

PassTurn(c) ==
  /\ turns[c] # <<>> /\ opCall[Head(turns[c])] = "done"
  /\ turns' = [turns EXCEPT ![c] = Tail(@)]
  /\ UNCHANGED <<owner, session, handshake, lease, opCall, callOn, opSignal, atWork, cancelAt,
                 tombstones>>

(* The turn comes: the call is dispatched, or fails because its client was closed.         *)
TakeTurn(c) ==
  /\ turns[c] # <<>>
  /\ LET k == Head(turns[c])
     IN /\ opCall[k] = "waiting" /\ k \notin opSignal
        /\ IF handshake[c] = "open"
           THEN opCall' = [opCall EXCEPT ![k] = "running"] /\ atWork' = [atWork EXCEPT ![c] = k]
           ELSE opCall' = [opCall EXCEPT ![k] = "done"] /\ UNCHANGED atWork
  /\ UNCHANGED <<owner, session, handshake, lease, callOn, opSignal, turns, cancelAt,
                 tombstones>>

(* The server answers, the SDK's timeout or the abort ends the call, or the client closes. *)
EndCall(k) ==
  /\ opCall[k] = "running"
  /\ opCall' = [opCall EXCEPT ![k] = "done"]
  /\ atWork' = [atWork EXCEPT ![callOn[k]] = NoOne]
  /\ UNCHANGED <<owner, session, handshake, lease, callOn, opSignal, turns, cancelAt,
                 tombstones>>

SessionNext ==
  \/ \E c \in Connection :
       \/ ClaimConnection(c) \/ EndHandshake(c) \/ CloseConnection(c)
       \/ PassTurn(c) \/ TakeTurn(c)
  \/ \E k \in OpCall, c \in Connection : SendCall(k, c)
  \/ \E k \in OpCall :
       \/ SendCancel(k) \/ AdmitCall(k) \/ AdmitCancel(k) \/ ExpireCancel(k)
       \/ GiveUpWaiting(k) \/ EndCall(k)

SessionSpec == SessionInit /\ [][SessionNext]_sessionVars

(* ------------------------------ properties ------------------------------ *)

SessionTypeOK ==
  /\ owner \in Connection \cup {NoOne} /\ session \in Connection \cup {NoOne}
  /\ handshake \in [Connection -> {"none", "shaking", "open", "failed", "closed"}]
  /\ lease \in [Connection -> 0..Cardinality(Connection)]
  /\ opCall \in [OpCall -> {"none", "sent", "waiting", "running", "done"}]
  /\ callOn \in [OpCall -> Connection \cup {NoOne}]
  /\ opSignal \subseteq OpCall /\ tombstones \subseteq OpCall
  /\ \A c \in Connection : turns[c] \in Seq(OpCall)
  /\ atWork \in [Connection -> OpCall \cup {NoOne}]
  /\ cancelAt \in [OpCall -> {"none", "sent", "seen"}]

(* Of all the clients two background instances may have created, at most one is open: the  *)
(* owner's. A handshake that ends after another connection claimed the server never        *)
(* replaces it, and a session that lost its owner is closed (claimConnection,              *)
(* commitConnection, closeConnection).                                                     *)
OpenIsOwned ==
  \A c \in Connection : handshake[c] = "open" => owner = c /\ session = c

(* Besides, a call the offscreen document was told to cancel before it was dispatched is   *)
(* never dispatched, whether the cancellation or the call arrived first, and one client    *)
(* has one call at work, so that a question of the server reaches the run that is waiting  *)
(* for it (cancelToolCall's tombstones, callTool's turns).                                 *)
CancelledNeverRuns ==
  /\ []OpenIsOwned
  /\ [][ \A k \in OpCall :
           opCall[k] # "running" /\ opCall'[k] = "running"
             => /\ cancelAt[k] # "seen"
                /\ \A x \in OpCall \ {k} : ~(opCall[x] = "running" /\ callOn[x] = callOn[k])
       ]_sessionVars
================================================================================
