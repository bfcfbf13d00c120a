-------------------------------- MODULE WorkerPort --------------------------------
(* The port between the background worker and the offscreen document              *)
(* (data/maintenanceWorkerClient.ts, mcp/offscreenWorker.ts and the second half of *)
(* mcp-worker/main.ts): requests to validate an import, answered over a port that   *)
(* the document opens and opens again, with a timer each. The document may crash,   *)
(* the worker may be stopped, and what is on its way when a port closes is lost.    *)
EXTENDS Naturals

CONSTANTS
  Request,    \* validation requests, one operation each
  NoPort,
  MaxPorts    \* bound: ports the document opens

ASSUME PortAssumption == NoPort \notin Nat /\ MaxPorts \in Nat

VARIABLES
  asked,      \* how far each request is
  askedOn,    \* the port a request was posted to
  heldPort,   \* workerPort of the background worker
  awake,      \* the background worker runs
  docPort,    \* the port the document has open
  docUp,      \* the document exists
  creating,   \* creatingWorker
  opening,    \* a port on its way to the worker
  closing,    \* ports closed by one end, of which the other has not heard yet
  posted,     \* requests on their way to the document, or in work there
  answers,    \* answers on their way back: the request, the port, and what it says
  ports       \* ports opened so far

portVars == <<asked, askedOn, heldPort, awake, docPort, docUp, creating, opening, closing, posted,
              answers, ports>>
document == <<docPort, docUp, creating, opening, ports>>
SettledState == {"accepted", "rejected"}
PortId == 1 .. MaxPorts

PortInit ==
  /\ asked = [r \in Request |-> "none"] /\ askedOn = [r \in Request |-> NoPort]
  /\ heldPort = NoPort /\ awake = TRUE /\ docPort = NoPort /\ docUp = FALSE /\ creating = FALSE
  /\ opening = NoPort /\ closing = {} /\ posted = {} /\ answers = {} /\ ports = 0

(* resetWorkerPort: every request and every waiter is rejected, the port given up.  *)
MutKeepsWaiting == [r \in Request |-> asked[r]]
AllRejected == [r \in Request |-> IF asked[r] \in {"pending", "waiting"} THEN "rejected" ELSE asked[r]]
Resets(tell) ==
  /\ asked' = AllRejected /\ heldPort' = NoPort
  /\ closing' = closing \cup IF tell /\ heldPort # NoPort THEN {heldPort} ELSE {}

(* ------------------------------ the worker asks ------------------------------ *)

(* ensureMcpWorkerDocument: those that find no document share one creation.          *)
Ask(r) ==
  /\ awake /\ asked[r] = "none" /\ asked' = [asked EXCEPT ![r] = "ensuring"]
  /\ creating' = (creating \/ ~docUp)
  /\ UNCHANGED <<askedOn, heldPort, awake, docPort, docUp, opening, closing, posted, answers, ports>>
CreateDocument ==
  /\ creating /\ creating' = FALSE /\ docUp' = TRUE
  /\ UNCHANGED <<asked, askedOn, heldPort, awake, docPort, opening, closing, posted, answers, ports>>

(* postMessage on the port the worker holds; it throws when the port is closed.      *)
Posts(rs) ==
  /\ askedOn' = [r \in Request |-> IF r \in rs THEN heldPort ELSE askedOn[r]]
  /\ posted' = posted \cup {<<r, heldPort>> : r \in rs}
Post(r) ==
  /\ awake /\ asked[r] = "ensuring" /\ ~creating
  /\ \/ heldPort # NoPort /\ asked' = [asked EXCEPT ![r] = "pending"] /\ Posts({r})
     \/ heldPort = NoPort /\ asked' = [asked EXCEPT ![r] = "waiting"] /\ UNCHANGED <<askedOn, posted>>
  /\ UNCHANGED <<heldPort, awake, document, closing, answers>>

(* The timer of a request takes the port down with it, the one of a waiter does not.  *)
TimeOut(r) ==
  /\ awake /\ asked[r] = "pending" /\ Resets(TRUE)
  /\ UNCHANGED <<askedOn, awake, document, posted, answers>>
GiveUp(r) ==
  /\ awake /\ asked[r] = "waiting" /\ asked' = [asked EXCEPT ![r] = "rejected"]
  /\ UNCHANGED <<askedOn, heldPort, awake, document, closing, posted, answers>>

(* ------------------------------ the document ------------------------------ *)

(* connectMaintenanceWorker, at its start and some time after a port has closed; it   *)
(* wakes the worker.                                                                 *)
Connect ==
  /\ docUp /\ docPort = NoPort /\ ports < MaxPorts
  /\ ports' = ports + 1 /\ docPort' = ports + 1 /\ opening' = ports + 1 /\ awake' = TRUE
  /\ UNCHANGED <<asked, askedOn, heldPort, docUp, creating, closing, posted, answers>>
(* handleMaintenanceRequest: valid or not, the answer goes to the port that asked, and *)
(* is dropped when that is closed.                                                    *)
Validate(r, p) ==
  /\ docUp /\ <<r, p>> \in posted /\ posted' = posted \ {<<r, p>>}
  /\ \/ docPort = p /\ \E ok \in BOOLEAN : answers' = answers \cup {<<r, p, ok>>}
     \/ docPort # p /\ UNCHANGED answers
  /\ UNCHANGED <<asked, askedOn, heldPort, awake, document, closing>>
HearClose ==
  /\ docPort \in closing /\ docPort' = NoPort /\ closing' = closing \ {docPort}
  /\ UNCHANGED <<asked, askedOn, heldPort, awake, docUp, creating, opening, posted, answers, ports>>

(* ------------------------------ the worker hears ------------------------------ *)

(* acceptMaintenanceWorkerPort: one port at a time; all that waited are sent.        *)
Accept ==
  /\ awake /\ opening # NoPort /\ opening' = NoPort
  /\ \/ /\ heldPort # NoPort /\ closing' = closing \cup {opening}
        /\ UNCHANGED <<asked, askedOn, heldPort, posted>>
     \/ /\ heldPort = NoPort /\ heldPort' = opening /\ UNCHANGED closing
        /\ LET waiters == {r \in Request : asked[r] = "waiting"}
           IN /\ asked' = [r \in Request |-> IF r \in waiters THEN "pending" ELSE asked[r]]
              /\ askedOn' = [r \in Request |-> IF r \in waiters THEN opening ELSE askedOn[r]]
              /\ posted' = posted \cup {<<r, opening>> : r \in waiters}
  /\ UNCHANGED <<awake, docPort, docUp, creating, answers, ports>>

(* handleWorkerResponse; an answer nobody waits for closes the port.                 *)
Correlated(r) == asked[r] = "pending"
HearAnswer(r, p, ok) ==
  /\ awake /\ <<r, p, ok>> \in answers /\ answers' = answers \ {<<r, p, ok>>}
  /\ \/ /\ heldPort = p /\ Correlated(r) /\ UNCHANGED <<heldPort, closing>>
        /\ asked' = [asked EXCEPT ![r] = IF ok THEN "accepted" ELSE "rejected"]
     \/ heldPort = p /\ ~Correlated(r) /\ Resets(TRUE)
     \/ heldPort # p /\ UNCHANGED <<asked, heldPort, closing>>
  /\ UNCHANGED <<askedOn, awake, document, posted>>

(* ------------------------------ dying ------------------------------ *)

DocumentCrashes ==
  /\ docUp /\ docUp' = FALSE /\ docPort' = NoPort /\ posted' = {}
  /\ opening' = NoPort /\ closing' = (closing \ {docPort}) \cup IF heldPort = NoPort THEN {} ELSE {heldPort}
  /\ UNCHANGED <<asked, askedOn, heldPort, awake, creating, answers, ports>>
(* handleWorkerDisconnect.                                                           *)
HearDisconnect ==
  /\ awake /\ heldPort # NoPort /\ heldPort \in closing /\ docPort # heldPort
  /\ \A m \in answers : m[2] # heldPort
  /\ asked' = AllRejected /\ heldPort' = NoPort /\ closing' = closing \ {heldPort}
  /\ UNCHANGED <<askedOn, awake, document, posted, answers>>
WorkerStops ==
  /\ awake /\ awake' = FALSE /\ heldPort' = NoPort /\ creating' = FALSE /\ answers' = {}
  /\ asked' = [r \in Request |-> IF asked[r] \in SettledState \cup {"none"} THEN asked[r] ELSE "rejected"]
  /\ closing' = closing \cup IF docPort = NoPort THEN {} ELSE {docPort}
  /\ UNCHANGED <<askedOn, docPort, docUp, opening, posted, ports>>

PortNext ==
  \/ \E r \in Request :
       \/ Ask(r) \/ Post(r) \/ TimeOut(r) \/ GiveUp(r)
       \/ \E p \in PortId : Validate(r, p) \/ \E ok \in BOOLEAN : HearAnswer(r, p, ok)
  \/ CreateDocument \/ Connect \/ HearClose \/ Accept \/ DocumentCrashes \/ HearDisconnect
  \/ WorkerStops

PortSpec == PortInit /\ [][PortNext]_portVars

(* ------------------------------ what holds ------------------------------ *)

PortTypeOK ==
  /\ asked \in [Request -> {"none", "ensuring", "waiting", "pending"} \cup SettledState]
  /\ askedOn \in [Request -> PortId \cup {NoPort}]
  /\ heldPort \in PortId \cup {NoPort} /\ docPort \in PortId \cup {NoPort}
  /\ opening \in PortId \cup {NoPort} /\ closing \subseteq PortId
  /\ awake \in BOOLEAN /\ docUp \in BOOLEAN /\ creating \in BOOLEAN /\ ports \in 0 .. MaxPorts
  /\ posted \subseteq Request \X PortId /\ answers \subseteq Request \X PortId \X BOOLEAN

(* However ports close, time out and cross, a request still waits only for an answer    *)
(* that can come: on the port the worker holds, or for a port while it holds none; so a *)
(* port that is given up leaves nobody waiting on it.                                   *)
WaitsWhereAnswered ==
  \A r \in Request :
    /\ asked[r] = "pending" => askedOn[r] = heldPort
    /\ asked[r] = "waiting" => heldPort = NoPort
================================================================================
