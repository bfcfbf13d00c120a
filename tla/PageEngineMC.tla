--------------------------- MODULE PageEngineMC ---------------------------
(* The two halves of the port between a page and the background, checked  *)
(* in one run: the initial state chooses which of them the behaviour is   *)
(* about, and the other one stands still.                                 *)
EXTENDS CommandDelivery, ThreadStream

VARIABLE half

portVars == <<half, deliveryVars, streamVars>>

PortInit == half \in {"commands", "events"} /\ DeliveryInit /\ StreamInit

PortNext ==
  \/ half = "commands" /\ DeliveryNext /\ UNCHANGED <<half, streamVars>>
  \/ half = "events" /\ StreamNext /\ UNCHANGED <<half, deliveryVars>>

(* The fairness of either half, for the behaviours that are about it. *)
PortFairness ==
  /\ \A p \in Page : WF_deliveryVars(half = "commands" /\ PageProgress(p))
                     /\ WF_deliveryVars(half = "commands" /\ HostStep(p))
  /\ WF_deliveryVars(half = "commands" /\ CoreStep)
  /\ WF_deliveryVars(half = "commands" /\ Boot)
  /\ WF_streamVars(half = "events" /\ AdmissionStep)
  /\ WF_streamVars(half = "events" /\ FlushTimer)
  /\ WF_streamVars(half = "events" /\ StartWorker)
  /\ WF_streamVars(half = "events" /\ ConnectPort)
  /\ WF_streamVars(half = "events" /\ PageReads)
  /\ \A t \in Thread : WF_streamVars(half = "events" /\ Announce(t))

PortSpec == PortInit /\ [][PortNext]_portVars /\ PortFairness

(* No page waits forever: in the end it has learnt the fate of every        *)
(* command it issued, and shows the thread it opened.                       *)
NobodyKeptWaiting == EverySettled /\ LoadingEnds
===========================================================================
