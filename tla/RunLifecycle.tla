---------------------------- MODULE RunLifecycle ----------------------------
(***************************************************************************)
(* What a thread promises about its runs, with nothing of how approvals,   *)
(* restarts or queues bring it about: a run is worked on by one execution  *)
(* at a time, alone on its thread; it may be parked for the user to resume *)
(* or put back in the queue by a restart; once closed it stays closed.     *)
(***************************************************************************)
CONSTANT Run

VARIABLE status

Status == {"new", "queued", "active", "parked", "closed"}

Init == status = [r \in Run |-> "new"]

Become(r, to) == status' = [status EXCEPT ![r] = to]

Create(r) == status[r] = "new" /\ Become(r, "queued")

(* Only on a thread where no run is active. *)
Activate(r) ==
  /\ status[r] \in {"queued", "parked"}
  /\ \A s \in Run : status[s] # "active"
  /\ Become(r, "active")

Park(r) == status[r] \in {"queued", "active"} /\ Become(r, "parked")

Requeue(r) == status[r] = "active" /\ Become(r, "queued")

Close(r) == status[r] \in {"queued", "active", "parked"} /\ Become(r, "closed")

Next == \E r \in Run : Create(r) \/ Activate(r) \/ Park(r) \/ Requeue(r) \/ Close(r)

Spec == Init /\ [][Next]_status
=============================================================================
