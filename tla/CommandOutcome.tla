------------------------- MODULE CommandOutcome -------------------------
(* What the background promises a page about a command it sent: the       *)
(* command has one outcome, decided once, and whatever the page is told,  *)
(* however often it asks again, is that outcome.                          *)
CONSTANTS Command, Outcome, Undecided

VARIABLES outcome, told

TypeOK == /\ outcome \in [Command -> Outcome \cup {Undecided}]
          /\ told \in [Command -> SUBSET Outcome]

Init == /\ outcome = [c \in Command |-> Undecided]
        /\ told = [c \in Command |-> {}]

Decide(c, o) == /\ outcome[c] = Undecided
                /\ outcome' = [outcome EXCEPT ![c] = o]
                /\ UNCHANGED told

Tell(c) == /\ outcome[c] # Undecided
           /\ told' = [told EXCEPT ![c] = @ \cup {outcome[c]}]
           /\ UNCHANGED outcome

(* A restart decides everything that was left open at once. *)
DecideAll == /\ outcome' \in [Command -> Outcome \cup {Undecided}]
             /\ \A c \in Command : outcome[c] # Undecided => outcome'[c] = outcome[c]
             /\ UNCHANGED told

(* The worker may decide and tell in one step. *)
DecideAndTell(c, o) == /\ outcome[c] = Undecided
                       /\ outcome' = [outcome EXCEPT ![c] = o]
                       /\ told' = [told EXCEPT ![c] = @ \cup {o}]

Next == \/ DecideAll
        \/ \E c \in Command : Tell(c) \/ \E o \in Outcome : Decide(c, o) \/ DecideAndTell(c, o)

Spec == Init /\ [][Next]_<<outcome, told>>
==========================================================================
